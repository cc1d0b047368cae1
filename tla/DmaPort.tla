------------------------------- MODULE DmaPort -------------------------------
(***************************************************************************)
(* PARDg5VDmaPort (src/src/dev/pard/dma_device.cc): a DMA action of a      *)
(* device is split into one packet per cache line, the packets are sent    *)
(* one by one through a port that may refuse them, the answers come back   *)
(* in any order, and the last answer signals the device's completion       *)
(* event.  The device's DSid may be changed by the IO hub's control plane  *)
(* at any time (PARDg5VDmaDevice::setDSid).                                *)
(*                                                                         *)
(* The memory system is modelled by the timing protocol: it refuses a      *)
(* packet and later sends a retry, or takes it and answers it once.        *)
(***************************************************************************)
EXTENDS Integers, Sequences, FiniteSets

CONSTANTS
    LineSize,     \* System::cacheLineSize()
    MaxAddr,      \* DMA actions start at 0 .. MaxAddr
    MaxSize,      \* and move 1 .. MaxSize bytes
    MaxActions,   \* bound on the number of DMA actions
    LDomTags      \* tags the control plane may assign

ASSUME SizeAssumption ==
    /\ LineSize \in Nat \ {0}
    /\ MaxAddr \in Nat /\ MaxSize \in Nat /\ MaxActions \in Nat
ASSUME TagAssumption == LDomTags \subseteq 0 .. 65534

\* _DSid(-1) in a uint16_t: the tag of a device that was given none.
NoTag == (-1) % 2^16

Tag == LDomTags \cup {NoTag}

VARIABLES
    DSid,           \* PARDg5VDmaDevice::_DSid
    transmitList,   \* packets not sent yet
    sendEvent,      \* sendEvent is scheduled
    inRetry,        \* the packet at the head was refused
    pendingCount,   \* packets that have no answer yet
    drainManager,   \* someone waits for signalDrainDone
    reqState,       \* reqState[a]: the DmaReqState of action a
    timingMode,     \* System::isTimingMode(); fixed while the port is in use
    below           \* packets taken by the memory system

portVars == <<transmitList, sendEvent, inRetry, pendingCount, drainManager, reqState>>
dmaVars  == <<DSid, portVars, timingMode, below>>

DmaPacket == [act : Nat, addr : Nat, size : Nat, DSid : Tag]

\* One record per DMA action: what was asked for and what has been done.
DmaReqState == [addr : Nat, totBytes : Nat, numBytes : Nat, DSid : Tag,
                completions : Nat]

PortTypeOK ==
    /\ DSid \in Tag
    /\ transmitList \in Seq(DmaPacket)
    /\ sendEvent \in BOOLEAN /\ inRetry \in BOOLEAN
    /\ pendingCount \in Nat
    /\ drainManager \in BOOLEAN
    /\ reqState \in Seq(DmaReqState)
    /\ timingMode \in BOOLEAN
    /\ below \in SUBSET DmaPacket

PortInit ==
    /\ DSid = NoTag
    /\ transmitList = << >> /\ sendEvent = FALSE /\ inRetry = FALSE
    /\ pendingCount = 0 /\ drainManager = FALSE
    /\ reqState = << >>
    /\ timingMode \in BOOLEAN
    /\ below = {}

-----------------------------------------------------------------------------
(* ChunkGenerator: the pieces of [addr, addr + size) between the boundaries  *)
(* of cache lines, in address order.                                         *)

LineOf(a) == a \div LineSize

Smaller(x, y) == IF x < y THEN x ELSE y

Chunks(addr, size) ==
    [k \in 1 .. LineOf(addr + size - 1) - LineOf(addr) + 1 |->
        LET first == IF k = 1 THEN addr ELSE (LineOf(addr) + k - 1) * LineSize
            past  == Smaller(addr + size, (LineOf(addr) + k) * LineSize)
        IN  [addr |-> first, size |-> past - first]]

(* Each packet carries the device's tag of the moment dmaAction is called.   *)

Packets(a, addr, size, tag) ==
    [k \in DOMAIN Chunks(addr, size) |->
        [act |-> a, addr |-> Chunks(addr, size)[k].addr,
         size |-> Chunks(addr, size)[k].size, DSid |-> tag]]

-----------------------------------------------------------------------------
(* trySendTimingReq: the head of the list is sent or refused.  It is called  *)
(* on the list l after what the caller has queued.                           *)

\* The next send is not scheduled.
BugNoNextSend(l) ==
    /\ inRetry' = FALSE
    /\ transmitList' = Tail(l)
    /\ sendEvent' = FALSE
    /\ below' = below \cup {Head(l)}

\* The packet takes the tag the device has when it is sent.
BugSendTag(l) ==
    /\ inRetry' = FALSE
    /\ transmitList' = Tail(l)
    /\ sendEvent' = (Tail(l) # << >>)
    /\ below' = below \cup {[Head(l) EXCEPT !.DSid = DSid]}

SendHead(l) ==
    /\ inRetry' = FALSE
    /\ transmitList' = Tail(l)
    /\ sendEvent' = (Tail(l) # << >>)
    /\ below' = below \cup {Head(l)}

RefuseHead(l) ==
    /\ inRetry' = TRUE
    /\ transmitList' = l
    /\ sendEvent' = FALSE
    /\ UNCHANGED below

TrySendTimingReq(l) == SendHead(l) \/ RefuseHead(l)

\* sendDma in timing mode: nothing is sent while a send is already due.
SendDma(l) ==
    IF inRetry \/ sendEvent
    THEN transmitList' = l /\ UNCHANGED <<inRetry, sendEvent, below>>
    ELSE TrySendTimingReq(l)

-----------------------------------------------------------------------------
(* dmaAction, called by the device.  A rejected action has no effect.        *)

NewReqState(addr, size, acked, completions) ==
    [addr |-> addr, totBytes |-> size, numBytes |-> acked, DSid |-> DSid,
     completions |-> completions]

\* DSid == -1 with a uint16_t on the left: the sides are compared as ints.
Rejected == DSid = -1

QueueDma(pkts) == pendingCount + Len(pkts)

DmaActionTiming(addr, size) ==
    /\ timingMode
    /\ ~Rejected
    /\ LET pkts == Packets(Len(reqState) + 1, addr, size, DSid) IN
          /\ SendDma(transmitList \o pkts)
          /\ pendingCount' = QueueDma(pkts)
    /\ reqState' = Append(reqState, NewReqState(addr, size, 0, 0))
    /\ UNCHANGED <<DSid, drainManager, timingMode>>

\* In atomic mode every packet is sent and answered before dmaAction returns.
DmaActionAtomic(addr, size) ==
    /\ ~timingMode
    /\ ~Rejected
    /\ reqState' = Append(reqState, NewReqState(addr, size, size, 1))
    /\ UNCHANGED <<DSid, transmitList, sendEvent, inRetry, pendingCount,
                   drainManager, timingMode, below>>

DmaAction ==
    /\ Len(reqState) < MaxActions
    /\ \E addr \in 0 .. MaxAddr, size \in 1 .. MaxSize :
          DmaActionTiming(addr, size) \/ DmaActionAtomic(addr, size)

\* sendEvent fires and runs sendDma.
ProcessSendEvent ==
    /\ sendEvent
    /\ TrySendTimingReq(transmitList)
    /\ UNCHANGED <<DSid, pendingCount, drainManager, reqState, timingMode>>

\* The memory system is ready for the refused packet.
RecvRetry ==
    /\ inRetry
    /\ TrySendTimingReq(transmitList)
    /\ UNCHANGED <<DSid, pendingCount, drainManager, reqState, timingMode>>

-----------------------------------------------------------------------------
(* handleResp.                                                               *)

\* The drain is signalled when this packet's action is complete.
BugSignalDrain(st) == drainManager /\ st.totBytes # st.numBytes

\* pendingCount is looked at before it is decremented.
BugSignalLate(st) == IF pendingCount = 0 THEN FALSE ELSE drainManager

\* signalDrainDone and drainManager = NULL, when nothing is pending any more.
SignalDrain(st) == IF pendingCount' = 0 THEN FALSE ELSE drainManager

Complete(st) == st.completions + IF st.totBytes = st.numBytes THEN 1 ELSE 0

\* Bytes are counted by the line that carried them.
BugAck(st, pkt) == [st EXCEPT !.numBytes = @ + LineSize]

Ack(st, pkt) == [st EXCEPT !.numBytes = @ + pkt.size]

HandleResp(pkt) ==
    LET st == Ack(reqState[pkt.act], pkt) IN
    /\ pendingCount' = pendingCount - 1
    /\ reqState' = [reqState EXCEPT ![pkt.act] =
                       [st EXCEPT !.completions = Complete(st)]]
    /\ drainManager' = SignalDrain(st)

RecvTimingResp ==
    \E pkt \in below :
       /\ below' = below \ {pkt}
       /\ HandleResp(pkt)
       /\ UNCHANGED <<DSid, transmitList, sendEvent, inRetry, timingMode>>

(* drain: the simulator asks; a return of 0 (nothing pending) sets nothing.  *)
DrainPort ==
    /\ pendingCount # 0 /\ ~drainManager
    /\ drainManager' = TRUE
    /\ UNCHANGED <<DSid, transmitList, sendEvent, inRetry, pendingCount,
                   reqState, timingMode, below>>

SetDSid ==
    \E tag \in LDomTags :
       /\ DSid' = tag
       /\ UNCHANGED <<portVars, timingMode, below>>

PortNext ==
    \/ DmaAction \/ ProcessSendEvent \/ RecvRetry \/ RecvTimingResp
    \/ DrainPort \/ SetDSid

(***************************************************************************)
(* A scheduled event fires, the memory system answers what it took and     *)
(* does not refuse the same packet for ever.                               *)
(***************************************************************************)
Sent == (ProcessSendEvent \/ RecvRetry) /\ ~inRetry'

PortFairness == SF_dmaVars(Sent) /\ WF_dmaVars(ProcessSendEvent) /\ WF_dmaVars(RecvTimingResp)

PortSpec == PortInit /\ [][PortNext]_dmaVars

PortFairSpec == PortSpec /\ PortFairness

-----------------------------------------------------------------------------
(* Properties.                                                               *)

Queued(a) == {i \in DOMAIN transmitList : transmitList[i].act = a}

InMemory(a) == {p \in below : p.act = a}

(***************************************************************************)
(* The completion event is scheduled once per DMA action, at the answer of *)
(* its last packet and not before, whatever the order of the answers:      *)
(* numBytes reaches totBytes exactly when no packet of it is left.         *)
(***************************************************************************)
CompletedOnce ==
    \A a \in DOMAIN reqState :
       LET st == reqState[a] IN
       /\ st.numBytes <= st.totBytes
       /\ st.numBytes = st.totBytes <=> Queued(a) = {} /\ InMemory(a) = {}
       /\ st.completions = IF st.numBytes = st.totBytes THEN 1 ELSE 0

(***************************************************************************)
(* A drain is signalled when nothing is queued or in flight any more, and  *)
(* not before (handleResp decides by pendingCount alone).                  *)
(***************************************************************************)
DrainSignalledIdle ==
    [][drainManager /\ ~drainManager' => transmitList' = << >> /\ below' = {}]_dmaVars

(***************************************************************************)
(* Isolation of DMA: a packet carries the tag its device had when the DMA  *)
(* was started, even if the control plane reassigns the device while the   *)
(* packet is queued or refused, and lies inside the range asked for.       *)
(***************************************************************************)
WithinAction(p) ==
    LET st == reqState[p.act] IN
    /\ p.DSid = st.DSid
    /\ p.addr >= st.addr
    /\ p.addr + p.size <= st.addr + st.totBytes

PacketsOfAction ==
    /\ \A i \in DOMAIN transmitList : WithinAction(transmitList[i])
    /\ \A p \in below : WithinAction(p)

(***************************************************************************)
(* Every DMA action completes, and every drain is signalled once the       *)
(* device starts no more actions.                                          *)
(***************************************************************************)
ActionsComplete ==
    \A a \in 1 .. MaxActions :
       (a \in DOMAIN reqState) ~> (a \in DOMAIN reqState /\ reqState[a].completions = 1)

DrainSignalled == drainManager ~> ~drainManager

=============================================================================
