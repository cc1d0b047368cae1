------------------------------ MODULE TagBridge ------------------------------
(***************************************************************************)
(* The timing protocol of TagBridge (src/src/mem/tag_bridge.cc): a bridge  *)
(* that queues requests towards memory and responses towards the master    *)
(* side, reserves a response slot for each request that expects one, and   *)
(* stamps the bridge's DSid on every request it takes.                     *)
(*                                                                         *)
(* The peer of the slave port (a crossbar or a device) and the peer of the *)
(* master port (memory) are gem5 code outside this repository; they are    *)
(* modelled by the timing protocol: a refused sender keeps its packet and  *)
(* sends it again after recvRetry, and offers nothing else meanwhile.      *)
(*                                                                         *)
(* Assertions of the code are stated as properties; the actions behave as  *)
(* the build with assertions compiled out.  Delays are abstracted: a       *)
(* scheduled sendEvent fires at some later time.                           *)
(***************************************************************************)
EXTENDS Naturals, Sequences, FiniteSets

CONSTANTS
    Port,            \* port identifiers a crossbar writes into src / dest
    BridgeDSid,      \* TagBridgeParams::DSid
    NoDSid,          \* a packet whose VALID_DSID flag is clear
    NoPacket,
    ReqQueueLimit,   \* BridgeMasterPort::reqQueueLimit
    RespQueueLimit,  \* BridgeSlavePort::respQueueLimit
    MaxPackets       \* bound on the number of requests the peer issues

ASSUME PortAssumption  == Port # {}
ASSUME DSidAssumption  == BridgeDSid # NoDSid
ASSUME LimitAssumption == /\ ReqQueueLimit \in Nat \ {0}
                          /\ RespQueueLimit \in Nat \ {0}
                          /\ MaxPackets \in Nat

Packet == [id : Nat, from : Port, src : Port, needsResponse : BOOLEAN,
           memInhibit : BOOLEAN, DSid : {BridgeDSid, NoDSid},
           senderState : Seq(Port)]

Response == [id : Nat, from : Port, dest : Port, DSid : {BridgeDSid, NoDSid},
             senderState : Seq(Port)]

ASSUME NoPacketAssumption == NoPacket \notin Packet

VARIABLES
    reqList,              \* BridgeMasterPort::transmitList
    reqEvent,             \* BridgeMasterPort::sendEvent is scheduled
    respList,             \* BridgeSlavePort::transmitList
    respEvent,            \* BridgeSlavePort::sendEvent is scheduled
    outstandingResponses, \* response slots reserved
    retryReq,             \* a request was refused, a retry is owed to the peer
    \* the peer of the slave port
    peer,                 \* "ready", "stalled" (refused), "retry" (told to retry)
    held,                 \* the request the peer keeps while not ready
    issued,               \* requests issued so far; their ids are 1 .. issued
    respBlocked,          \* the peer refused a response and owes a retry
    \* the peer of the master port
    below,                \* requests taken by memory that it still has to answer
    reqBlocked,           \* memory refused a request and owes a retry
    forwarded             \* number of requests memory has taken

bridgeVars == <<reqList, reqEvent, respList, respEvent,
                outstandingResponses, retryReq>>
peerVars   == <<peer, held, issued, respBlocked>>
memVars    == <<below, reqBlocked, forwarded>>
vars       == <<bridgeVars, peerVars, memVars>>

TypeOK ==
    /\ reqList \in Seq(Packet)
    /\ reqEvent \in BOOLEAN
    /\ respList \in Seq(Response)
    /\ respEvent \in BOOLEAN
    /\ outstandingResponses \in Nat
    /\ retryReq \in BOOLEAN
    /\ peer \in {"ready", "stalled", "retry"}
    /\ held \in Packet \cup {NoPacket}
    /\ issued \in Nat
    /\ respBlocked \in BOOLEAN
    /\ below \in SUBSET Packet
    /\ reqBlocked \in BOOLEAN
    /\ forwarded \in Nat

Init ==
    /\ reqList = << >> /\ reqEvent = FALSE
    /\ respList = << >> /\ respEvent = FALSE
    /\ outstandingResponses = 0 /\ retryReq = FALSE
    /\ peer = "ready" /\ held = NoPacket /\ issued = 0 /\ respBlocked = FALSE
    /\ below = {} /\ reqBlocked = FALSE /\ forwarded = 0

-----------------------------------------------------------------------------
(* Helpers of the bridge.  A definition whose name starts with Bug is a      *)
(* plausible error in the definition that follows it, used to show that the  *)
(* properties notice.                                                        *)

RespQueueFull == outstandingResponses = RespQueueLimit

ReqQueueFull == Len(reqList) = ReqQueueLimit

ExpectsResponse(pkt) == pkt.needsResponse /\ ~pkt.memInhibit

Tagged(pkt) == [pkt EXCEPT !.DSid = BridgeDSid]

\* pushSenderState(new RequestState(pkt->getSrc())) when an answer will come.
PushRequestState(pkt) ==
    IF ExpectsResponse(pkt)
    THEN [pkt EXCEPT !.senderState = <<pkt.src>> \o @]
    ELSE pkt

SchedTimingReq(pkt) ==
    /\ reqEvent' = IF reqList = << >> THEN TRUE ELSE reqEvent
    /\ reqList' = Append(reqList, PushRequestState(pkt))

\* The destination is left as the downstream crossbar wrote it.
BugRestoreDest(resp) == [resp EXCEPT !.senderState = Tail(@)]

\* popSenderState and setDest(req_state->origSrc).
RestoreDest(resp) ==
    [resp EXCEPT !.dest = Head(resp.senderState),
                 !.senderState = Tail(resp.senderState)]

SchedTimingResp(resp) ==
    /\ respEvent' = IF respList = << >> THEN TRUE ELSE respEvent
    /\ respList' = Append(respList, RestoreDest(resp))

\* The retry is sent but the flag stays set.
BugRetryStalledReq ==
    /\ peer' = IF retryReq THEN "retry" ELSE peer
    /\ UNCHANGED retryReq

\* retryReq = false; sendRetry().
RetryStalledReq ==
    /\ peer' = IF retryReq THEN "retry" ELSE peer
    /\ retryReq' = FALSE

-----------------------------------------------------------------------------
(* BridgeSlavePort::recvTimingReq, one action per outcome.                   *)

\* The request queue is full: refused before the packet is touched.
RefuseReqFull(pkt) ==
    /\ ReqQueueFull
    /\ retryReq' = TRUE
    /\ peer' = "stalled" /\ held' = pkt
    /\ UNCHANGED <<reqList, reqEvent, respList, respEvent, outstandingResponses>>

\* The stamped packet is queued although it is being refused.
BugRefuseRespFull(pkt) ==
    /\ ~ReqQueueFull
    /\ ExpectsResponse(pkt) /\ RespQueueFull
    /\ retryReq' = TRUE
    /\ peer' = "stalled" /\ held' = Tagged(pkt)
    /\ SchedTimingReq(Tagged(pkt))
    /\ UNCHANGED <<respList, respEvent, outstandingResponses>>

\* No response slot: refused, but the packet has been stamped already.
RefuseRespFull(pkt) ==
    /\ ~ReqQueueFull
    /\ ExpectsResponse(pkt) /\ RespQueueFull
    /\ retryReq' = TRUE
    /\ peer' = "stalled" /\ held' = Tagged(pkt)
    /\ UNCHANGED <<reqList, reqEvent, respList, respEvent, outstandingResponses>>

\* The slot is reserved for requests that no one will answer, too.
BugReserveSlot(pkt) == outstandingResponses + 1

ReserveSlot(pkt) ==
    outstandingResponses + IF ExpectsResponse(pkt) THEN 1 ELSE 0

Accept(pkt) ==
    /\ ~ReqQueueFull
    /\ ~(ExpectsResponse(pkt) /\ RespQueueFull)
    /\ outstandingResponses' = ReserveSlot(pkt)
    /\ SchedTimingReq(Tagged(pkt))
    /\ peer' = "ready" /\ held' = NoPacket
    /\ UNCHANGED <<respList, respEvent, retryReq>>

RecvTimingReq(pkt) == RefuseReqFull(pkt) \/ RefuseRespFull(pkt) \/ Accept(pkt)

\* The peer offers a new request.
PeerIssue ==
    /\ peer = "ready" /\ issued < MaxPackets
    /\ issued' = issued + 1
    /\ \E from \in Port, nr \in BOOLEAN, mi \in BOOLEAN :
          RecvTimingReq([id |-> issued + 1, from |-> from, src |-> from,
                         needsResponse |-> nr, memInhibit |-> mi,
                         DSid |-> NoDSid, senderState |-> << >>])
    /\ UNCHANGED <<respBlocked, memVars>>

\* The peer sends the refused request again after recvRetry.
PeerResend ==
    /\ peer = "retry"
    /\ RecvTimingReq(held)
    /\ UNCHANGED <<issued, respBlocked, memVars>>

-----------------------------------------------------------------------------
(* BridgeMasterPort::trySendTiming, run by sendEvent or by recvRetry.        *)

MasterTrySendTurn ==
    /\ reqEvent \/ reqBlocked
    /\ reqList # << >>

\* Memory takes the request at the head; its crossbar may rewrite src.
MasterTrySendOk ==
    /\ MasterTrySendTurn
    /\ reqList' = Tail(reqList)
    /\ reqEvent' = (Tail(reqList) # << >>)
    /\ reqBlocked' = FALSE
    /\ forwarded' = forwarded + 1
    /\ \E s \in Port :
          below' = IF ExpectsResponse(Head(reqList))
                   THEN below \cup {[Head(reqList) EXCEPT !.src = s]}
                   ELSE below
    /\ RetryStalledReq
    /\ UNCHANGED <<respList, respEvent, outstandingResponses,
                   held, issued, respBlocked>>

\* Memory refuses: nothing is done until its recvRetry.
MasterTrySendFail ==
    /\ MasterTrySendTurn
    /\ reqEvent' = FALSE
    /\ reqBlocked' = TRUE
    /\ UNCHANGED <<reqList, respList, respEvent, outstandingResponses, retryReq,
                   peerVars, below, forwarded>>

\* BridgeMasterPort::recvTimingResp: memory answers in any order.
RecvTimingResp ==
    \E p \in below :
       /\ below' = below \ {p}
       /\ SchedTimingResp([id |-> p.id, from |-> p.from, dest |-> p.src,
                           DSid |-> p.DSid, senderState |-> p.senderState])
       /\ UNCHANGED <<reqList, reqEvent, outstandingResponses, retryReq,
                      peerVars, reqBlocked, forwarded>>

-----------------------------------------------------------------------------
(* BridgeSlavePort::trySendTiming, run by sendEvent or by recvRetry.         *)

SlaveTrySendTurn ==
    /\ respEvent \/ respBlocked
    /\ respList # << >>

\* A stalled request is not looked at when a response leaves.
BugRetryAfterResponse == UNCHANGED <<retryReq, peer>>

RetryAfterResponse ==
    IF ReqQueueFull THEN UNCHANGED <<retryReq, peer>> ELSE RetryStalledReq

SlaveTrySendOk ==
    /\ SlaveTrySendTurn
    /\ respList' = Tail(respList)
    /\ respEvent' = (Tail(respList) # << >>)
    /\ respBlocked' = FALSE
    /\ outstandingResponses' = outstandingResponses - 1
    /\ RetryAfterResponse
    /\ UNCHANGED <<reqList, reqEvent, held, issued, memVars>>

SlaveTrySendFail ==
    /\ SlaveTrySendTurn
    /\ respEvent' = FALSE
    /\ respBlocked' = TRUE
    /\ UNCHANGED <<reqList, reqEvent, respList, outstandingResponses, retryReq,
                   peer, held, issued, memVars>>

\* All requests of the bounded run are served; only then may nothing happen.
Served ==
    /\ peer = "ready" /\ issued = MaxPackets
    /\ reqList = << >> /\ below = {} /\ respList = << >>
    /\ UNCHANGED vars

Next ==
    \/ PeerIssue \/ PeerResend
    \/ MasterTrySendOk \/ MasterTrySendFail
    \/ RecvTimingResp
    \/ SlaveTrySendOk \/ SlaveTrySendFail
    \/ Served

(***************************************************************************)
(* Events that are scheduled fire, a peer told to retry does so, memory    *)
(* answers, and neither side refuses for ever.                             *)
(***************************************************************************)
Fairness ==
    /\ WF_vars(PeerResend)
    /\ SF_vars(MasterTrySendOk)
    /\ WF_vars(RecvTimingResp)
    /\ SF_vars(SlaveTrySendOk)

Spec == Init /\ [][Next]_vars

FairSpec == Spec /\ Fairness

-----------------------------------------------------------------------------
(* Properties.                                                               *)

(***************************************************************************)
(* The ids of the requests that hold a response slot: queued towards       *)
(* memory, being served by memory, or answered and queued for delivery.    *)
(***************************************************************************)
SlotHolders ==
    {n \in 1 .. issued :
        \/ \E i \in DOMAIN reqList :
              reqList[i].id = n /\ ExpectsResponse(reqList[i])
        \/ \E p \in below : p.id = n
        \/ \E i \in DOMAIN respList : respList[i].id = n}

(***************************************************************************)
(* The counter outstandingResponses, incremented in recvTimingReq and      *)
(* decremented two queues and a memory access later, always equals the     *)
(* number of requests still in flight that expect an answer, and never     *)
(* exceeds the response queue limit.                                       *)
(***************************************************************************)
SlotsConserved ==
    /\ outstandingResponses = Cardinality(SlotHolders)
    /\ outstandingResponses <= RespQueueLimit

(***************************************************************************)
(* "We are guaranteed to have space for the response" (recvTimingResp):    *)
(* neither queue ever outgrows its limit, although schedTimingResp does    *)
(* not look at the length of its list.                                     *)
(***************************************************************************)
QueuesBounded ==
    /\ Len(reqList) <= ReqQueueLimit
    /\ Len(respList) <= RespQueueLimit

(***************************************************************************)
(* Requests leave in the order they were accepted and none is lost or      *)
(* forwarded twice across refusals and retries: the queue holds exactly    *)
(* the issued requests that memory has not taken, oldest first, except the *)
(* one the peer still keeps.                                               *)
(***************************************************************************)
RequestsInOrder ==
    /\ \A i \in DOMAIN reqList : reqList[i].id = forwarded + i
    /\ issued = forwarded + Len(reqList) + IF peer = "ready" THEN 0 ELSE 1
    /\ peer # "ready" => held # NoPacket /\ held.id = issued

(***************************************************************************)
(* A response is delivered to the requester that issued it, carrying the   *)
(* bridge's DSid and the sender-state stack it was issued with, even       *)
(* though a second crossbar below the bridge rewrote its source.           *)
(***************************************************************************)
ResponsesRouted ==
    \A i \in DOMAIN respList :
        /\ respList[i].dest = respList[i].from
        /\ respList[i].DSid = BridgeDSid
        /\ respList[i].senderState = << >>

(***************************************************************************)
(* Each queue that is not empty is driven by exactly one thing: a          *)
(* scheduled sendEvent or a retry owed by the other side.  With neither    *)
(* the queue would hang; with both an event would be scheduled twice or    *)
(* would fire on a refused packet (schedule and trySendTiming assert it).  *)
(***************************************************************************)
QueuesDriven ==
    /\ reqList # << >> <=> reqEvent \/ reqBlocked
    /\ respList # << >> <=> respEvent \/ respBlocked
    /\ ~(reqEvent /\ reqBlocked) /\ ~(respEvent /\ respBlocked)

(***************************************************************************)
(* No lost wake-up.  A retry is owed exactly while the peer waits for one, *)
(* and is owed only while some queue is at its limit, so the departure     *)
(* that makes room sends it ("we should not see a timing request if we are *)
(* already in a retry", recvTimingReq).                                    *)
(***************************************************************************)
RetryOwed ==
    /\ retryReq <=> peer = "stalled"
    /\ retryReq => ReqQueueFull \/ RespQueueFull

(***************************************************************************)
(* "It will definitely be possible to accept it now" (slave trySendTiming):*)
(* the retry sent when a response leaves finds room in both queues.        *)
(***************************************************************************)
RetryAfterResponseSucceeds ==
    [][SlaveTrySendOk /\ peer = "stalled" /\ peer' = "retry"
         => ~ReqQueueFull' /\ ~RespQueueFull']_vars

(***************************************************************************)
(* A stalled request is eventually accepted: neither the repeated stall    *)
(* that retryStalledReq allows nor a full response queue starves it.       *)
(***************************************************************************)
StalledIsAccepted == peer = "stalled" ~> peer = "ready"

(***************************************************************************)
(* assert(!pkt->hasDSid()) in recvTimingReq: a packet that reaches the     *)
(* assertion has not been stamped before.                                  *)
(***************************************************************************)
NeverStampedTwice ==
    peer = "retry" /\ ~ReqQueueFull => held.DSid = NoDSid

=============================================================================
