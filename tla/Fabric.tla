------------------------------- MODULE Fabric -------------------------------
(***************************************************************************)
(* The memory fabric of PARDg5-V for timing requests.  The cached ports of *)
(* a TaggedDerivO3CPU share a TagXBar (src/src/mem/tag_xbar.cc), a gem5    *)
(* crossbar behind which every request gets a sender state that remembers  *)
(* its port.  TagXBar and other masters are ports of PARDSystemXBar        *)
(* (src/src/mem/pard_system_xbar.cc), which sends a request to the memory  *)
(* port, to the I/O port, or by address to another device.                 *)
(*                                                                         *)
(* gem5's layers are external and modelled from how the two crossbars use  *)
(* them: the layer of a destination takes one request at a time, queues    *)
(* the ports it turns away and tells the first of them to retry.  A port   *)
(* that is told to retry sends at once, in the same call; turn names it    *)
(* until it has.  Of the response layers, those of TagXBar's crossbar are  *)
(* kept, since it may refuse a response that TagXBar has taken apart; the  *)
(* others only delay.  Among snoops, one is kept: another port of the same *)
(* CPU owns the line and answers itself (the request is inhibited).        *)
(***************************************************************************)
EXTENDS Integers, Sequences, FiniteSets

CONSTANTS
    CpuPorts,       \* slave ports of TagXBar's crossbar
    SysPorts,       \* slave ports of PARDSystemXBar that are not TagXBar's
    TagId,          \* the slave port of PARDSystemXBar TagXBar is bound to
    Requests,       \* the Request objects (pointers) there may be at a time
    Addrs,          \* the addresses requested
    fixedPortMap,   \* addresses of the memory and the I/O port
    portMap,        \* addresses of other devices
    Cacheable       \* addresses that are snooped

NoPort == -1
NoMaster == <<"none", NoPort>>
Masters == ({"cpu"} \X CpuPorts) \cup ({"sys"} \X SysPorts)
MasterPorts == {fixedPortMap[a] : a \in DOMAIN fixedPortMap} \cup {portMap[a] : a \in DOMAIN portMap}

ASSUME FabricAssumption ==
    /\ CpuPorts \subseteq Nat /\ SysPorts \subseteq Nat /\ TagId \in Nat \ SysPorts
    /\ Addrs \subseteq DOMAIN fixedPortMap \cup DOMAIN portMap

VARIABLES
    req,            \* each Request and its packet
    inner,          \* the request layer of TagXBar's crossbar
    layers,         \* reqLayers of PARDSystemXBar
    answering,      \* ports whose response layer in TagXBar's crossbar is busy
    outstandingReq, \* outstandingReq of PARDSystemXBar
    stale,          \* history: requests in it that were answered above it
    turn,           \* the master that has been told to retry
    died            \* the assertion that failed, if one did

vars == <<req, inner, layers, answering, outstandingReq, stale, turn, died>>

Idle == [state |-> "IDLE", waiting |-> << >>, peer |-> NoPort]
Free == [place |-> "free", master |-> NoMaster, addr |-> NoPort, needsResponse |-> FALSE,
         inhibited |-> FALSE, states |-> << >>, src |-> NoPort]

Init ==
    /\ req = [r \in Requests |-> Free]
    /\ inner = Idle
    /\ layers = [d \in MasterPorts |-> Idle] /\ answering = {}
    /\ outstandingReq = {} /\ stale = {}
    /\ turn = NoMaster /\ died = "no"

Packet ==
    [place : {"free", "held", "sent", "refused", "done"}, master : {"none", "cpu", "sys"} \X Int, addr : Addrs \cup {NoPort},
     needsResponse : BOOLEAN, inhibited : BOOLEAN, states : Seq({"own", "tag"} \X Int), src : Int]

TypeOK ==
    /\ req \in [Requests -> Packet]
    /\ outstandingReq \subseteq Requests /\ stale \subseteq Requests
    /\ answering \subseteq Int
    /\ died \in {"no", "inhibited request refused", "request already outstanding", "response refused"}

-----------------------------------------------------------------------------
(* A gem5 layer.                                                           *)
Occupied(l) == l.state = "BUSY" \/ l.peer # NoPort
Occupy(l) == [l EXCEPT !.state = "BUSY"]                            \* succeededTiming
TurnAway(l, port) == [l EXCEPT !.waiting = Append(@, port)]         \* tryTiming
FailedTiming(l, port) == [l EXCEPT !.state = "BUSY", !.peer = port]
RecvRetry(l) == [l EXCEPT !.waiting = <<l.peer>> \o @, !.peer = NoPort]
RetryFirst(l) == [l EXCEPT !.state = "RETRY", !.waiting = Tail(@)]
CanRetry(l) == l.waiting # << >> /\ l.peer = NoPort

-----------------------------------------------------------------------------
(* TagXBar.                                                                *)

\* recvTimingReq: an inhibited request gets no state, and a refused one loses
\* its last, inhibited or not.
OwnState(m) == <<"own", m[2]>>
PushSenderState(q, src) ==
    IF q.needsResponse /\ ~q.inhibited THEN [q EXCEPT !.states = Append(@, <<"tag", src>>)] ELSE q
PopRefused(q) ==
    IF q.needsResponse THEN [q EXCEPT !.states = SubSeq(@, 1, Len(@) - 1)] ELSE q

\* recvTimingResp: the response goes to the port in the state.  A refused one
\* gets its state and its destination back.
LastState(q) == q.states[Len(q.states)]
Redirected(q) == [q EXCEPT !.src = LastState(q)[2], !.states = SubSeq(@, 1, Len(@) - 1)]
BugPutBack(p, state, dest) == [p EXCEPT !.src = dest]
PutBack(p, state, dest) == [p EXCEPT !.states = Append(@, state), !.src = dest]
RecvTimingResp(q, successful) ==
    LET p == Redirected(q)
    IN  IF successful THEN [p EXCEPT !.place = "done"]
        ELSE [PutBack(p, LastState(q), q.src) EXCEPT !.place = "refused"]

\* TagXBarMasterPort::recvRetry hands a retry on to the crossbar inside.
BugTagRecvRetry(l) == l
TagRecvRetry(l) == RecvRetry(l)

-----------------------------------------------------------------------------
(* PARDSystemXBar.                                                         *)

Destination(a) == IF a \in DOMAIN fixedPortMap THEN fixedPortMap[a] ELSE portMap[a]

\* A layer that is free tells the first port that waits for it.  When that is
\* TagXBar and its crossbar is busy, nobody sends, and the layer burns a cycle.
RetryWaiting(d, l) ==
    LET port == Head(l.waiting)
        handed == TagRecvRetry(inner)
    IN  IF port # TagId
        THEN /\ layers' = [layers EXCEPT ![d] = RetryFirst(l)]
             /\ turn' = <<"sys", port>>
             /\ UNCHANGED inner
        ELSE IF inner.state = "IDLE" /\ CanRetry(handed)
        THEN /\ layers' = [layers EXCEPT ![d] = RetryFirst(l)]
             /\ inner' = RetryFirst(handed)
             /\ turn' = <<"cpu", Head(handed.waiting)>>
        ELSE /\ layers' = [layers EXCEPT ![d] = Occupy(RetryFirst(l))]
             /\ inner' = handed
             /\ UNCHANGED turn

Running == turn = NoMaster /\ died = "no"

ReleaseLayer(d) ==
    /\ Running /\ layers[d].state = "BUSY"
    /\ LET l == [layers[d] EXCEPT !.state = "IDLE"]
       IN  IF CanRetry(l) THEN RetryWaiting(d, l)
           ELSE layers' = [layers EXCEPT ![d] = l] /\ UNCHANGED <<inner, turn>>
    /\ UNCHANGED <<req, answering, outstandingReq, stale, died>>

\* The device at port d, which refused a request, has room again.
PeerRetry(d) ==
    /\ Running /\ layers[d].peer # NoPort
    /\ LET l == RecvRetry(layers[d])
       IN  IF l.state = "IDLE" THEN RetryWaiting(d, l)
           ELSE layers' = [layers EXCEPT ![d] = l] /\ UNCHANGED <<inner, turn>>
    /\ UNCHANGED <<req, answering, outstandingReq, stale, died>>

ReleaseInner ==
    /\ Running /\ inner.state = "BUSY"
    /\ LET l == [inner EXCEPT !.state = "IDLE"]
       IN  IF CanRetry(l) THEN inner' = RetryFirst(l) /\ turn' = <<"cpu", Head(l.waiting)>>
           ELSE inner' = l /\ UNCHANGED turn
    /\ UNCHANGED <<req, layers, answering, outstandingReq, stale, died>>

ReleaseResp(c) ==
    /\ Running /\ c \in answering
    /\ answering' = answering \ {c}
    /\ UNCHANGED <<req, inner, layers, outstandingReq, stale, turn, died>>

-----------------------------------------------------------------------------
(* Master m sends packet q of request r.                                   *)

\* outstandingReq once the request is forwarded, and after a refusal.
AddOutstanding(q) == q.needsResponse
Inserted(r, q) == outstandingReq \cup (IF AddOutstanding(q) THEN {r} ELSE {})
BugUndo(r, q) == Inserted(r, q)
Undo(r, q) == Inserted(r, q) \ (IF AddOutstanding(q) THEN {r} ELSE {})

Held(q) == [q EXCEPT !.place = "held"]
IsCpu(m) == m[1] = "cpu"
SlaveId(m) == IF IsCpu(m) THEN TagId ELSE m[2]
AtTag(m, q) == IF IsCpu(m) THEN PushSenderState(q, m[2]) ELSE q
Refused(m, q) == Held(IF IsCpu(m) THEN PopRefused(AtTag(m, q)) ELSE q)

\* The crossbar in TagXBar is occupied.
RefusedInside(m, r, q) ==
    /\ IsCpu(m) /\ Occupied(inner)
    /\ inner' = TurnAway(inner, m[2])
    /\ req' = [req EXCEPT ![r] = Held(q)]
    /\ UNCHANGED <<layers, outstandingReq, stale, died>>

InnerFails(m) == inner' = IF IsCpu(m) THEN FailedTiming(inner, m[2]) ELSE inner

\* The destination's layer is: also for an inhibited request, whose refusal
\* gem5's crossbar asserts against.
RefusedByLayer(m, r, q) ==
    LET d == Destination(q.addr)
    IN  /\ Occupied(layers[d])
        /\ layers' = [layers EXCEPT ![d] = TurnAway(@, SlaveId(m))]
        /\ InnerFails(m)
        /\ req' = [req EXCEPT ![r] = Refused(m, q)]
        /\ died' = IF q.inhibited THEN "inhibited request refused" ELSE died
        /\ UNCHANGED <<outstandingReq, stale>>

Stale(r, q) ==
    /\ ~Occupied(layers[Destination(q.addr)]) /\ AddOutstanding(q) /\ r \in outstandingReq
    /\ died' = "request already outstanding"
    /\ UNCHANGED <<req, inner, layers, outstandingReq, stale>>

Forwarded(r, q) ==
    ~Occupied(layers[Destination(q.addr)]) /\ (AddOutstanding(q) => r \notin outstandingReq)

\* The device refuses.
RefusedByPeer(m, r, q) ==
    /\ Forwarded(r, q) /\ ~q.inhibited
    /\ layers' = [layers EXCEPT ![Destination(q.addr)] = FailedTiming(@, SlaveId(m))]
    /\ InnerFails(m)
    /\ req' = [req EXCEPT ![r] = Refused(m, q)]
    /\ outstandingReq' = Undo(r, q)
    /\ UNCHANGED <<stale, died>>

Accepted(m, r, q) ==
    /\ Forwarded(r, q)
    /\ layers' = [layers EXCEPT ![Destination(q.addr)] = Occupy(@)]
    /\ inner' = IF IsCpu(m) THEN Occupy(inner) ELSE inner
    /\ req' = [req EXCEPT ![r] = IF ~q.needsResponse THEN Free
                                 ELSE [AtTag(m, q) EXCEPT !.src = SlaveId(m), !.place = "sent"]]
    /\ outstandingReq' = Inserted(r, q)
    /\ stale' = IF q.inhibited THEN stale \cup {r} ELSE stale
    /\ UNCHANGED died

Send(m, r, q) ==
    /\ died = "no" /\ turn \in {NoMaster, m} /\ turn' = NoMaster
    /\ UNCHANGED answering
    /\ \/ RefusedInside(m, r, q)
       \/ /\ IsCpu(m) => ~Occupied(inner)
          /\ \E inhibited \in IF IsCpu(m) /\ q.addr \in Cacheable /\ q.needsResponse
                              THEN BOOLEAN ELSE {FALSE} :
               LET p == [q EXCEPT !.inhibited = inhibited]
               IN  RefusedByLayer(m, r, p) \/ Stale(r, p) \/ RefusedByPeer(m, r, p) \/ Accepted(m, r, p)

Holds(m) == {r \in Requests : req[r].place = "held" /\ req[r].master = m}

NewPacket(m, a, needsResponse) ==
    [place |-> "free", master |-> m, addr |-> a, needsResponse |-> needsResponse,
     inhibited |-> FALSE, states |-> <<OwnState(m)>>, src |-> NoPort]

\* A new request, while the master has none that was refused.
SendNew(m) ==
    /\ Holds(m) = {} /\ turn = NoMaster
    /\ \E r \in Requests, a \in Addrs, needsResponse \in BOOLEAN :
         /\ req[r].place = "free"
         /\ Send(m, r, NewPacket(m, a, needsResponse))

Resend(m) == turn = m /\ \E r \in Holds(m) : Send(m, r, req[r])

-----------------------------------------------------------------------------
(* Answers.                                                                *)

\* CoherentXBar::recvTimingResp of PARDSystemXBar, to the port in the packet;
\* it asserts that the response is not refused.
Respond(r) ==
    /\ Running /\ req[r].place = "sent" /\ ~req[r].inhibited /\ req[r].src # TagId
    /\ outstandingReq' = outstandingReq \ {r}
    /\ req' = [req EXCEPT ![r].place = "done"]
    /\ UNCHANGED <<inner, layers, answering, stale, turn, died>>

RespondTag(r) ==
    LET dest == Redirected(req[r]).src
        successful == dest \notin answering
    IN  /\ Running /\ req[r].place = "sent" /\ ~req[r].inhibited /\ req[r].src = TagId
        /\ outstandingReq' = outstandingReq \ {r}
        /\ req' = [req EXCEPT ![r] = RecvTimingResp(@, successful)]
        /\ answering' = answering \cup {dest}
        /\ died' = IF successful THEN died ELSE "response refused"
        /\ UNCHANGED <<inner, layers, stale, turn>>

\* The cache that inhibited the request answers within TagXBar's crossbar,
\* through the layer of the port it answers.
SnoopRespond(r) ==
    /\ Running /\ req[r].place = "sent" /\ req[r].inhibited
    /\ req[r].master[2] \notin answering
    /\ answering' = answering \cup {req[r].master[2]}
    /\ req' = [req EXCEPT ![r].place = "done", ![r].src = req[r].master[2]]
    /\ UNCHANGED <<inner, layers, outstandingReq, stale, turn, died>>

\* The master is done with the packet and deletes its Request.
Consume(r) ==
    /\ Running /\ req[r].place = "done"
    /\ req' = [req EXCEPT ![r] = Free]
    /\ UNCHANGED <<inner, layers, answering, outstandingReq, stale, turn, died>>

\* A failed assertion ends the simulation.
Dead == died # "no" /\ UNCHANGED vars

Next ==
    \/ \E m \in Masters : SendNew(m) \/ Resend(m)
    \/ \E d \in MasterPorts : ReleaseLayer(d) \/ PeerRetry(d)
    \/ ReleaseInner
    \/ \E c \in CpuPorts : ReleaseResp(c)
    \/ \E r \in Requests : Respond(r) \/ RespondTag(r) \/ SnoopRespond(r) \/ Consume(r)
    \/ Dead

Spec == Init /\ [][Next]_vars

-----------------------------------------------------------------------------
(* Properties.                                                             *)

\* outstandingReq, by which the coherence protocol tells whose answer a snoop
\* response is, has exactly the requests that the crossbar forwarded and that
\* await an answer, however often they were refused before; only requests
\* answered above the crossbar stay behind in it (pard_system_xbar.cc
\* recvTimingReq).
OutstandingExact ==
    /\ \A r \in Requests : req[r].place = "sent" => r \in outstandingReq
    /\ \A r \in outstandingReq : req[r].place = "sent" \/ r \in stale

\* A packet that is back at its master, answered or, unless it is inhibited,
\* refused, came back to the port it left from and with the sender states it
\* had there; and a response that TagXBar's crossbar refuses goes back with
\* TagXBar's state on top and TagXBar's port as its destination, "like we did
\* not touch it" (tag_xbar.cc recvTimingReq, recvTimingResp).
TagState(m) == <<"tag", m[2]>>
PacketsComeHome ==
    \A r \in Requests :
        LET q == req[r]
        IN  /\ q.place = "done" => q.src = q.master[2] /\ q.states = <<OwnState(q.master)>>
            /\ q.place = "held" /\ ~q.inhibited => q.states = <<OwnState(q.master)>>
            /\ q.place = "refused" => q.src = TagId /\ q.states = <<OwnState(q.master), TagState(q.master)>>

\* "Attempt to send the packet (always succeeds for inhibited packets)"
\* (tag_xbar.cc:72): no master is left with an inhibited request to retry.
InhibitedAlwaysSucceed ==
    \A r \in Requests : req[r].place = "held" => ~req[r].inhibited

\* A master with a refused request will be told to retry: it waits for one
\* layer that will be released, whose peer owes a retry or whose retry is under
\* way, or has its turn; no layer is left reserved for a retry nobody sends.
\* TagXBar waits outside exactly while a request of its crossbar does, in one
\* place (TagXBarMasterPort::recvRetry, failedTiming, recvRetry of layers).
Wakes(l) == Occupied(l) \/ (l.state = "RETRY" /\ turn # NoMaster)
WaitsAt(port) == {d \in MasterPorts : \E i \in DOMAIN layers[d].waiting : layers[d].waiting[i] = port}
FailedAt(port) == {d \in MasterPorts : layers[d].peer = port}
WaitsInside(port) == \E i \in DOMAIN inner.waiting : inner.waiting[i] = port
NoLostRetry ==
    died = "no" =>
    /\ \A m \in Masters : Holds(m) # {} =>
         \/ turn = m
         \/ IsCpu(m) /\ (inner.peer = m[2] \/ (WaitsInside(m[2]) /\ Wakes(inner)))
         \/ ~IsCpu(m) /\ WaitsAt(m[2]) \cup FailedAt(m[2]) # {}
    /\ \A s \in SysPorts \cup {TagId} :
         /\ Cardinality(WaitsAt(s)) + Cardinality(FailedAt(s)) <= 1
         /\ \A d \in WaitsAt(s) : Wakes(layers[d])
    /\ inner.peer # NoPort <=> WaitsAt(TagId) \cup FailedAt(TagId) # {}
=============================================================================
