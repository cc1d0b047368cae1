--------------------------- MODULE TagBridge_proofs ---------------------------
(***************************************************************************)
(* Proofs about TagBridge for every number of ports, every positive queue  *)
(* limit and every number of requests.                                     *)
(***************************************************************************)
EXTENDS TagBridge, FiniteSetTheorems, TLAPS

-----------------------------------------------------------------------------
(* The two helpers that build packets.                                       *)

(***************************************************************************)
(* What recvTimingReq queues for a packet is the packet itself, stamped    *)
(* with the bridge's DSid and, when an answer is expected, carrying the    *)
(* source on its sender-state stack.                                       *)
(***************************************************************************)
LEMMA QueuedPacket ==
    ASSUME NEW pkt \in Packet
    PROVE  /\ PushRequestState(Tagged(pkt)) \in Packet
           /\ PushRequestState(Tagged(pkt)).id = pkt.id
           /\ PushRequestState(Tagged(pkt)).from = pkt.from
           /\ PushRequestState(Tagged(pkt)).DSid = BridgeDSid
           /\ ExpectsResponse(PushRequestState(Tagged(pkt)))
                 <=> ExpectsResponse(pkt)
           /\ ExpectsResponse(pkt) =>
                 PushRequestState(Tagged(pkt)).senderState
                    = <<pkt.src>> \o pkt.senderState
<1> DEFINE t == Tagged(pkt)
<1>1. /\ t \in Packet /\ t.id = pkt.id /\ t.from = pkt.from /\ t.src = pkt.src
      /\ t.DSid = BridgeDSid /\ t.senderState = pkt.senderState
      /\ t.needsResponse = pkt.needsResponse /\ t.memInhibit = pkt.memInhibit
  BY DEF Tagged, Packet
<1>2. ExpectsResponse(t) <=> ExpectsResponse(pkt)
  BY <1>1 DEF ExpectsResponse
<1> HIDE DEF t
<1>3. CASE ExpectsResponse(t)
  <2>1. <<t.src>> \o t.senderState \in Seq(Port)
    BY <1>1 DEF Packet
  <2>2. PushRequestState(t) = [t EXCEPT !.senderState = <<t.src>> \o @]
    BY <1>3 DEF PushRequestState
  <2> QED
    BY <1>1, <1>2, <1>3, <2>1, <2>2 DEF ExpectsResponse, Packet, t
<1>4. CASE ~ExpectsResponse(t)
  BY <1>1, <1>2, <1>4 DEF PushRequestState, t
<1> QED
  BY <1>3, <1>4

(***************************************************************************)
(* The packet a refusal leaves with the peer is still the same packet.     *)
(***************************************************************************)
LEMMA TaggedPacket ==
    ASSUME NEW pkt \in Packet
    PROVE  /\ Tagged(pkt) \in Packet
           /\ Tagged(pkt).id = pkt.id /\ Tagged(pkt).from = pkt.from
           /\ Tagged(pkt).src = pkt.src
           /\ Tagged(pkt).senderState = pkt.senderState
    BY DEF Tagged, Packet

-----------------------------------------------------------------------------
(* The inductive invariant: the checked properties, and where the packets    *)
(* in flight stand.                                                          *)

\* The packet the peer keeps is as it was issued, but for the stamp.
HeldOK ==
    peer # "ready" => /\ held \in Packet
                      /\ held.src = held.from
                      /\ held.senderState = << >>

\* A queued request is stamped and remembers its source.
ReqOK ==
    \A i \in DOMAIN reqList :
        /\ reqList[i].DSid = BridgeDSid
        /\ ExpectsResponse(reqList[i]) =>
               reqList[i].senderState = <<reqList[i].from>>

\* So does a request being served, which was forwarded earlier.
BelowOK ==
    \A p \in below :
        /\ p.id \in 1 .. forwarded
        /\ p.DSid = BridgeDSid
        /\ p.senderState = <<p.from>>

\* A forwarded request has at most one trace: being served, or one answer.
AnsweredOnce ==
    /\ \A p, q \in below : p.id = q.id => p = q
    /\ \A i \in DOMAIN respList :
          /\ respList[i].id \in 1 .. forwarded
          /\ \A p \in below : p.id # respList[i].id
    /\ \A i, j \in DOMAIN respList : respList[i].id = respList[j].id => i = j

InFlight == HeldOK /\ ReqOK /\ BelowOK /\ AnsweredOnce /\ ResponsesRouted

FlowControl == QueuesDriven /\ RetryOwed /\ Len(reqList) <= ReqQueueLimit

IInv == TypeOK /\ FlowControl /\ RequestsInOrder /\ InFlight /\ SlotsConserved

(***************************************************************************)
(* The invariant holds when the bridge is created: all lists are empty and *)
(* no slot is reserved.                                                    *)
(***************************************************************************)
LEMMA InitIInv == Init => IInv
<1> SUFFICES ASSUME Init PROVE IInv
  OBVIOUS
<1> USE DEF Init
<1>1. TypeOK
  <2>1. << >> \in Seq(Packet) /\ << >> \in Seq(Response)
    OBVIOUS
  <2> QED
    BY <2>1, Zenon DEF TypeOK
<1>2. FlowControl
  BY LimitAssumption DEF FlowControl, QueuesDriven, RetryOwed
<1>3. RequestsInOrder
  BY DEF RequestsInOrder
<1>4. InFlight
  BY DEF InFlight, HeldOK, ReqOK, BelowOK, AnsweredOnce, ResponsesRouted
<1>5. SlotsConserved
  <2>1. SlotHolders = {}
    BY DEF SlotHolders
  <2> QED
    BY <2>1, FS_EmptySet, LimitAssumption DEF SlotsConserved
<1> QED
  BY <1>1, <1>2, <1>3, <1>4, <1>5 DEF IInv

-----------------------------------------------------------------------------
(* Response slots.                                                           *)

\* n is the id of a request in flight that expects an answer.
HoldsSlot(n) ==
    \/ \E i \in DOMAIN reqList :
          reqList[i].id = n /\ ExpectsResponse(reqList[i])
    \/ \E p \in below : p.id = n
    \/ \E i \in DOMAIN respList : respList[i].id = n

(***************************************************************************)
(* A request in flight has been issued, so the bound 1 .. issued in        *)
(* SlotHolders leaves none out.                                            *)
(***************************************************************************)
LEMMA HoldersIssued ==
    TypeOK /\ RequestsInOrder /\ InFlight
       => \A n : n \in SlotHolders <=> HoldsSlot(n)
<1> SUFFICES ASSUME TypeOK, RequestsInOrder, InFlight, NEW n, HoldsSlot(n)
             PROVE  n \in 1 .. issued
  BY DEF SlotHolders, HoldsSlot
<1>1. /\ issued \in Nat /\ forwarded \in Nat /\ Len(reqList) \in Nat
      /\ issued >= forwarded + Len(reqList)
  BY DEF TypeOK, RequestsInOrder
<1>2. ASSUME NEW i \in DOMAIN reqList PROVE reqList[i].id \in 1 .. issued
  BY <1>1, <1>2 DEF TypeOK, RequestsInOrder
<1>3. ASSUME NEW p \in below PROVE p.id \in 1 .. issued
  BY <1>1, <1>3 DEF InFlight, BelowOK
<1>4. ASSUME NEW i \in DOMAIN respList PROVE respList[i].id \in 1 .. issued
  BY <1>1, <1>4 DEF InFlight, AnsweredOnce
<1> QED
  BY <1>2, <1>3, <1>4 DEF HoldsSlot

(***************************************************************************)
(* The same in the next state.                                             *)
(***************************************************************************)
LEMMA HoldersIssuedNext ==
    TypeOK' /\ RequestsInOrder' /\ InFlight'
       => \A n : n \in SlotHolders' <=> HoldsSlot(n)'
<1>1. (TypeOK /\ RequestsInOrder /\ InFlight
          => \A n : n \in SlotHolders <=> HoldsSlot(n))'
  BY HoldersIssued, PTL
<1> QED
  BY <1>1

(***************************************************************************)
(* The holders form a finite set.                                          *)
(***************************************************************************)
LEMMA HoldersFinite ==
    ASSUME TypeOK
    PROVE  IsFiniteSet(SlotHolders) /\ Cardinality(SlotHolders) \in Nat
<1>1. IsFiniteSet(1 .. issued)
  BY FS_Interval DEF TypeOK
<1>2. SlotHolders \in SUBSET (1 .. issued)
  BY DEF SlotHolders
<1> QED
  BY <1>1, <1>2, FS_Subset, FS_CardinalityType

-----------------------------------------------------------------------------
(* Each step preserves the invariant.                                        *)

\* What the peer offers: the next id, as issued but perhaps stamped.
Offered(pkt) ==
    /\ pkt \in Packet
    /\ pkt.src = pkt.from /\ pkt.senderState = << >>
    /\ pkt.id = issued' /\ issued' \in Nat
    /\ issued' = forwarded + Len(reqList) + 1
    /\ UNCHANGED <<respBlocked, memVars>>

(***************************************************************************)
(* A refusal, whichever queue is full, changes only who waits for whom.    *)
(***************************************************************************)
LEMMA RefuseStep ==
    ASSUME IInv, NEW pkt, Offered(pkt),
           RefuseReqFull(pkt) \/ RefuseRespFull(pkt)
    PROVE  IInv'
<1> USE DEF IInv, Offered, memVars
<1>1. /\ retryReq' = TRUE /\ peer' = "stalled"
      /\ held' = pkt \/ held' = Tagged(pkt)
      /\ ReqQueueFull \/ RespQueueFull
      /\ UNCHANGED <<reqList, reqEvent, respList, respEvent, outstandingResponses>>
  BY Zenon DEF RefuseReqFull, RefuseRespFull
<1>2. /\ held' \in Packet /\ held'.id = pkt.id /\ held'.src = held'.from
      /\ held'.senderState = << >>
  BY <1>1, TaggedPacket
<1>3. TypeOK'
  BY <1>1, <1>2 DEF TypeOK
<1>4. FlowControl'
  BY <1>1 DEF FlowControl, QueuesDriven, RetryOwed, ReqQueueFull, RespQueueFull
<1>5. RequestsInOrder'
  BY <1>1, <1>2, NoPacketAssumption DEF RequestsInOrder, TypeOK
<1>6. InFlight'
  BY <1>1, <1>2 DEF InFlight, HeldOK, ReqOK, BelowOK, AnsweredOnce,
                    ResponsesRouted, ExpectsResponse
<1>7. SlotsConserved'
  <2>1. \A n : HoldsSlot(n)' <=> HoldsSlot(n)
    BY <1>1 DEF HoldsSlot, ExpectsResponse
  <2>2. SlotHolders' = SlotHolders
    BY <2>1, <1>3, <1>5, <1>6, HoldersIssued, HoldersIssuedNext
  <2> QED
    BY <1>1, <2>2 DEF SlotsConserved
<1> QED
  BY <1>3, <1>4, <1>5, <1>6, <1>7

(***************************************************************************)
(* Accepting a request queues it behind the others and reserves a slot for *)
(* it exactly when it expects an answer.                                   *)
(***************************************************************************)
LEMMA AcceptStep ==
    ASSUME IInv, NEW pkt, Offered(pkt), peer # "stalled", Accept(pkt)
    PROVE  IInv'
<1> DEFINE q == PushRequestState(Tagged(pkt))
<1>i. TypeOK /\ FlowControl /\ RequestsInOrder /\ InFlight /\ SlotsConserved
  BY DEF IInv
<1>o. /\ pkt \in Packet /\ pkt.src = pkt.from /\ pkt.senderState = << >>
      /\ pkt.id = issued' /\ issued' \in Nat
      /\ issued' = forwarded + Len(reqList) + 1
  BY DEF Offered
<1>0. /\ respBlocked' = respBlocked /\ reqBlocked' = reqBlocked
      /\ below' = below /\ forwarded' = forwarded
  BY DEF Offered, memVars
<1>b. reqEvent' = IF reqList = << >> THEN TRUE ELSE reqEvent
  BY Zenon DEF Accept, SchedTimingReq
<1>a. /\ respList' = respList /\ respEvent' = respEvent /\ retryReq' = retryReq
  BY DEF Accept
<1>1. /\ reqList' = Append(reqList, q)
      /\ peer' = "ready" /\ held' = NoPacket
      /\ outstandingResponses' = ReserveSlot(pkt)
      /\ ~ReqQueueFull /\ ~(ExpectsResponse(pkt) /\ RespQueueFull)
  BY Zenon DEF Accept, SchedTimingReq, q
<1>2. /\ q \in Packet /\ q.id = pkt.id /\ q.DSid = BridgeDSid
      /\ ExpectsResponse(q) <=> ExpectsResponse(pkt)
      /\ ExpectsResponse(q) => q.senderState = <<q.from>>
  <2>1. <<pkt.src>> \o pkt.senderState = <<pkt.from>>
    BY <1>o DEF Packet
  <2> QED
    BY <1>o, <2>1, QueuedPacket
<1> HIDE DEF q
<1>3. /\ reqList \in Seq(Packet) /\ reqList' \in Seq(Packet)
      /\ Len(reqList') = Len(reqList) + 1 /\ Len(reqList) \in Nat
      /\ \A i \in DOMAIN reqList : reqList'[i] = reqList[i]
      /\ reqList'[Len(reqList) + 1] = q
      /\ DOMAIN reqList' = DOMAIN reqList \cup {Len(reqList) + 1}
      /\ DOMAIN reqList = 1 .. Len(reqList)
  BY <1>i, <1>1, <1>2 DEF TypeOK
<1>4. TypeOK'
  <2>1. reqEvent' \in BOOLEAN
    BY <1>i, <1>b, Zenon DEF TypeOK
  <2>2. outstandingResponses' \in Nat
    BY <1>i, <1>1 DEF TypeOK, ReserveSlot
  <2> QED
    BY <1>i, <1>o, <1>0, <1>a, <1>1, <1>3, <2>1, <2>2 DEF TypeOK
<1>5. FlowControl'
  <2>1. ~retryReq
    BY <1>i, Zenon DEF FlowControl, RetryOwed
  <2>2. RetryOwed'
    BY <1>1, <1>a, <2>1 DEF RetryOwed
  <2>3. reqList' # << >>
    BY <1>3
  <2>4. QueuesDriven'
    <3>1. CASE reqList = << >>
      <4>1. reqEvent' /\ ~reqBlocked
        BY <1>i, <1>b, <3>1, Zenon DEF QueuesDriven, FlowControl
      <4> QED
        BY <1>i, <1>0, <1>a, <2>3, <4>1 DEF QueuesDriven, FlowControl
    <3>2. CASE reqList # << >>
      <4>1. reqEvent' = reqEvent
        BY <1>b, <3>2
      <4> QED
        BY <1>i, <1>0, <1>a, <2>3, <3>2, <4>1 DEF QueuesDriven, FlowControl
    <3> QED
      BY <3>1, <3>2
  <2>5. Len(reqList') <= ReqQueueLimit
    <3>1. Len(reqList) # ReqQueueLimit /\ Len(reqList) <= ReqQueueLimit
      BY <1>i, <1>1, Zenon DEF FlowControl, ReqQueueFull
    <3>2. Len(reqList') = Len(reqList) + 1 /\ Len(reqList) \in Nat
      BY <1>3
    <3> QED
      BY <3>1, <3>2, LimitAssumption
  <2> QED
    BY <2>2, <2>4, <2>5 DEF FlowControl
<1>6. RequestsInOrder'
  <2>1. ASSUME NEW i \in DOMAIN reqList' PROVE reqList'[i].id = forwarded' + i
    BY <1>i, <1>o, <1>0, <1>2, <1>3 DEF RequestsInOrder, TypeOK
  <2>2. issued' = forwarded' + Len(reqList') + 0
    BY <1>i, <1>o, <1>0, <1>3 DEF TypeOK
  <2> QED
    BY <1>1, <2>1, <2>2 DEF RequestsInOrder
<1>7. InFlight'
  <2>1. ReqOK'
    BY <1>i, <1>2, <1>3 DEF InFlight, ReqOK, ExpectsResponse
  <2> QED
    BY <1>i, <1>0, <1>a, <1>1, <2>1
       DEF InFlight, HeldOK, BelowOK, AnsweredOnce, ResponsesRouted
<1>8. SlotsConserved'
  <2>1. \A n : HoldsSlot(n)' <=> HoldsSlot(n) \/ (n = pkt.id /\ ExpectsResponse(pkt))
    <3> SUFFICES ASSUME NEW n
                 PROVE  (\E i \in DOMAIN reqList' :
                            reqList'[i].id = n /\ ExpectsResponse(reqList'[i]))
                          <=> \/ \E i \in DOMAIN reqList :
                                   reqList[i].id = n /\ ExpectsResponse(reqList[i])
                              \/ n = pkt.id /\ ExpectsResponse(pkt)
      BY <1>0, <1>a DEF HoldsSlot, ExpectsResponse
    <3> QED
      BY <1>2, <1>3
  <2>2. CASE ExpectsResponse(pkt)
    <3>1. SlotHolders' = SlotHolders \cup {pkt.id}
      BY <1>i, <2>1, <2>2, <1>4, <1>6, <1>7, HoldersIssued, HoldersIssuedNext
    <3>2. pkt.id \notin SlotHolders
      <4>1. forwarded \in Nat /\ issued' > forwarded
        BY <1>i, <1>o, <1>3 DEF TypeOK
      <4>2. \A i \in DOMAIN reqList : reqList[i].id # pkt.id
        BY <1>i, <1>o, <1>3, <4>1 DEF RequestsInOrder
      <4>3. \A p \in below : p.id # pkt.id
        BY <1>i, <1>o, <4>1 DEF InFlight, BelowOK
      <4>4. \A i \in DOMAIN respList : respList[i].id # pkt.id
        BY <1>i, <1>o, <4>1 DEF InFlight, AnsweredOnce
      <4>5. ~HoldsSlot(pkt.id)
        BY <4>2, <4>3, <4>4 DEF HoldsSlot
      <4> QED
        BY <1>i, <4>5, HoldersIssued
    <3>3. Cardinality(SlotHolders') = Cardinality(SlotHolders) + 1
      BY <1>i, <3>1, <3>2, HoldersFinite, FS_AddElement
    <3>4. outstandingResponses' = outstandingResponses + 1
      BY <1>1, <2>2 DEF ReserveSlot
    <3> QED
      BY <1>i, <1>1, <2>2, <3>3, <3>4, LimitAssumption
         DEF SlotsConserved, RespQueueFull, TypeOK
  <2>3. CASE ~ExpectsResponse(pkt)
    <3>1. SlotHolders' = SlotHolders
      BY <1>i, <2>1, <2>3, <1>4, <1>6, <1>7, HoldersIssued, HoldersIssuedNext
    <3>2. outstandingResponses' = outstandingResponses
      BY <1>i, <1>1, <2>3 DEF ReserveSlot, TypeOK
    <3> QED
      BY <1>i, <3>1, <3>2 DEF SlotsConserved
  <2> QED
    BY <2>2, <2>3
<1> QED
  BY <1>4, <1>5, <1>6, <1>7, <1>8 DEF IInv

(***************************************************************************)
(* Memory taking the oldest request moves its slot from the queue to the   *)
(* requests being served, and wakes the peer if it was stalled.            *)
(***************************************************************************)
LEMMA MasterTrySendOkStep ==
    ASSUME IInv, MasterTrySendOk
    PROVE  IInv'
<1> DEFINE h == Head(reqList)
<1>i. TypeOK /\ FlowControl /\ RequestsInOrder /\ InFlight /\ SlotsConserved
  BY DEF IInv
<1>e. /\ reqEvent' = (Tail(reqList) # << >>) /\ reqBlocked' = FALSE
      /\ retryReq' = FALSE
  BY Zenon DEF MasterTrySendOk, RetryStalledReq
<1>p. peer' = IF retryReq THEN "retry" ELSE peer
  BY Zenon DEF MasterTrySendOk, RetryStalledReq
<1>a. /\ respList' = respList /\ respEvent' = respEvent /\ held' = held
      /\ respBlocked' = respBlocked
      /\ issued' = issued /\ outstandingResponses' = outstandingResponses
  BY DEF MasterTrySendOk
<1>1. /\ reqList # << >> /\ reqList' = Tail(reqList)
      /\ forwarded' = forwarded + 1
  BY Zenon DEF MasterTrySendOk, MasterTrySendTurn
<1>s. PICK s \in Port :
        below' = IF ExpectsResponse(h) THEN below \cup {[h EXCEPT !.src = s]}
                 ELSE below
  BY Zenon DEF MasterTrySendOk, h
<1> DEFINE p == [h EXCEPT !.src = s]
<1>3. /\ reqList \in Seq(Packet) /\ reqList' \in Seq(Packet)
      /\ Len(reqList') = Len(reqList) - 1 /\ Len(reqList) \in Nat \ {0}
      /\ \A i \in DOMAIN reqList' : reqList'[i] = reqList[i + 1]
      /\ DOMAIN reqList' = 1 .. Len(reqList')
      /\ DOMAIN reqList = 1 .. Len(reqList)
      /\ h = reqList[1] /\ h \in Packet
  BY <1>i, <1>1 DEF TypeOK
<1>f. forwarded \in Nat /\ issued \in Nat /\ issued >= forwarded + Len(reqList)
  BY <1>i, <1>3 DEF TypeOK, RequestsInOrder
<1>h. /\ h.id = forwarded + 1 /\ h.DSid = BridgeDSid
      /\ ExpectsResponse(h) => h.senderState = <<h.from>>
  BY <1>i, <1>3 DEF RequestsInOrder, InFlight, ReqOK
<1>2. /\ p \in Packet /\ p.id = h.id /\ p.from = h.from /\ p.DSid = h.DSid
      /\ p.senderState = h.senderState
  BY <1>3 DEF Packet
<1>b. below' = IF ExpectsResponse(h) THEN below \cup {p} ELSE below
  BY <1>s
<1> HIDE DEF p, h
<1>4. TypeOK'
  <2>1. reqEvent' \in BOOLEAN /\ reqBlocked' \in BOOLEAN /\ retryReq' \in BOOLEAN
    BY <1>e, Zenon DEF TypeOK
  <2>2. peer' \in {"ready", "stalled", "retry"}
    BY <1>i, <1>p, Zenon DEF TypeOK
  <2>3. below' \in SUBSET Packet
    BY <1>i, <1>b, <1>2 DEF TypeOK
  <2>4. forwarded' \in Nat
    BY <1>1, <1>f
  <2> QED
    BY <1>i, <1>a, <1>3, <2>1, <2>2, <2>3, <2>4 DEF TypeOK
<1>5. FlowControl'
  <2>1. RetryOwed'
    <3>1. peer' # "stalled"
      BY <1>i, <1>p, Zenon DEF FlowControl, RetryOwed
    <3> QED
      BY <1>e, <3>1, Zenon DEF RetryOwed
  <2>2. QueuesDriven'
    <3>1. (respList # << >> <=> respEvent \/ respBlocked)'
          /\ ~(respEvent /\ respBlocked)'
      BY <1>i, <1>a DEF FlowControl, QueuesDriven
    <3>2. (reqList # << >> <=> reqEvent \/ reqBlocked)'
          /\ ~(reqEvent /\ reqBlocked)'
      BY <1>e, <1>1, Zenon
    <3> QED
      BY <3>1, <3>2 DEF QueuesDriven
  <2>3. Len(reqList') <= ReqQueueLimit
    BY <1>i, <1>3, LimitAssumption DEF FlowControl
  <2> QED
    BY <2>1, <2>2, <2>3 DEF FlowControl
<1>6. RequestsInOrder'
  <2>1. ASSUME NEW i \in DOMAIN reqList' PROVE reqList'[i].id = forwarded' + i
    <3>1. i + 1 \in DOMAIN reqList /\ i \in Nat
      BY <1>3
    <3> QED
      BY <1>i, <1>1, <1>3, <1>f, <3>1 DEF RequestsInOrder
  <2>2. peer' = "ready" <=> peer = "ready"
    BY <1>i, <1>p, Zenon DEF FlowControl, RetryOwed
  <2>3. issued' = forwarded' + Len(reqList') + IF peer' = "ready" THEN 0 ELSE 1
    BY <1>i, <1>a, <1>1, <1>3, <1>f, <2>2 DEF RequestsInOrder
  <2> QED
    BY <1>i, <1>a, <2>1, <2>2, <2>3 DEF RequestsInOrder
<1>7. InFlight'
  <2>1. HeldOK'
    <3>1. peer' = "ready" <=> peer = "ready"
      BY <1>i, <1>p, Zenon DEF FlowControl, RetryOwed
    <3> QED
      BY <1>i, <1>a, <3>1 DEF InFlight, HeldOK
  <2>2. ReqOK'
    <3> SUFFICES ASSUME NEW i \in DOMAIN reqList'
                 PROVE  /\ reqList'[i].DSid = BridgeDSid
                        /\ ExpectsResponse(reqList'[i]) =>
                             reqList'[i].senderState = <<reqList'[i].from>>
      BY DEF ReqOK, ExpectsResponse
    <3>1. i + 1 \in DOMAIN reqList
      BY <1>3
    <3> QED
      BY <1>i, <1>3, <3>1 DEF InFlight, ReqOK
  <2>3. BelowOK'
    <3> SUFFICES ASSUME NEW x \in below'
                 PROVE  /\ x.id \in 1 .. forwarded'
                        /\ x.DSid = BridgeDSid /\ x.senderState = <<x.from>>
      BY DEF BelowOK
    <3>1. x \in below \/ (x = p /\ ExpectsResponse(h))
      BY <1>b
    <3> QED
      BY <1>i, <1>1, <1>f, <1>h, <1>2, <3>1 DEF InFlight, BelowOK
  <2>4. AnsweredOnce'
    <3>1. \A x \in below : x.id \in 1 .. forwarded
      BY <1>i DEF InFlight, BelowOK
    <3>2. \A x, y \in below' : x.id = y.id => x = y
      BY <1>i, <1>b, <1>f, <1>h, <1>2, <3>1 DEF InFlight, AnsweredOnce
    <3>3. \A i \in DOMAIN respList : /\ respList[i].id \in 1 .. forwarded'
                                     /\ \A x \in below' : x.id # respList[i].id
      BY <1>i, <1>b, <1>1, <1>f, <1>h, <1>2 DEF InFlight, AnsweredOnce
    <3> QED
      BY <1>i, <1>a, <3>2, <3>3 DEF InFlight, AnsweredOnce
  <2>5. ResponsesRouted'
    BY <1>i, <1>a DEF InFlight, ResponsesRouted
  <2> QED
    BY <2>1, <2>2, <2>3, <2>4, <2>5 DEF InFlight
<1>8. SlotsConserved'
  <2>1. \A n : HoldsSlot(n)' <=> HoldsSlot(n)
    <3> SUFFICES ASSUME NEW n
                 PROVE  (\/ \E i \in DOMAIN reqList' :
                              reqList'[i].id = n /\ ExpectsResponse(reqList'[i])
                         \/ \E x \in below' : x.id = n)
                        <=> (\/ \E i \in DOMAIN reqList :
                                  reqList[i].id = n /\ ExpectsResponse(reqList[i])
                             \/ \E x \in below : x.id = n)
      BY <1>a DEF HoldsSlot, ExpectsResponse
    <3>1. (\E i \in DOMAIN reqList :
             reqList[i].id = n /\ ExpectsResponse(reqList[i]))
          <=> \/ h.id = n /\ ExpectsResponse(h)
              \/ \E i \in DOMAIN reqList' :
                    reqList'[i].id = n /\ ExpectsResponse(reqList'[i])
      <4>1. \A i \in DOMAIN reqList : i = 1 \/ (i - 1 \in DOMAIN reqList' /\ (i - 1) + 1 = i)
        BY <1>3
      <4>2. \A i \in DOMAIN reqList' : i + 1 \in DOMAIN reqList
        BY <1>3
      <4> QED
        BY <1>3, <4>1, <4>2
    <3>2. (\E x \in below' : x.id = n)
          <=> \/ h.id = n /\ ExpectsResponse(h)
              \/ \E x \in below : x.id = n
      BY <1>b, <1>2
    <3> QED
      BY <3>1, <3>2
  <2>2. SlotHolders' = SlotHolders
    BY <1>i, <2>1, <1>4, <1>6, <1>7, HoldersIssued, HoldersIssuedNext
  <2> QED
    BY <1>i, <1>a, <2>2 DEF SlotsConserved
<1> QED
  BY <1>4, <1>5, <1>6, <1>7, <1>8 DEF IInv

(***************************************************************************)
(* A step that moves no packet and reserves no slot preserves whatever is  *)
(* said of packets in flight: used for the refusals of memory and of the   *)
(* peer, and for stuttering.                                               *)
(***************************************************************************)
LEMMA NoPacketMoves ==
    ASSUME IInv,
           UNCHANGED <<reqList, respList, outstandingResponses, peer, held,
                       issued, below, forwarded>>
    PROVE  RequestsInOrder' /\ InFlight' /\ SlotsConserved'
<1>i. RequestsInOrder /\ InFlight /\ SlotsConserved
  BY DEF IInv
<1>1. RequestsInOrder'
  BY <1>i DEF RequestsInOrder
<1>2. InFlight'
  BY <1>i DEF InFlight, HeldOK, ReqOK, BelowOK, AnsweredOnce, ResponsesRouted,
              ExpectsResponse
<1>3. SlotHolders' = SlotHolders
  BY DEF SlotHolders, ExpectsResponse
<1> QED
  BY <1>i, <1>1, <1>2, <1>3 DEF SlotsConserved

(***************************************************************************)
(* A refusal by memory or by the peer exchanges an event for a retry owed. *)
(***************************************************************************)
LEMMA TrySendFailStep ==
    ASSUME IInv, MasterTrySendFail \/ SlaveTrySendFail
    PROVE  IInv'
<1>i. TypeOK /\ FlowControl
  BY DEF IInv
<1>1. CASE MasterTrySendFail
  <2>1. reqEvent' = FALSE /\ reqBlocked' = TRUE /\ reqList # << >>
    BY <1>1, Zenon DEF MasterTrySendFail, MasterTrySendTurn
  <2>2. UNCHANGED <<reqList, respList, respEvent, outstandingResponses, retryReq,
                    peer, held, issued, respBlocked, below, forwarded>>
    BY <1>1 DEF MasterTrySendFail, peerVars
  <2>3. TypeOK'
    BY <1>i, <2>1, <2>2 DEF TypeOK
  <2>4. FlowControl'
    BY <1>i, <2>1, <2>2
       DEF FlowControl, QueuesDriven, RetryOwed, ReqQueueFull, RespQueueFull
  <2> QED
    BY <2>2, <2>3, <2>4, NoPacketMoves DEF IInv
<1>2. CASE SlaveTrySendFail
  <2>1. respEvent' = FALSE /\ respBlocked' = TRUE /\ respList # << >>
    BY <1>2, Zenon DEF SlaveTrySendFail, SlaveTrySendTurn
  <2>2. UNCHANGED <<reqList, reqEvent, respList, outstandingResponses, retryReq,
                    peer, held, issued, below, reqBlocked, forwarded>>
    BY <1>2 DEF SlaveTrySendFail, memVars
  <2>3. TypeOK'
    BY <1>i, <2>1, <2>2 DEF TypeOK
  <2>4. FlowControl'
    BY <1>i, <2>1, <2>2
       DEF FlowControl, QueuesDriven, RetryOwed, ReqQueueFull, RespQueueFull
  <2> QED
    BY <2>2, <2>3, <2>4, NoPacketMoves DEF IInv
<1> QED
  BY <1>1, <1>2

(***************************************************************************)
(* An answer takes over the slot of its request and is addressed to the    *)
(* source remembered on the sender-state stack.                            *)
(***************************************************************************)
LEMMA RecvTimingRespStep ==
    ASSUME IInv, RecvTimingResp
    PROVE  IInv'
<1>i. TypeOK /\ FlowControl /\ RequestsInOrder /\ InFlight /\ SlotsConserved
  BY DEF IInv
<1> DEFINE answer(x) == [id |-> x.id, from |-> x.from, dest |-> x.src,
                         DSid |-> x.DSid, senderState |-> x.senderState]
<1>p. PICK p \in below :
         /\ below' = below \ {p}
         /\ SchedTimingResp(answer(p))
         /\ UNCHANGED <<reqList, reqEvent, outstandingResponses, retryReq,
                        peerVars, reqBlocked, forwarded>>
  BY Zenon DEF RecvTimingResp
<1> DEFINE r == RestoreDest(answer(p))
<1>a. /\ reqList' = reqList /\ reqEvent' = reqEvent /\ retryReq' = retryReq
      /\ reqBlocked' = reqBlocked /\ respBlocked' = respBlocked
      /\ outstandingResponses' = outstandingResponses /\ peer' = peer
      /\ held' = held /\ issued' = issued /\ forwarded' = forwarded
  BY <1>p DEF peerVars
<1>b. respEvent' = IF respList = << >> THEN TRUE ELSE respEvent
  BY <1>p, Zenon DEF SchedTimingResp
<1>1. below' = below \ {p} /\ respList' = Append(respList, r)
  BY <1>p, Zenon DEF SchedTimingResp
<1>2. /\ p \in Packet /\ p.id \in 1 .. forwarded /\ p.DSid = BridgeDSid
      /\ p.senderState = <<p.from>> /\ forwarded \in Nat
  BY <1>i DEF TypeOK, InFlight, BelowOK
<1>r. /\ r \in Response /\ r.id = p.id /\ r.from = p.from /\ r.dest = p.from
      /\ r.DSid = BridgeDSid /\ r.senderState = << >>
  <2>1. Head(<<p.from>>) = p.from /\ Tail(<<p.from>>) = << >> /\ p.from \in Port
    BY <1>2 DEF Packet
  <2>2. << >> \in Seq(Port)
    OBVIOUS
  <2>3. answer(p) \in Response /\ answer(p).senderState = <<p.from>>
    BY <1>2, <2>1 DEF Response, Packet
  <2>4. r = [answer(p) EXCEPT !.dest = p.from, !.senderState = << >>]
    BY <2>1, <2>3 DEF RestoreDest
  <2>5. answer(p).id = p.id /\ answer(p).from = p.from /\ answer(p).DSid = p.DSid
    OBVIOUS
  <2> HIDE DEF answer, r
  <2> QED
    BY <1>2, <2>1, <2>2, <2>3, <2>4, <2>5 DEF Response
<1> HIDE DEF r
<1>3. /\ respList' \in Seq(Response)
      /\ Len(respList) \in Nat /\ DOMAIN respList = 1 .. Len(respList)
      /\ DOMAIN respList' = DOMAIN respList \cup {Len(respList) + 1}
      /\ \A i \in DOMAIN respList : respList'[i] = respList[i]
      /\ respList'[Len(respList) + 1] = r
      /\ respList' # << >>
  BY <1>i, <1>1, <1>r DEF TypeOK
<1>4. TypeOK'
  <2>1. respEvent' \in BOOLEAN
    BY <1>i, <1>b, Zenon DEF TypeOK
  <2> QED
    BY <1>i, <1>a, <1>1, <1>3, <2>1 DEF TypeOK
<1>5. FlowControl'
  <2>1. QueuesDriven'
    <3>1. CASE respList = << >>
      <4>1. respEvent' /\ ~respBlocked
        BY <1>i, <1>b, <3>1, Zenon DEF QueuesDriven, FlowControl
      <4> QED
        BY <1>i, <1>a, <1>3, <4>1 DEF QueuesDriven, FlowControl
    <3>2. CASE respList # << >>
      <4>1. respEvent' = respEvent
        BY <1>b, <3>2
      <4> QED
        BY <1>i, <1>a, <1>3, <3>2, <4>1 DEF QueuesDriven, FlowControl
    <3> QED
      BY <3>1, <3>2
  <2> QED
    BY <1>i, <1>a, <2>1 DEF FlowControl, RetryOwed, ReqQueueFull, RespQueueFull
<1>6. RequestsInOrder'
  BY <1>i, <1>a DEF RequestsInOrder
<1>7. InFlight'
  <2>1. HeldOK' /\ ReqOK'
    BY <1>i, <1>a DEF InFlight, HeldOK, ReqOK, ExpectsResponse
  <2>2. BelowOK'
    BY <1>i, <1>a, <1>1 DEF InFlight, BelowOK
  <2>3. AnsweredOnce'
    <3>1. \A x, y \in below' : x.id = y.id => x = y
      BY <1>i, <1>1 DEF InFlight, AnsweredOnce
    <3>2. \A x \in below' : x.id # p.id
      BY <1>i, <1>1 DEF InFlight, AnsweredOnce
    <3>3. \A i \in DOMAIN respList : respList[i].id # p.id
      BY <1>i DEF InFlight, AnsweredOnce
    <3>4. \A i \in DOMAIN respList' :
             /\ respList'[i].id \in 1 .. forwarded'
             /\ \A x \in below' : x.id # respList'[i].id
      BY <1>i, <1>a, <1>1, <1>2, <1>3, <1>r, <3>2 DEF InFlight, AnsweredOnce
    <3>5. \A i, j \in DOMAIN respList' :
             respList'[i].id = respList'[j].id => i = j
      BY <1>i, <1>3, <1>r, <3>3 DEF InFlight, AnsweredOnce
    <3> QED
      BY <3>1, <3>4, <3>5 DEF AnsweredOnce
  <2>4. ResponsesRouted'
    BY <1>i, <1>3, <1>r DEF InFlight, ResponsesRouted
  <2> QED
    BY <2>1, <2>2, <2>3, <2>4 DEF InFlight
<1>8. SlotsConserved'
  <2>1. \A n : HoldsSlot(n)' <=> HoldsSlot(n)
    <3> SUFFICES ASSUME NEW n
                 PROVE  (\/ \E x \in below' : x.id = n
                         \/ \E i \in DOMAIN respList' : respList'[i].id = n)
                        <=> (\/ \E x \in below : x.id = n
                             \/ \E i \in DOMAIN respList : respList[i].id = n)
      BY <1>a DEF HoldsSlot, ExpectsResponse
    <3> QED
      BY <1>1, <1>3, <1>r
  <2>2. SlotHolders' = SlotHolders
    BY <1>i, <2>1, <1>4, <1>6, <1>7, HoldersIssued, HoldersIssuedNext
  <2> QED
    BY <1>i, <1>a, <2>2 DEF SlotsConserved
<1> QED
  BY <1>4, <1>5, <1>6, <1>7, <1>8 DEF IInv

(***************************************************************************)
(* Delivering a response frees its slot; the decrement never underflows    *)
(* because the response itself was counted.                                *)
(***************************************************************************)
LEMMA SlaveTrySendOkStep ==
    ASSUME IInv, SlaveTrySendOk
    PROVE  IInv'
<1> DEFINE h == Head(respList)
<1>i. TypeOK /\ FlowControl /\ RequestsInOrder /\ InFlight /\ SlotsConserved
  BY DEF IInv
<1>e. respEvent' = (Tail(respList) # << >>) /\ respBlocked' = FALSE
  BY Zenon DEF SlaveTrySendOk
<1>w. \/ ReqQueueFull /\ retryReq' = retryReq /\ peer' = peer
      \/ retryReq' = FALSE /\ peer' = IF retryReq THEN "retry" ELSE peer
  BY Zenon DEF SlaveTrySendOk, RetryAfterResponse, RetryStalledReq
<1>a. /\ reqList' = reqList /\ reqEvent' = reqEvent /\ reqBlocked' = reqBlocked
      /\ held' = held /\ issued' = issued
      /\ below' = below /\ forwarded' = forwarded
  BY DEF SlaveTrySendOk, memVars
<1>1. /\ respList # << >> /\ respList' = Tail(respList)
      /\ outstandingResponses' = outstandingResponses - 1
  BY Zenon DEF SlaveTrySendOk, SlaveTrySendTurn
<1>3. /\ respList' \in Seq(Response)
      /\ Len(respList') = Len(respList) - 1 /\ Len(respList) \in Nat \ {0}
      /\ \A i \in DOMAIN respList' : respList'[i] = respList[i + 1]
      /\ DOMAIN respList' = 1 .. Len(respList')
      /\ DOMAIN respList = 1 .. Len(respList)
      /\ h = respList[1]
  BY <1>i, <1>1 DEF TypeOK
<1>s. \A i \in DOMAIN respList' : i + 1 \in DOMAIN respList /\ i + 1 # 1
  BY <1>3
<1>t. \A i \in DOMAIN respList :
         i = 1 \/ (i - 1 \in DOMAIN respList' /\ (i - 1) + 1 = i)
  BY <1>3
<1> HIDE DEF h
<1>n. /\ Cardinality(SlotHolders) = outstandingResponses
      /\ outstandingResponses \in Nat /\ IsFiniteSet(SlotHolders)
      /\ h.id \in SlotHolders /\ outstandingResponses > 0
  <2>1. HoldsSlot(h.id)
    BY <1>3 DEF HoldsSlot
  <2>2. h.id \in SlotHolders
    BY <1>i, <2>1, HoldersIssued
  <2>3. SlotHolders # {}
    BY <2>2
  <2> QED
    BY <1>i, <2>2, <2>3, HoldersFinite, FS_EmptySet DEF SlotsConserved, TypeOK
<1>r. peer' = "ready" <=> peer = "ready"
  BY <1>i, <1>w, Zenon DEF FlowControl, RetryOwed
<1>4. TypeOK'
  <2>1. respEvent' \in BOOLEAN /\ respBlocked' \in BOOLEAN /\ retryReq' \in BOOLEAN
    BY <1>i, <1>e, <1>w, Zenon DEF TypeOK
  <2>2. peer' \in {"ready", "stalled", "retry"}
    BY <1>i, <1>w, Zenon DEF TypeOK
  <2>3. outstandingResponses' \in Nat
    BY <1>1, <1>n
  <2> QED
    BY <1>i, <1>a, <1>3, <2>1, <2>2, <2>3 DEF TypeOK
<1>5. FlowControl'
  <2>1. RetryOwed'
    <3>1. CASE ReqQueueFull /\ retryReq' = retryReq /\ peer' = peer
      <4>1. ReqQueueFull'
        BY <1>a, <3>1 DEF ReqQueueFull
      <4> QED
        BY <1>i, <3>1, <4>1 DEF FlowControl, RetryOwed
    <3>2. CASE retryReq' = FALSE /\ peer' = IF retryReq THEN "retry" ELSE peer
      <4>1. peer' # "stalled"
        BY <1>i, <3>2, Zenon DEF FlowControl, RetryOwed
      <4> QED
        BY <3>2, <4>1, Zenon DEF RetryOwed
    <3> QED
      BY <1>w, <3>1, <3>2
  <2>2. QueuesDriven'
    <3>1. (reqList # << >> <=> reqEvent \/ reqBlocked)'
          /\ ~(reqEvent /\ reqBlocked)'
      BY <1>i, <1>a DEF FlowControl, QueuesDriven
    <3>2. (respList # << >> <=> respEvent \/ respBlocked)'
          /\ ~(respEvent /\ respBlocked)'
      BY <1>e, <1>1, Zenon
    <3> QED
      BY <3>1, <3>2 DEF QueuesDriven
  <2> QED
    BY <1>i, <1>a, <2>1, <2>2 DEF FlowControl
<1>6. RequestsInOrder'
  BY <1>i, <1>a, <1>r DEF RequestsInOrder
<1>7. InFlight'
  <2>1. HeldOK' /\ ReqOK' /\ BelowOK'
    BY <1>i, <1>a, <1>r DEF InFlight, HeldOK, ReqOK, BelowOK, ExpectsResponse
  <2>2. AnsweredOnce'
    <3>1. \A i \in DOMAIN respList' :
             /\ respList'[i].id \in 1 .. forwarded'
             /\ \A x \in below' : x.id # respList'[i].id
      BY <1>i, <1>a, <1>3, <1>s DEF InFlight, AnsweredOnce
    <3>2. \A i, j \in DOMAIN respList' :
             respList'[i].id = respList'[j].id => i = j
      <4> SUFFICES ASSUME NEW i \in DOMAIN respList', NEW j \in DOMAIN respList',
                          respList'[i].id = respList'[j].id
                   PROVE  i = j
        OBVIOUS
      <4>1. i + 1 = j + 1
        BY <1>i, <1>3, <1>s DEF InFlight, AnsweredOnce
      <4> QED
        BY <1>3, <4>1
    <3> QED
      BY <1>i, <1>a, <3>1, <3>2 DEF InFlight, AnsweredOnce
  <2>3. ResponsesRouted'
    BY <1>i, <1>3, <1>s DEF InFlight, ResponsesRouted
  <2> QED
    BY <2>1, <2>2, <2>3 DEF InFlight
<1>8. SlotsConserved'
  <2>1. \A n : HoldsSlot(n)' <=> HoldsSlot(n) /\ n # h.id
    <3>1. forwarded \in Nat
      BY <1>i DEF TypeOK
    <3>2. h.id \in 1 .. forwarded
      BY <1>i, <1>3 DEF InFlight, AnsweredOnce
    <3>3. \A x \in below : x.id # h.id
      BY <1>i, <1>3 DEF InFlight, AnsweredOnce
    <3>4. \A i \in DOMAIN reqList : reqList[i].id # h.id
      <4>1. ASSUME NEW i \in DOMAIN reqList PROVE reqList[i].id > forwarded
        <5>1. i \in Nat \ {0}
          BY <1>i DEF TypeOK
        <5> QED
          BY <1>i, <3>1, <5>1 DEF RequestsInOrder
      <4> QED
        BY <3>1, <3>2, <4>1
    <3>5. \A i \in DOMAIN respList : i # 1 => respList[i].id # h.id
      BY <1>i, <1>3 DEF InFlight, AnsweredOnce
    <3>6. \A n : (\E i \in DOMAIN respList' : respList'[i].id = n)
                 <=> (\E i \in DOMAIN respList : respList[i].id = n) /\ n # h.id
      <4> SUFFICES ASSUME NEW n
                   PROVE (\E i \in DOMAIN respList' : respList'[i].id = n)
                         <=> (\E i \in DOMAIN respList : respList[i].id = n) /\ n # h.id
        OBVIOUS
      <4>1. ASSUME NEW i \in DOMAIN respList', respList'[i].id = n
            PROVE  (\E k \in DOMAIN respList : respList[k].id = n) /\ n # h.id
        BY <1>3, <1>s, <3>5, <4>1
      <4>2. ASSUME NEW i \in DOMAIN respList, respList[i].id = n, n # h.id
            PROVE  \E k \in DOMAIN respList' : respList'[k].id = n
        BY <1>3, <1>t, <4>2
      <4> QED
        BY <4>1, <4>2
    <3> QED
      BY <1>a, <3>3, <3>4, <3>6 DEF HoldsSlot, ExpectsResponse
  <2>2. SlotHolders' = SlotHolders \ {h.id}
    BY <1>i, <2>1, <1>4, <1>6, <1>7, HoldersIssued, HoldersIssuedNext
  <2>3. Cardinality(SlotHolders') = Cardinality(SlotHolders) - 1
    BY <1>n, <2>2, FS_RemoveElement
  <2> QED
    BY <1>i, <1>1, <1>n, <2>3, LimitAssumption DEF SlotsConserved
<1> QED
  BY <1>4, <1>5, <1>6, <1>7, <1>8 DEF IInv

-----------------------------------------------------------------------------
(* The theorems.                                                             *)

(***************************************************************************)
(* Every step of the bridge and of its peers preserves the invariant.      *)
(***************************************************************************)
LEMMA StepIInv == IInv /\ [Next]_vars => IInv'
<1> SUFFICES ASSUME IInv, [Next]_vars PROVE IInv'
  OBVIOUS
<1>t. TypeOK /\ FlowControl /\ RequestsInOrder /\ InFlight
  BY DEF IInv
<1>1. CASE PeerIssue
  <2>1. PICK from \in Port, nr \in BOOLEAN, mi \in BOOLEAN :
           RecvTimingReq([id |-> issued + 1, from |-> from, src |-> from,
                          needsResponse |-> nr, memInhibit |-> mi,
                          DSid |-> NoDSid, senderState |-> << >>])
    BY <1>1, Zenon DEF PeerIssue
  <2> DEFINE pkt == [id |-> issued + 1, from |-> from, src |-> from,
                     needsResponse |-> nr, memInhibit |-> mi,
                     DSid |-> NoDSid, senderState |-> << >>]
  <2>2. issued \in Nat /\ issued' = issued + 1 /\ peer = "ready"
    BY <1>t, <1>1 DEF PeerIssue, TypeOK
  <2>3. pkt \in Packet
    <3>1. << >> \in Seq(Port)
      OBVIOUS
    <3> QED
      BY <2>2, <3>1 DEF Packet
  <2>4. issued' = forwarded + Len(reqList) + 1
    BY <1>t, <2>2 DEF RequestsInOrder, TypeOK
  <2>5. Offered(pkt)
    BY <1>1, <2>2, <2>3, <2>4 DEF PeerIssue, Offered
  <2> HIDE DEF pkt
  <2> QED
    BY <2>1, <2>2, <2>5, RefuseStep, AcceptStep DEF RecvTimingReq, pkt
<1>2. CASE PeerResend
  <2>1. peer = "retry" /\ RecvTimingReq(held)
    BY <1>2, Zenon DEF PeerResend
  <2>2. issued' = issued /\ issued \in Nat
    BY <1>t, <1>2 DEF PeerResend, TypeOK
  <2>3. issued = forwarded + Len(reqList) + 1 /\ held.id = issued
    BY <1>t, <2>1 DEF RequestsInOrder
  <2>4. Offered(held)
    BY <1>t, <1>2, <2>1, <2>2, <2>3 DEF PeerResend, Offered, InFlight, HeldOK
  <2> QED
    BY <2>1, <2>4, RefuseStep, AcceptStep DEF RecvTimingReq
<1>3. CASE MasterTrySendOk
  BY <1>3, MasterTrySendOkStep
<1>4. CASE MasterTrySendFail \/ SlaveTrySendFail
  BY <1>4, TrySendFailStep
<1>5. CASE RecvTimingResp
  BY <1>5, RecvTimingRespStep
<1>6. CASE SlaveTrySendOk
  BY <1>6, SlaveTrySendOkStep
<1>7. CASE Served \/ UNCHANGED vars
  <2>1. /\ UNCHANGED <<reqList, reqEvent, respList, respEvent>>
        /\ UNCHANGED <<outstandingResponses, retryReq, peer, held, issued>>
        /\ UNCHANGED <<respBlocked, below, reqBlocked, forwarded>>
    BY <1>7 DEF Served, vars, bridgeVars, peerVars, memVars
  <2>2. TypeOK' /\ FlowControl'
    BY <1>t, <2>1 DEF TypeOK, FlowControl, QueuesDriven, RetryOwed,
                      ReqQueueFull, RespQueueFull
  <2> QED
    BY <2>1, <2>2, NoPacketMoves DEF IInv
<1> QED
  BY <1>1, <1>2, <1>3, <1>4, <1>5, <1>6, <1>7, Zenon DEF Next

(***************************************************************************)
(* The inductive invariant holds in every reachable state.                 *)
(***************************************************************************)
THEOREM Invariance == Spec => []IInv
  BY InitIInv, StepIInv, PTL DEF Spec

(***************************************************************************)
(* Type correctness of the bridge and its peers; in particular the         *)
(* decrement of outstandingResponses never goes below zero (the assertion  *)
(* in the slave port's trySendTiming).                                     *)
(***************************************************************************)
THEOREM TypeCorrect == Spec => []TypeOK
<1>1. IInv => TypeOK
  BY DEF IInv
<1> QED
  BY <1>1, Invariance, PTL

(***************************************************************************)
(* outstandingResponses counts exactly the answers still to be delivered   *)
(* and stays within the response queue limit.                              *)
(***************************************************************************)
THEOREM SlotConservation == Spec => []SlotsConserved
<1>1. IInv => SlotsConserved
  BY DEF IInv
<1> QED
  BY <1>1, Invariance, PTL

(***************************************************************************)
(* Neither queue outgrows its limit: every queued response holds a slot of *)
(* its own, so there are at most as many responses as slots.               *)
(***************************************************************************)
THEOREM BoundedQueues == Spec => []QueuesBounded
<1>1. IInv => QueuesBounded
  <2> SUFFICES ASSUME IInv PROVE QueuesBounded
    OBVIOUS
  <2>1. /\ TypeOK /\ Len(reqList) <= ReqQueueLimit /\ RequestsInOrder
        /\ InFlight /\ SlotsConserved
    BY DEF IInv, FlowControl
  <2> DEFINE f == [i \in 1 .. Len(respList) |-> respList[i].id]
  <2>2. DOMAIN respList = 1 .. Len(respList) /\ Len(respList) \in Nat
    BY <2>1 DEF TypeOK
  <2>3. \A i \in 1 .. Len(respList) : respList[i].id \in SlotHolders
    BY <2>1, <2>2, HoldersIssued DEF HoldsSlot
  <2>4. f \in Injection(1 .. Len(respList), SlotHolders)
    BY <2>1, <2>2, <2>3
       DEF Injection, IsInjective, InFlight, AnsweredOnce
  <2>5. Cardinality(1 .. Len(respList)) <= Cardinality(SlotHolders)
    BY <2>1, <2>4, HoldersFinite, FS_Injection
  <2>6. Cardinality(1 .. Len(respList)) = Len(respList)
    <3> DEFINE n == Len(respList)
    <3>1. 1 \in Int /\ n \in Int /\ n \in Nat
      BY <2>2
    <3> HIDE DEF n
    <3>2. Cardinality(1 .. n) = IF 1 > n THEN 0 ELSE n - 1 + 1
      BY <3>1, FS_Interval, Zenon
    <3>3. Cardinality(1 .. n) = n
      BY <3>1, <3>2
    <3> QED
      BY <3>3 DEF n
  <2>7. Cardinality(SlotHolders) \in Nat
    BY <2>1, HoldersFinite
  <2> QED
    BY <2>1, <2>2, <2>5, <2>6, <2>7, LimitAssumption
       DEF QueuesBounded, SlotsConserved
<1> QED
  BY <1>1, Invariance, PTL

(***************************************************************************)
(* No request is lost, duplicated or overtaken on its way through.         *)
(***************************************************************************)
THEOREM InOrder == Spec => []RequestsInOrder
<1>1. IInv => RequestsInOrder
  BY DEF IInv
<1> QED
  BY <1>1, Invariance, PTL

(***************************************************************************)
(* Every response goes back to the port that issued its request, with the  *)
(* bridge's DSid.                                                          *)
(***************************************************************************)
THEOREM Routing == Spec => []ResponsesRouted
<1>1. IInv => ResponsesRouted
  BY DEF IInv, InFlight
<1> QED
  BY <1>1, Invariance, PTL

(***************************************************************************)
(* No queue is left without an event or a retry to drive it, and no retry  *)
(* the bridge owes is forgotten.                                           *)
(***************************************************************************)
THEOREM NoLostWakeup == Spec => [](QueuesDriven /\ RetryOwed)
<1>1. IInv => QueuesDriven /\ RetryOwed
  BY DEF IInv, FlowControl
<1> QED
  BY <1>1, Invariance, PTL

(***************************************************************************)
(* A retry sent when a response leaves cannot be refused again: the claim  *)
(* of the comment in the slave port's trySendTiming.                       *)
(***************************************************************************)
THEOREM RetryAccepted == Spec => RetryAfterResponseSucceeds
<1> DEFINE A == SlaveTrySendOk /\ peer = "stalled" /\ peer' = "retry"
                   => ~ReqQueueFull' /\ ~RespQueueFull'
<1>1. IInv => A
  <2> SUFFICES ASSUME IInv, SlaveTrySendOk, peer = "stalled", peer' = "retry"
               PROVE  ~ReqQueueFull' /\ ~RespQueueFull'
    OBVIOUS
  <2>1. ~ReqQueueFull
    <3>1. ReqQueueFull => peer' = peer
      BY Zenon DEF SlaveTrySendOk, RetryAfterResponse
    <3> QED
      BY <3>1
  <2>2. reqList' = reqList
    BY DEF SlaveTrySendOk
  <2>3. ~ReqQueueFull'
    BY <2>1, <2>2 DEF ReqQueueFull
  <2>4. outstandingResponses \in Nat /\ outstandingResponses <= RespQueueLimit
    BY DEF IInv, TypeOK, SlotsConserved
  <2>5. outstandingResponses' = outstandingResponses - 1
    BY DEF SlaveTrySendOk
  <2> QED
    BY <2>3, <2>4, <2>5, LimitAssumption DEF RespQueueFull
<1>2. IInv /\ [Next]_vars => [A]_vars
  BY <1>1
<1> QED
  BY <1>2, Invariance, PTL DEF Spec, RetryAfterResponseSucceeds

=============================================================================
