--------------------------- MODULE MemCtrl_proofs ---------------------------
(***************************************************************************)
(* Proofs about PARDMemoryCtrl for any number of ports, requests and       *)
(* refusals and any window size.                                           *)
(***************************************************************************)
EXTENDS MemCtrl, SequenceTheorems, TLAPS

(* A packet that DRAM holds is one it took, with the controller's state on *)
(* top of the requester's and the address that state remaps to.            *)
Open(p) ==
    /\ p \in accesses
    /\ \E a \in Nat :
          /\ p.senderState = <<[origSrc |-> p.src, origAddr |-> a], Own>>
          /\ p.addr = RemapAddr(p.DSid, a)

HeldByPeer ==
    /\ peer # "ready" => held # NoPacket
    /\ held # NoPacket => held.senderState = <<Own>> /\ held.refusals > 0

HeldByMemory ==
    /\ \A p \in below : Open(p)
    /\ respHeld # NoPacket => Open(respHeld)

IInv ==
    /\ TypeOK
    /\ HeldByPeer
    /\ HeldByMemory
    /\ \A r \in delivered : r.senderState = <<Own>>
    /\ ResponsesRestored

-----------------------------------------------------------------------------
(* A stack of two states is taken apart as it was put together.            *)
LEMMA Pair ==
    ASSUME NEW S, NEW x \in S, NEW y \in S
    PROVE  /\ <<x>> \o <<y>> = <<x, y>>
           /\ <<x, y>> \in Seq(S) /\ <<y>> \in Seq(S)
           /\ Head(<<x, y>>) = x /\ Tail(<<x, y>>) = <<y>>
<1>1. <<x, y>> \in Seq(S) /\ <<x>> \in Seq(S) /\ <<y>> \in Seq(S)
  OBVIOUS
<1>2. Head(<<x, y>>) = x
  OBVIOUS
<1>3. Tail(<<x, y>>) = <<y>>
  BY <1>1
<1>4. <<x>> \o <<y>> = <<x, y>>
  <2>1. /\ <<x>> \o <<y>> \in Seq(S) /\ Len(<<x>> \o <<y>>) = 2
        /\ (<<x>> \o <<y>>)[1] = x /\ (<<x>> \o <<y>>)[2] = y
    BY <1>1
  <2>2. \A i \in 1 .. 2 : (<<x>> \o <<y>>)[i] = <<x, y>>[i]
    BY <2>1
  <2>3. Len(<<x, y>>) = 2
    OBVIOUS
  <2> QED BY <1>1, <2>1, <2>2, <2>3, SeqEqual
<1> QED BY <1>1, <1>2, <1>3, <1>4

LEMMA RemapNat ==
    ASSUME NEW d \in DSids, NEW a \in Nat
    PROVE  RemapAddr(d, a) \in Nat
  BY WindowAssumption DEF RemapAddr

(* What the helpers of recvTimingReq do to a packet of the crossbar.       *)
LEMMA Offer ==
    ASSUME NEW pkt \in Packet, pkt.senderState = <<Own>>
    PROVE  LET sent == Remapped(PushState(pkt)) IN
           /\ sent \in Packet
           /\ sent.addr = RemapAddr(pkt.DSid, pkt.addr)
           /\ sent.src = pkt.src /\ sent.DSid = pkt.DSid /\ sent.asked = pkt.asked
           /\ sent.refusals = pkt.refusals
           /\ sent.needsResponse = pkt.needsResponse
           /\ sent.memInhibit = pkt.memInhibit
           /\ pkt.needsResponse /\ ~pkt.memInhibit =>
                 sent.senderState = <<[origSrc |-> pkt.src, origAddr |-> pkt.addr], Own>>
           /\ ~(pkt.needsResponse /\ ~pkt.memInhibit) => sent.senderState = <<Own>>
<1> DEFINE st == [origSrc |-> pkt.src, origAddr |-> pkt.addr]
<1>1. pkt.src \in Port /\ pkt.addr \in Nat /\ pkt.DSid \in DSids
  BY DEF Packet
<1>2. st \in RequestState
  BY <1>1 DEF RequestState
<1>3. RemapAddr(pkt.DSid, pkt.addr) \in Nat
  BY <1>1, RemapNat
<1>4. <<st>> \o <<Own>> = <<st, Own>> /\ <<st, Own>> \in Seq(RequestState \cup {Own})
  <2>1. st \in RequestState \cup {Own} /\ Own \in RequestState \cup {Own}
    BY <1>2
  <2> HIDE DEF st
  <2> QED BY <2>1, Pair
<1>5. CASE pkt.needsResponse /\ ~pkt.memInhibit
  <2>1. PushState(pkt) = [pkt EXCEPT !.senderState = <<st, Own>>]
    BY <1>4, <1>5 DEF PushState
  <2>2. Remapped(PushState(pkt)) =
          [[pkt EXCEPT !.senderState = <<st, Own>>]
             EXCEPT !.addr = RemapAddr(pkt.DSid, pkt.addr)]
    BY <2>1 DEF Remapped, Packet
  <2> HIDE DEF st
  <2> QED BY <1>3, <1>4, <1>5, <2>2 DEF Packet, st
<1>6. CASE ~(pkt.needsResponse /\ ~pkt.memInhibit)
  <2>1. PushState(pkt) = pkt
    BY <1>6 DEF PushState
  <2> QED BY <1>3, <1>6, <2>1 DEF Packet, Remapped
<1> QED BY <1>5, <1>6

LEMMA NewPacketOK ==
    ASSUME TypeOK, NEW from \in Port, NEW a \in Addrs, NEW d \in DSids,
           NEW nr \in BOOLEAN, NEW mi \in BOOLEAN
    PROVE  LET pkt == NewPacket(from, a, d, nr, mi) IN
           /\ pkt \in Packet
           /\ pkt.senderState = <<Own>>
  BY WindowAssumption, Pair DEF TypeOK, NewPacket, Packet

-----------------------------------------------------------------------------
(* A step that only adds taken packets keeps what is held open.            *)
LEMMA OpenMonotone ==
    ASSUME NEW p, Open(p), accesses \subseteq accesses'
    PROVE  Open(p)'
  BY DEF Open, RemapAddr

(* recvTimingReq, whatever the outcome, for a packet that is new or was    *)
(* refused before.                                                         *)
LEMMA RecvTimingReqInv ==
    ASSUME IInv, NEW pkt \in Packet, pkt.senderState = <<Own>>,
           RecvTimingReq(pkt), issued' \in Nat,
           UNCHANGED <<delivered, respHeld>>
    PROVE  IInv'
<1> DEFINE sent == Remapped(PushState(pkt))
<1>1. /\ sent \in Packet
      /\ sent.addr = RemapAddr(pkt.DSid, pkt.addr)
      /\ sent.src = pkt.src /\ sent.DSid = pkt.DSid /\ sent.asked = pkt.asked
      /\ sent.refusals = pkt.refusals
      /\ sent.needsResponse = pkt.needsResponse
      /\ sent.memInhibit = pkt.memInhibit
      /\ pkt.needsResponse /\ ~pkt.memInhibit =>
            sent.senderState = <<[origSrc |-> pkt.src, origAddr |-> pkt.addr], Own>>
      /\ ~(pkt.needsResponse /\ ~pkt.memInhibit) => sent.senderState = <<Own>>
  BY Offer
<1>2. pkt.addr \in Nat /\ pkt.DSid \in DSids /\ pkt.refusals \in Nat
      /\ pkt.src \in Port
  BY DEF Packet
<1>3. CASE Accepted(pkt)
  <2>1. /\ accesses' = accesses \cup {sent}
        /\ below' = IF sent.needsResponse /\ ~sent.memInhibit
                    THEN below \cup {sent} ELSE below
        /\ peer' = "ready" /\ held' = NoPacket
    BY <1>3 DEF Accepted
  <2> HIDE DEF sent
  <2>2. TypeOK'
    BY <1>1, <2>1 DEF IInv, TypeOK
  <2>3. HeldByPeer'
    BY <2>1 DEF HeldByPeer
  <2>4. HeldByMemory'
    <3>1. \A p \in below : Open(p)'
      BY <2>1, OpenMonotone DEF IInv, HeldByMemory
    <3>2. (respHeld # NoPacket => Open(respHeld))'
      BY <2>1 DEF IInv, HeldByMemory, Open, RemapAddr
    <3>3. ASSUME sent.needsResponse /\ ~sent.memInhibit
          PROVE  Open(sent)'
      <4>1. sent.senderState = <<[origSrc |-> sent.src, origAddr |-> pkt.addr], Own>>
        BY <1>1, <3>3
      <4>2. sent.addr = RemapAddr(sent.DSid, pkt.addr)
        BY <1>1
      <4> QED BY <1>2, <2>1, <4>1, <4>2 DEF Open, RemapAddr
    <3> QED BY <2>1, <3>1, <3>2, <3>3 DEF HeldByMemory
  <2>6. ResponsesRestored'
    BY <2>1 DEF IInv, ResponsesRestored, RemapAddr
  <2> QED BY <2>1, <2>2, <2>3, <2>4, <2>6 DEF IInv
<1>4. CASE Refused(pkt)
  <2> DEFINE back == PopRefused(sent)
  <2>1. /\ ~pkt.memInhibit
        /\ peer' = "stalled"
        /\ held' = [back EXCEPT !.refusals = @ + 1]
        /\ UNCHANGED <<accesses, below>>
    BY <1>4 DEF Refused
  <2>2. back \in Packet /\ back.senderState = <<Own>> /\ back.refusals \in Nat
    <3>1. [origSrc |-> pkt.src, origAddr |-> pkt.addr] \in RequestState
      BY <1>2 DEF RequestState
    <3> HIDE DEF sent
    <3>2. CASE pkt.needsResponse
      <4>1. back = [sent EXCEPT !.senderState = Tail(sent.senderState)]
        BY <1>1, <3>2 DEF PopRefused
      <4>2. Tail(sent.senderState) = <<Own>> /\ <<Own>> \in Seq(RequestState \cup {Own})
        <5> DEFINE st == [origSrc |-> pkt.src, origAddr |-> pkt.addr]
        <5>1. st \in RequestState \cup {Own} /\ Own \in RequestState \cup {Own}
          BY <3>1
        <5>2. sent.senderState = <<st, Own>>
          BY <1>1, <2>1, <3>2
        <5> HIDE DEF st
        <5> QED BY <5>1, <5>2, Pair
      <4> HIDE DEF back
      <4> QED BY <1>1, <4>1, <4>2 DEF Packet
    <3>3. CASE ~pkt.needsResponse
      BY <1>1, <3>3 DEF PopRefused, Packet
    <3> QED BY <3>2, <3>3
  <2> HIDE DEF back
  <2>3. held' \in Packet /\ held'.senderState = <<Own>> /\ held'.refusals > 0
    BY <2>1, <2>2 DEF Packet
  <2>4. TypeOK'
    BY <2>1, <2>3 DEF IInv, TypeOK
  <2>5. HeldByPeer'
    BY <2>3, NoPacketAssumption DEF HeldByPeer
  <2>6. HeldByMemory'
    BY <2>1, OpenMonotone DEF IInv, HeldByMemory
  <2>7. ResponsesRestored'
    BY <2>1 DEF IInv, ResponsesRestored, RemapAddr
  <2> QED BY <2>1, <2>4, <2>5, <2>6, <2>7 DEF IInv
<1> QED BY <1>3, <1>4 DEF RecvTimingReq

(* The response path: restoring is the inverse of what was pushed, and     *)
(* undoing it gives the packet back as it was.                             *)
LEMMA RestoreAndUndo ==
    ASSUME TypeOK, NEW pkt \in Packet, Open(pkt)
    PROVE  /\ Restored(pkt) \in Packet
           /\ Restored(pkt).senderState = <<Own>>
           /\ Restored(pkt).id = pkt.id /\ Restored(pkt).src = pkt.src
           /\ Restored(pkt).DSid = pkt.DSid
           /\ pkt.addr = RemapAddr(pkt.DSid, Restored(pkt).addr)
           /\ Undone(Restored(pkt), Head(pkt.senderState), pkt.src, pkt.addr) = pkt
<1>1. PICK a \in Nat : /\ pkt.senderState = <<[origSrc |-> pkt.src, origAddr |-> a], Own>>
                       /\ pkt.addr = RemapAddr(pkt.DSid, a)
  BY DEF Open
<1> DEFINE st == [origSrc |-> pkt.src, origAddr |-> a]
<1>2. st \in RequestState \cup {Own} /\ Own \in RequestState \cup {Own}
  BY DEF RequestState, Packet
<1>3. st.origSrc = pkt.src /\ st.origAddr = a
  OBVIOUS
<1>4. pkt.senderState = <<st, Own>>
  BY <1>1
<1> HIDE DEF st
<1>5. /\ Head(pkt.senderState) = st /\ Tail(pkt.senderState) = <<Own>>
      /\ <<st>> \o <<Own>> = pkt.senderState
      /\ <<Own>> \in Seq(RequestState \cup {Own})
  <2>1. /\ Head(<<st, Own>>) = st /\ Tail(<<st, Own>>) = <<Own>>
        /\ <<st>> \o <<Own>> = <<st, Own>>
        /\ <<Own>> \in Seq(RequestState \cup {Own})
    BY <1>2, Pair
  <2> QED BY <1>4, <2>1, Zenon
<1>6. Restored(pkt) = [pkt EXCEPT !.senderState = <<Own>>, !.src = pkt.src, !.addr = a]
  BY <1>3, <1>5 DEF Restored
<1> DEFINE r == Restored(pkt)
<1>7. /\ r \in Packet /\ r.senderState = <<Own>> /\ r.id = pkt.id /\ r.src = pkt.src
      /\ r.DSid = pkt.DSid /\ r.addr = a
  BY <1>5, <1>6 DEF Packet
<1>8. Undone(r, st, pkt.src, pkt.addr) = pkt
  <2>1. Undone(r, st, pkt.src, pkt.addr) =
          [r EXCEPT !.senderState = pkt.senderState, !.src = pkt.src, !.addr = pkt.addr]
    BY <1>5, <1>7 DEF Undone
  <2> QED BY <1>6, <2>1 DEF Packet
<1> QED BY <1>1, <1>5, <1>7, <1>8

LEMMA RecvTimingRespInv ==
    ASSUME IInv, NEW pkt \in Packet, Open(pkt), RecvTimingResp(pkt),
           below' \subseteq below, UNCHANGED <<peer, held, issued, accesses>>
    PROVE  IInv'
<1>1. /\ Restored(pkt) \in Packet
      /\ Restored(pkt).senderState = <<Own>>
      /\ Restored(pkt).id = pkt.id /\ Restored(pkt).src = pkt.src
      /\ Restored(pkt).DSid = pkt.DSid
      /\ pkt.addr = RemapAddr(pkt.DSid, Restored(pkt).addr)
      /\ Undone(Restored(pkt), Head(pkt.senderState), pkt.src, pkt.addr) = pkt
  BY RestoreAndUndo DEF IInv
<1>2. pkt \in accesses
  BY DEF Open
<1>3. /\ respHeld' = NoPacket \/ respHeld' = pkt
      /\ delivered' = delivered \/ delivered' = delivered \cup {Restored(pkt)}
  BY <1>1 DEF RecvTimingResp, RespDelivered, RespRefused
<1>4. TypeOK'
  BY <1>1, <1>3 DEF IInv, TypeOK
<1>5. HeldByPeer'
  BY DEF IInv, HeldByPeer
<1>6. HeldByMemory'
  <2>1. (\A p \in below : Open(p))'
    BY OpenMonotone DEF IInv, HeldByMemory
  <2>2. Open(pkt)'
    BY OpenMonotone
  <2>3. (respHeld # NoPacket => Open(respHeld))'
    BY <1>3, <2>2 DEF Open
  <2> QED BY <2>1, <2>3 DEF HeldByMemory
<1>8. (\A r \in delivered : r.senderState = <<Own>>)'
  BY <1>1, <1>3 DEF IInv
<1>9. ResponsesRestored'
  <2>1. \E q \in accesses : /\ q.id = Restored(pkt).id
                            /\ Restored(pkt).src = q.src
                            /\ q.addr = RemapAddr(Restored(pkt).DSid, Restored(pkt).addr)
    BY <1>1, <1>2
  <2> QED BY <1>3, <2>1 DEF IInv, ResponsesRestored, RemapAddr
<1> QED BY <1>4, <1>5, <1>6, <1>8, <1>9 DEF IInv

-----------------------------------------------------------------------------
LEMMA InitIInv == Init => IInv
  BY DEF Init, IInv, TypeOK, HeldByPeer, HeldByMemory, ResponsesRestored

LEMMA NextIInv == IInv /\ [Next]_vars => IInv'
<1> SUFFICES ASSUME IInv, [Next]_vars PROVE IInv'
  OBVIOUS
<1>1. ASSUME PeerIssue PROVE IInv'
  <2>1. PICK from \in Port, a \in Addrs, d \in DSids,
             nr \in BOOLEAN, mi \in BOOLEAN :
                RecvTimingReq(NewPacket(from, a, d, nr, mi))
    BY <1>1 DEF PeerIssue
  <2> DEFINE pkt == NewPacket(from, a, d, nr, mi)
  <2>2. pkt \in Packet /\ pkt.senderState = <<Own>>
    BY NewPacketOK DEF IInv
  <2>3. issued' \in Nat /\ UNCHANGED <<delivered, respHeld>>
    BY <1>1 DEF PeerIssue, IInv, TypeOK
  <2> HIDE DEF pkt
  <2> QED BY <2>1, <2>2, <2>3, RecvTimingReqInv DEF pkt
<1>2. ASSUME PeerResend PROVE IInv'
  <2>1. held # NoPacket /\ held \in Packet
    BY <1>2 DEF PeerResend, IInv, HeldByPeer, TypeOK
  <2>2. held.senderState = <<Own>> /\ held.refusals > 0 /\ held.refusals \in Nat
    BY <2>1 DEF IInv, HeldByPeer, Packet
  <2>3. PICK pkt : pkt = held
    OBVIOUS
  <2>4. /\ pkt \in Packet /\ pkt.senderState = <<Own>>
        /\ RecvTimingReq(pkt) /\ issued' \in Nat /\ UNCHANGED <<delivered, respHeld>>
    BY <1>2, <2>1, <2>2, <2>3 DEF PeerResend, IInv, TypeOK
  <2> QED BY <2>4, RecvTimingReqInv
<1>3. ASSUME RecvRetryInternal PROVE IInv'
  <2>1. /\ peer = "stalled" /\ peer' = "retry"
        /\ UNCHANGED <<held, issued, delivered, below, respHeld, accesses>>
    BY <1>3 DEF RecvRetryInternal
  <2> QED BY <2>1 DEF IInv, TypeOK, HeldByPeer, HeldByMemory, Open, ResponsesRestored, RemapAddr
<1>4. ASSUME RecvFunctional PROVE IInv'
  <2>1. PICK from \in Port, a \in Addrs, d \in DSids :
           accesses' = accesses \cup {Remapped(NewPacket(from, a, d, TRUE, FALSE))}
    BY <1>4 DEF RecvFunctional
  <2> DEFINE pkt == NewPacket(from, a, d, TRUE, FALSE)
  <2> DEFINE q == Remapped(pkt)
  <2>2. pkt \in Packet /\ pkt.senderState = <<Own>>
    BY NewPacketOK DEF IInv
  <2>3. pkt.addr \in Nat /\ pkt.DSid \in DSids /\ RemapAddr(pkt.DSid, pkt.addr) \in Nat
    BY <2>2, RemapNat DEF Packet
  <2> HIDE DEF pkt
  <2>4. q \in Packet
    BY <2>2, <2>3 DEF Remapped, Packet
  <2>5. /\ issued' \in Nat /\ UNCHANGED <<peer, held, delivered, below, respHeld>>
    BY <1>4 DEF RecvFunctional, IInv, TypeOK
  <2>5a. accesses' = accesses \cup {q}
    BY <2>1 DEF pkt
  <2> HIDE DEF q
  <2>6. TypeOK'
    BY <2>4, <2>5, <2>5a DEF IInv, TypeOK
  <2>7. HeldByPeer' /\ HeldByMemory'
    BY <2>5, <2>5a DEF IInv, HeldByPeer, HeldByMemory, Open, RemapAddr
  <2>9. ResponsesRestored'
    BY <2>5, <2>5a DEF IInv, ResponsesRestored, RemapAddr
  <2> QED BY <2>5, <2>6, <2>7, <2>9 DEF IInv
<1>5. ASSUME MemRespond PROVE IInv'
  <2>1. PICK pkt \in below : below' = below \ {pkt} /\ RecvTimingResp(pkt)
    BY <1>5 DEF MemRespond
  <2>2. pkt \in Packet /\ Open(pkt)
    BY DEF IInv, TypeOK, HeldByMemory
  <2>3. below' \subseteq below /\ UNCHANGED <<peer, held, issued, accesses>>
    BY <1>5, <2>1 DEF MemRespond
  <2> QED BY <2>1, <2>2, <2>3, RecvTimingRespInv
<1>6. ASSUME RecvRetryPort PROVE IInv'
  <2>1. PICK pkt : pkt = respHeld
    OBVIOUS
  <2>2. /\ pkt \in Packet /\ Open(pkt) /\ RecvTimingResp(pkt)
        /\ below' \subseteq below /\ UNCHANGED <<peer, held, issued, accesses>>
    BY <1>6, <2>1 DEF RecvRetryPort, IInv, TypeOK, HeldByMemory
  <2> QED BY <2>2, RecvTimingRespInv
<1>7. ASSUME UNCHANGED vars PROVE IInv'
  BY <1>7 DEF vars, IInv, TypeOK, HeldByPeer, HeldByMemory, Open, ResponsesRestored, RemapAddr
<1> QED BY <1>1, <1>2, <1>3, <1>4, <1>5, <1>6, <1>7 DEF Next, Served

(* The strengthened invariant holds in every reachable state.              *)
THEOREM Invariance == Spec => []IInv
  BY InitIInv, NextIInv, PTL DEF Spec

(* Every packet keeps its type through offers, refusals and responses.     *)
THEOREM TypeCorrect == Spec => []TypeOK
<1>1. IInv => TypeOK
  BY DEF IInv
<1> QED BY <1>1, Invariance, PTL

(* PARDMemoryCtrl leaves a packet's sender-state stack as it found it.     *)
THEOREM StateBalanced == Spec => []SenderStateBalanced
<1>1. IInv => SenderStateBalanced
  BY DEF IInv, HeldByPeer, SenderStateBalanced
<1> QED BY <1>1, Invariance, PTL

(* A response reaches its requester with the address that the request had  *)
(* when DRAM took it.                                                      *)
THEOREM Restoring == Spec => []ResponsesRestored
<1>1. IInv => ResponsesRestored
  BY DEF IInv
<1> QED BY <1>1, Invariance, PTL

(* A response that the crossbar refuses, any number of times, is left as   *)
(* DRAM offered it.                                                        *)
THEOREM Untouched == Spec => []RefusedResponseUntouched
<1>1. IInv => RefusedResponseUntouched
  BY DEF IInv, HeldByMemory, Open, RefusedResponseUntouched
<1> QED BY <1>1, Invariance, PTL
=============================================================================
