---------------------------- MODULE Fabric_proofs ----------------------------
(***************************************************************************)
(* Three facts about the fabric, for any number of ports, masters,         *)
(* requests and addresses: what PARDSystemXBar keeps in outstandingReq,    *)
(* that TagXBar's sender states bring every packet back to its own port,   *)
(* and that no master whose request was refused is ever forgotten.         *)
(***************************************************************************)
EXTENDS Fabric, SequenceTheorems, FiniteSetTheorems, TLAPS

\* Packet q of request r, given outstandingReq and stale: it is outstanding
\* once it was sent, and an inhibited one is remembered as one that stays.
Recorded(r, q, out, behind) ==
    /\ q.place # "free" => q.master \in Masters
    /\ q.place = "sent" => r \in out
    /\ q.place = "sent" /\ q.inhibited => r \in behind
    /\ r \in out => q.place = "sent" \/ r \in behind

\* The sender states of a packet: its own, and below TagXBar TagXBar's too.
StatesBelow(q) ==
    IF IsCpu(q.master) /\ ~q.inhibited
    THEN <<OwnState(q.master), <<"tag", q.master[2]>>>> ELSE <<OwnState(q.master)>>
Way(q, end) ==
    /\ q.place = "sent" => /\ q.src = SlaveId(q.master)
                           /\ q.inhibited => IsCpu(q.master)
                           /\ q.states = StatesBelow(q)
    /\ q.place = "done" => q.src = q.master[2] /\ q.states = <<OwnState(q.master)>>
    /\ q.place = "held" /\ (end = "no" \/ ~q.inhibited) => q.states = <<OwnState(q.master)>>
    /\ q.place = "refused" => q.src = TagId /\ q.states = <<OwnState(q.master), TagState(q.master)>>

IInv ==
    /\ TypeOK
    /\ \A r \in Requests : Recorded(r, req[r], outstandingReq, stale)
    /\ \A r \in Requests : Way(req[r], died)

LEMMA InitIInv == Init => IInv
  BY DEF Init, IInv, TypeOK, Packet, Free, NoMaster, NoPort, Recorded, Way

LEMMA MasterForm ==
  ASSUME NEW m \in Masters
  PROVE  /\ m = <<m[1], m[2]>> /\ m[1] \in {"cpu", "sys"} /\ m[2] \in Nat
         /\ m \in {"none", "cpu", "sys"} \X Int
<1>1. CASE m \in {"cpu"} \X CpuPorts
  <2>1. PICK c \in CpuPorts : m = <<"cpu", c>>
    BY <1>1
  <2>2. c \in Nat
    BY FabricAssumption
  <2> QED BY <2>1, <2>2
<1>2. CASE m \in {"sys"} \X SysPorts
  <2>1. PICK c \in SysPorts : m = <<"sys", c>>
    BY <1>2
  <2>2. c \in Nat
    BY FabricAssumption
  <2> QED BY <2>1, <2>2
<1> QED BY <1>1, <1>2 DEF Masters

\* A step that replaces one packet, and records no more than it.
LEMMA OnePacket ==
  ASSUME IInv, NEW r \in Requests, NEW p \in Packet,
         req' = [req EXCEPT ![r] = p],
         outstandingReq' \in {outstandingReq, outstandingReq \cup {r}, outstandingReq \ {r}},
         stale' \in {stale, stale \cup {r}},
         died' \in {died, "inhibited request refused", "response refused"},
         answering' \subseteq Int,
         Recorded(r, p, outstandingReq', stale'), Way(p, died')
  PROVE  IInv'
<1>1. TypeOK'
  BY DEF IInv, TypeOK
<1>2. ASSUME NEW s \in Requests, s # r
      PROVE  req'[s] = req[s] /\ (s \in outstandingReq' <=> s \in outstandingReq) /\ (s \in stale' <=> s \in stale)
  BY <1>2 DEF IInv, TypeOK
<1>3. req'[r] = p
  BY DEF IInv, TypeOK
<1>4. \A s \in Requests : Recorded(s, req'[s], outstandingReq', stale')
  <2> SUFFICES ASSUME NEW s \in Requests, s # r PROVE Recorded(s, req'[s], outstandingReq', stale')
    BY <1>3
  <2> QED BY <1>2 DEF IInv, Recorded
<1>5. \A s \in Requests : Way(req'[s], died')
  <2> SUFFICES ASSUME NEW s \in Requests, s # r PROVE Way(req'[s], died')
    BY <1>3
  <2>1. died' = "no" => died = "no"
    BY DEF IInv
  <2>2. Way(req[s], died) /\ req'[s] = req[s]
    BY <1>2 DEF IInv
  <2> HIDE DEF IInv
  <2> QED BY <2>1, <2>2 DEF Way
<1> QED BY <1>1, <1>4, <1>5 DEF IInv
-----------------------------------------------------------------------------
(* Sending.                                                                *)

\* What master m sends: a packet of its own, as it left the master.
Own(m, r, q) ==
    /\ q \in Packet /\ q.master = m /\ q.states = <<OwnState(m)>>
    /\ req[r].place \in {"free", "held"}

\* Packets p and q agree but for their place, states and source.
Same(p, q) ==
    /\ p.master = q.master /\ p.addr = q.addr
    /\ p.needsResponse = q.needsResponse /\ p.inhibited = q.inhibited

\* Two states pushed one after the other, and popped.
LEMMA TwoStates ==
  ASSUME NEW T, NEW a \in T, NEW b \in T
  PROVE  /\ <<a, b>> \in Seq(T) /\ <<a>> \in Seq(T) /\ << >> \in Seq(T)
         /\ Append(<<a>>, b) = <<a, b>>
         /\ <<a, b>>[Len(<<a, b>>)] = b
         /\ SubSeq(<<a, b>>, 1, Len(<<a, b>>) - 1) = <<a>>
         /\ SubSeq(<<a>>, 1, Len(<<a>>) - 1) = << >>
<1>1. /\ <<a, b>> \in Seq(T) /\ <<a>> \in Seq(T) /\ << >> \in Seq(T)
      /\ Len(<<a, b>>) = 2 /\ <<a, b>>[1] = a /\ <<a, b>>[2] = b
      /\ Len(<<a>>) = 1 /\ <<a>>[1] = a /\ Len(<< >>) = 0
  OBVIOUS
<1> DEFINE one == <<a>>
           two == <<a, b>>
           none == << >>
<1>a. /\ one \in Seq(T) /\ Len(one) = 1 /\ one[1] = a
      /\ two \in Seq(T) /\ Len(two) = 2 /\ two[1] = a /\ two[2] = b
      /\ none \in Seq(T) /\ Len(none) = 0
  BY <1>1
<1> HIDE DEF one, two, none
<1>2. Append(one, b) = two
  <2> DEFINE s == Append(one, b)
  <2>1. s \in Seq(T) /\ Len(s) = 2 /\ s[1] = a /\ s[2] = b
    <3>1. one \in Seq(T) /\ b \in T
      BY <1>a
    <3>2. s \in Seq(T)
      BY <3>1, AppendProperties
    <3>3. Len(s) = Len(one) + 1
      BY <3>1, AppendProperties
    <3>4. s[Len(one) + 1] = b
      BY <3>1, AppendProperties
    <3>5. \A i \in 1 .. Len(one) : s[i] = one[i]
      BY <3>1, AppendProperties
    <3> HIDE DEF s
    <3> QED BY <1>a, <3>2, <3>3, <3>4, <3>5
  <2> HIDE DEF s
  <2>2. Len(s) = Len(two) /\ \A i \in 1 .. Len(s) : s[i] = two[i]
    BY <1>a, <2>1
  <2> QED BY <1>a, <2>1, <2>2, SeqEqual, Zenon DEF s
<1>3. SubSeq(two, 1, 1) = one
  <2> DEFINE s == SubSeq(two, 1, 1)
  <2>1. s \in Seq(T) /\ Len(s) = 1 /\ s[1] = a
    BY <1>a, SubSeqProperties
  <2> HIDE DEF s
  <2>2. Len(s) = Len(one) /\ \A i \in 1 .. Len(s) : s[i] = one[i]
    BY <1>a, <2>1
  <2> QED BY <1>a, <2>1, <2>2, SeqEqual, Zenon DEF s
<1>4. SubSeq(one, 1, 0) = none
  <2>1. SubSeq(one, 1, 0) \in Seq(T) /\ Len(SubSeq(one, 1, 0)) = 0
    BY <1>a, SubSeqProperties
  <2> QED BY <1>1, <2>1, SeqEqual DEF none
<1> QED BY <1>1, <1>2, <1>3, <1>4 DEF one, two, none

WithStates(q, st) == [q EXCEPT !.states = st]

LEMMA SetStates ==
  ASSUME NEW q \in Packet, NEW st \in Seq({"own", "tag"} \X Int)
  PROVE  /\ WithStates(q, st) \in Packet /\ Same(WithStates(q, st), q)
         /\ WithStates(q, st).states = st /\ WithStates(q, st).place = q.place
  BY DEF Packet, Same, WithStates

LEMMA SetPlace ==
  ASSUME NEW q \in Packet
  PROVE  Held(q) \in Packet /\ Held(q).states = q.states /\ Held(q).place = "held" /\ Same(Held(q), q)
  BY DEF Packet, Same, Held

LEMMA SetInhibited ==
  ASSUME NEW m \in Masters, NEW r \in Requests, NEW q, Own(m, r, q), NEW b \in BOOLEAN
  PROVE  LET p == [q EXCEPT !.inhibited = b]
         IN  Own(m, r, p) /\ p.inhibited = b /\ p.needsResponse = q.needsResponse /\ p.addr = q.addr
  BY DEF Packet, Own

\* Pushing TagXBar's state.
LEMMA Push ==
  ASSUME NEW m \in Masters, NEW r \in Requests, NEW q, Own(m, r, q)
  PROVE  /\ AtTag(m, q) \in Packet /\ Same(AtTag(m, q), q)
         /\ q.needsResponse => AtTag(m, q).states = StatesBelow(q)
         /\ q.needsResponse /\ ~q.inhibited /\ IsCpu(m) => AtTag(m, q).states = <<OwnState(m), <<"tag", m[2]>>>>
         /\ ~(q.needsResponse /\ ~q.inhibited) => AtTag(m, q).states = <<OwnState(m)>>
<1>0. m[2] \in Nat /\ q \in Packet /\ q.states = <<OwnState(m)>> /\ q.master = m
  BY MasterForm DEF Own
<1>1. <<"tag", m[2]>> \in {"own", "tag"} \X Int /\ OwnState(m) \in {"own", "tag"} \X Int
  BY <1>0 DEF OwnState
<1>2. CASE IsCpu(m) /\ q.needsResponse /\ ~q.inhibited
  <2> DEFINE st == <<OwnState(m), <<"tag", m[2]>>>>
  <2>1. st \in Seq({"own", "tag"} \X Int) /\ Append(<<OwnState(m)>>, <<"tag", m[2]>>) = st
    <3> DEFINE own == OwnState(m)
               tag == <<"tag", m[2]>>
               T == {"own", "tag"} \X Int
    <3>1. own \in T /\ tag \in T
      BY <1>1
    <3> HIDE DEF own, tag, T
    <3>2. <<own, tag>> \in Seq(T) /\ Append(<<own>>, tag) = <<own, tag>>
      BY <3>1, TwoStates
    <3> QED BY <3>2 DEF own, tag, T
  <2>2. AtTag(m, q) = WithStates(q, st)
    BY <1>0, <1>2, <2>1 DEF AtTag, PushSenderState, WithStates
  <2>3. StatesBelow(q) = st
    BY <1>0, <1>2 DEF StatesBelow
  <2> HIDE DEF st
  <2>4. AtTag(m, q) \in Packet /\ Same(AtTag(m, q), q) /\ AtTag(m, q).states = st
    BY <1>0, <2>1, <2>2, SetStates
  <2> QED BY <1>2, <2>3, <2>4 DEF st
<1>3. CASE ~(IsCpu(m) /\ q.needsResponse /\ ~q.inhibited)
  <2>1. AtTag(m, q) = q
    BY <1>3 DEF AtTag, PushSenderState
  <2> QED BY <1>0, <1>3, <2>1 DEF StatesBelow, Same
<1> QED BY <1>2, <1>3

\* Popping it: right unless the packet is inhibited.
LEMMA Pop ==
  ASSUME NEW m \in Masters, NEW r \in Requests, NEW q, Own(m, r, q)
  PROVE  /\ Refused(m, q) \in Packet /\ Same(Refused(m, q), q) /\ Refused(m, q).place = "held"
         /\ ~q.inhibited => Refused(m, q).states = <<OwnState(m)>>
<1> DEFINE t == AtTag(m, q)
           u == IF IsCpu(m) THEN PopRefused(t) ELSE q
<1>1. q \in Packet /\ q.states = <<OwnState(m)>>
  BY DEF Own
<1>2. u \in Packet /\ Same(u, q) /\ (~q.inhibited => u.states = <<OwnState(m)>>)
  <2>1. CASE ~IsCpu(m)
    BY <1>1, <2>1 DEF Same
  <2>2. CASE IsCpu(m) /\ ~q.needsResponse
    <3>1. u = t
      BY <2>2, Push DEF PopRefused, Same
    <3> QED BY <2>2, <3>1, Push
  <2>3. CASE IsCpu(m) /\ q.needsResponse
    <3> DEFINE own == OwnState(m)
               tag == <<"tag", m[2]>>
               st == IF q.inhibited THEN << >> ELSE <<own>>
    <3>1. own \in {"own", "tag"} \X Int /\ tag \in {"own", "tag"} \X Int
      BY MasterForm DEF OwnState
    <3>2. t \in Packet /\ Same(t, q) /\ t.states = IF q.inhibited THEN <<own>> ELSE <<own, tag>>
      BY <2>3, Push
    <3> HIDE DEF own, tag
    <3> DEFINE T == {"own", "tag"} \X Int
    <3>a. own \in T /\ tag \in T
      BY <3>1
    <3> HIDE DEF T, t
    <3>3. st \in Seq(T) /\ SubSeq(t.states, 1, Len(t.states) - 1) = st
      <4>1. <<own>> \in Seq(T) /\ << >> \in Seq(T)
        BY <3>a, TwoStates
      <4>2. SubSeq(<<own>>, 1, Len(<<own>>) - 1) = << >>
        BY <3>a, TwoStates
      <4>3. SubSeq(<<own, tag>>, 1, Len(<<own, tag>>) - 1) = <<own>>
        BY <3>a, TwoStates
      <4>4. CASE q.inhibited
        BY <3>2, <4>1, <4>2, <4>4, Zenon
      <4>5. CASE ~q.inhibited
        BY <3>2, <4>1, <4>3, <4>5, Zenon
      <4> QED BY <4>4, <4>5
    <3> USE DEF T
    <3>4. u = WithStates(t, st)
      BY <2>3, <3>2, <3>3 DEF PopRefused, Same, WithStates
    <3> HIDE DEF st, t, u
    <3>5. u \in Packet /\ Same(u, t) /\ u.states = st
      BY <3>2, <3>3, <3>4, SetStates
    <3> QED BY <3>2, <3>5 DEF Same, st, own
  <2> QED BY <2>1, <2>2, <2>3
<1>3. Refused(m, q) = Held(u)
  BY DEF Refused
<1> HIDE DEF u
<1> QED BY <1>2, <1>3, SetPlace DEF Same

\* What a master sends first is its own.
LEMMA NewIsOwn ==
  ASSUME NEW m \in Masters, NEW r \in Requests, NEW a \in Addrs, NEW needsResponse \in BOOLEAN,
         req[r].place = "free"
  PROVE  Own(m, r, NewPacket(m, a, needsResponse)) /\ NewPacket(m, a, needsResponse).place # "sent"
<1> DEFINE own == OwnState(m)
           stack == <<own>>
<1>1. own \in {"own", "tag"} \X Int /\ m \in {"none", "cpu", "sys"} \X Int
  BY MasterForm DEF OwnState
<1>2. stack \in Seq({"own", "tag"} \X Int)
  BY <1>1
<1> HIDE DEF stack
<1>3. NewPacket(m, a, needsResponse) =
         [place |-> "free", master |-> m, addr |-> a, needsResponse |-> needsResponse,
          inhibited |-> FALSE, states |-> stack, src |-> NoPort]
  BY DEF NewPacket, stack
<1>4. /\ NewPacket(m, a, needsResponse) \in Packet
      /\ NewPacket(m, a, needsResponse).master = m
      /\ NewPacket(m, a, needsResponse).states = stack
      /\ NewPacket(m, a, needsResponse).place = "free"
  BY <1>1, <1>2, <1>3 DEF Packet, NoPort
<1> QED BY <1>4 DEF Own, stack

\* A master sends, for the first time or again.
LEMMA SendKeeps ==
  ASSUME IInv, NEW m \in Masters, NEW r \in Requests, NEW q, Own(m, r, q), q.place # "sent",
         Send(m, r, q)
  PROVE  IInv'
<1>1. /\ died = "no" /\ q \in Packet /\ q.master = m /\ q.states = <<OwnState(m)>>
      /\ Recorded(r, req[r], outstandingReq, stale) /\ req[r].place \in {"free", "held"}
      /\ outstandingReq \subseteq Requests /\ answering' \subseteq Int /\ answering' = answering
  BY DEF Send, Own, IInv, TypeOK
<1>2. r \in outstandingReq => r \in stale
  BY <1>1 DEF Recorded
<1>3. CASE RefusedInside(m, r, q)
  <2>1. /\ Held(q) \in Packet /\ Held(q).place = "held"
        /\ Held(q).master = m /\ Held(q).states = <<OwnState(m)>>
    BY <1>1, SetPlace DEF Same
  <2>2. Recorded(r, Held(q), outstandingReq', stale') /\ Way(Held(q), died')
    BY <1>2, <1>3, <2>1 DEF RefusedInside, Recorded, Way
  <2> QED BY <1>1, <1>3, <2>1, <2>2, OnePacket DEF RefusedInside
<1>4. ASSUME NEW b \in BOOLEAN, b => IsCpu(m) /\ q.needsResponse,
             LET p == [q EXCEPT !.inhibited = b]
             IN  RefusedByLayer(m, r, p) \/ Stale(r, p) \/ RefusedByPeer(m, r, p) \/ Accepted(m, r, p)
      PROVE  IInv'
  <2> DEFINE p == [q EXCEPT !.inhibited = b]
  <2>1. Own(m, r, p) /\ p.inhibited = b /\ p.needsResponse = q.needsResponse
    BY SetInhibited
  <2>3. RefusedByLayer(m, r, p) \/ Stale(r, p) \/ RefusedByPeer(m, r, p) \/ Accepted(m, r, p)
    BY <1>4
  <2> HIDE DEF p
  <2>2. /\ Refused(m, p) \in Packet /\ Refused(m, p).place = "held" /\ Refused(m, p).master = m
        /\ ~b => Refused(m, p).states = <<OwnState(m)>>
        /\ Refused(m, p).inhibited = b
    BY <1>1, <2>1, Pop DEF Same, Own
  <2>4. CASE RefusedByLayer(m, r, p)
    <3>1. /\ req' = [req EXCEPT ![r] = Refused(m, p)]
          /\ died' = IF p.inhibited THEN "inhibited request refused" ELSE died
          /\ outstandingReq' = outstandingReq /\ stale' = stale
      BY <2>4 DEF RefusedByLayer
    <3>2. Recorded(r, Refused(m, p), outstandingReq', stale') /\ Way(Refused(m, p), died')
      BY <1>2, <2>1, <2>2, <3>1 DEF Recorded, Way
    <3> QED BY <1>1, <2>2, <3>1, <3>2, OnePacket
  <2>5. CASE Stale(r, p)
    <3>1. UNCHANGED <<req, outstandingReq, stale>> /\ died' = "request already outstanding"
      BY <2>5 DEF Stale
    <3> QED BY <1>1, <3>1 DEF IInv, TypeOK, Recorded, Way
  <2>6. CASE RefusedByPeer(m, r, p)
    <3>1. /\ req' = [req EXCEPT ![r] = Refused(m, p)] /\ ~p.inhibited
          /\ outstandingReq' = Undo(r, p) /\ died' = died /\ stale' = stale
          /\ AddOutstanding(p) => r \notin outstandingReq
      BY <2>6 DEF RefusedByPeer, Forwarded
    <3>2. Undo(r, p) = outstandingReq
      BY <3>1 DEF Undo, Inserted
    <3>3. Recorded(r, Refused(m, p), outstandingReq', stale') /\ Way(Refused(m, p), died')
      BY <1>2, <2>1, <2>2, <3>1, <3>2 DEF Recorded, Way
    <3> QED BY <1>1, <2>2, <3>1, <3>2, <3>3, OnePacket
  <2>7. CASE Accepted(m, r, p)
    <3>1. /\ outstandingReq' = Inserted(r, p) /\ died' = died
          /\ stale' = IF p.inhibited THEN stale \cup {r} ELSE stale
          /\ req' = [req EXCEPT ![r] = IF ~p.needsResponse THEN Free
                                       ELSE [AtTag(m, p) EXCEPT !.src = SlaveId(m), !.place = "sent"]]
      BY <2>7 DEF Accepted
    <3>2. CASE ~p.needsResponse
      <4>1. outstandingReq' = outstandingReq /\ stale' = stale
        BY <1>4, <2>1, <3>1, <3>2 DEF Inserted, AddOutstanding
      <4>2. Free \in Packet /\ Free.place = "free" /\ req' = [req EXCEPT ![r] = Free]
        BY <3>1, <3>2 DEF Free, Packet, NoMaster, NoPort
      <4>3. Recorded(r, Free, outstandingReq', stale') /\ Way(Free, died')
        BY <1>2, <4>1, <4>2 DEF Recorded, Way
      <4> QED BY <1>1, <3>1, <4>1, <4>2, <4>3, OnePacket
    <3>3. CASE p.needsResponse
      <4> DEFINE a == AtTag(m, p)
                 n == [a EXCEPT !.src = SlaveId(m), !.place = "sent"]
      <4>1. a \in Packet /\ Same(a, p) /\ a.states = StatesBelow(p) /\ SlaveId(m) \in Int
        BY <2>1, <3>3, Push, MasterForm, FabricAssumption DEF SlaveId
      <4>2. req' = [req EXCEPT ![r] = n]
        BY <3>1, <3>3
      <4> HIDE DEF a
      <4>3. /\ n \in Packet /\ n.place = "sent" /\ n.src = SlaveId(m) /\ n.states = a.states
            /\ n.master = a.master /\ n.inhibited = a.inhibited
        BY <4>1 DEF Packet
      <4>4. n.master = m /\ n.inhibited = b /\ n.states = StatesBelow(n)
        BY <2>1, <4>1, <4>3 DEF Same, Own, StatesBelow
      <4>5. outstandingReq' = outstandingReq \cup {r}
        BY <3>1, <3>3 DEF Inserted, AddOutstanding
      <4> HIDE DEF n
      <4>6. Recorded(r, n, outstandingReq', stale') /\ Way(n, died')
        BY <1>4, <2>1, <3>1, <4>3, <4>4, <4>5 DEF Recorded, Way
      <4> QED BY <1>1, <3>1, <4>2, <4>3, <4>5, <4>6, OnePacket
    <3> QED BY <3>2, <3>3
  <2> QED BY <2>3, <2>4, <2>5, <2>6, <2>7
<1>5. RefusedInside(m, r, q) \/
      \E b \in BOOLEAN :
         /\ b => IsCpu(m) /\ q.needsResponse
         /\ LET p == [q EXCEPT !.inhibited = b]
            IN  RefusedByLayer(m, r, p) \/ Stale(r, p) \/ RefusedByPeer(m, r, p) \/ Accepted(m, r, p)
  BY DEF Send
<1> QED BY <1>3, <1>4, <1>5

-----------------------------------------------------------------------------
(* The other steps.                                                        *)

LEMMA NextKeeps == IInv /\ [Next]_vars => IInv'
<1> SUFFICES ASSUME IInv, [Next]_vars PROVE IInv'
  OBVIOUS
<1>t. /\ \A r \in Requests : req[r] \in Packet
      /\ \A r \in Requests : Recorded(r, req[r], outstandingReq, stale)
      /\ \A r \in Requests : Way(req[r], died)
  BY DEF IInv, TypeOK
<1>0. CASE UNCHANGED <<req, outstandingReq, stale, died>> /\ answering' \subseteq answering
  BY <1>0 DEF IInv, TypeOK, Recorded, Way
<1>1. ASSUME NEW m \in Masters, SendNew(m) PROVE IInv'
  <2>1. PICK r \in Requests, a \in Addrs, needsResponse \in BOOLEAN :
           req[r].place = "free" /\ Send(m, r, NewPacket(m, a, needsResponse))
    BY <1>1 DEF SendNew
  <2>4. Own(m, r, NewPacket(m, a, needsResponse)) /\ NewPacket(m, a, needsResponse).place # "sent"
    BY <2>1, NewIsOwn
  <2> QED BY <2>1, <2>4, SendKeeps
<1>2. ASSUME NEW m \in Masters, Resend(m) PROVE IInv'
  <2>1. PICK r \in Holds(m) : Send(m, r, req[r])
    BY <1>2 DEF Resend
  <2>2. r \in Requests /\ req[r].place = "held" /\ req[r].master = m /\ died = "no"
    BY <2>1 DEF Holds, Send
  <2>3. Own(m, r, req[r])
    BY <1>t, <2>2 DEF Own, Way
  <2> QED BY <2>1, <2>2, <2>3, SendKeeps
<1>3. ASSUME NEW r \in Requests, Respond(r) \/ RespondTag(r) PROVE IInv'
  <2> DEFINE q == req[r]
  <2>1. /\ died = "no" /\ q \in Packet /\ q.place = "sent" /\ ~q.inhibited
        /\ Recorded(r, q, outstandingReq, stale) /\ Way(q, died)
        /\ stale' = stale /\ outstandingReq' = outstandingReq \ {r} /\ answering \subseteq Int
    BY <1>3, <1>t DEF Respond, RespondTag, Running, IInv, TypeOK
  <2>2. q.master \in Masters /\ q.src = SlaveId(q.master) /\ q.states = StatesBelow(q)
    BY <2>1 DEF Recorded, Way
  <2>2a. q.src = TagId =>
           LET dest == Redirected(q).src IN
           /\ req' = [req EXCEPT ![r] = RecvTimingResp(q, dest \notin answering)]
           /\ answering' = answering \cup {dest}
           /\ died' = IF dest \notin answering THEN died ELSE "response refused"
    BY <1>3 DEF Respond, RespondTag
  <2>2b. q.src # TagId =>
           req' = [req EXCEPT ![r].place = "done"] /\ answering' = answering /\ died' = died
    BY <1>3 DEF Respond, RespondTag
  <2>2c. req \in [Requests -> Packet]
    BY DEF IInv, TypeOK
  <2>2d. q.src # TagId => req' = [req EXCEPT ![r] = [q EXCEPT !.place = "done"]]
    BY <2>2b, <2>2c DEF Packet
  <2> HIDE DEF q
  <2>3. CASE q.src = TagId
    <3>1. IsCpu(q.master)
      <4> SUFFICES ASSUME ~IsCpu(q.master) PROVE q.master[2] \in SysPorts
        BY <2>2, <2>3, FabricAssumption DEF SlaveId
      <4>1. q.master \in {"sys"} \X SysPorts
        BY <2>2 DEF IsCpu, Masters
      <4> QED BY <4>1
    <3> DEFINE own == OwnState(q.master)
               tag == <<"tag", q.master[2]>>
               T == {"own", "tag"} \X Int
    <3>2. own \in T /\ tag \in T /\ tag[2] = q.master[2] /\ q.master[2] \in Int
      BY <2>2, MasterForm DEF OwnState
    <3>3. q.states = <<own, tag>>
      BY <2>1, <2>2, <3>1 DEF StatesBelow
    <3> HIDE DEF own, tag, T
    <3>4. /\ q.states[Len(q.states)] = tag /\ <<own>> \in Seq(T)
          /\ SubSeq(q.states, 1, Len(q.states) - 1) = <<own>>
          /\ Append(<<own>>, tag) = q.states /\ q.states \in Seq(T)
      <4>1. <<own, tag>>[Len(<<own, tag>>)] = tag /\ <<own>> \in Seq(T)
            /\ Append(<<own>>, tag) = <<own, tag>> /\ <<own, tag>> \in Seq(T)
        BY <3>2, TwoStates
      <4>2. SubSeq(<<own, tag>>, 1, Len(<<own, tag>>) - 1) = <<own>>
        BY <3>2, TwoStates
      <4> QED BY <3>3, <4>1, <4>2, Zenon
    <3> DEFINE p == Redirected(q)
               ok == p.src \notin answering
               n == RecvTimingResp(q, ok)
    <3>5. p = [q EXCEPT !.src = q.master[2], !.states = <<own>>]
      BY <3>2, <3>4 DEF Redirected, LastState
    <3>5a. p \in Packet /\ p.src = q.master[2] /\ p.states = <<own>> /\ p.master = q.master
      BY <2>1, <3>2, <3>4, <3>5 DEF Packet, T
    <3>6. /\ n \in Packet /\ n.master = q.master /\ n.place \in {"done", "refused"}
          /\ n.place = "done" => n.src = q.master[2] /\ n.states = <<own>>
          /\ n.place = "refused" => n.src = TagId /\ n.states = <<own, tag>>
      <4> HIDE DEF p, ok
      <4>1. CASE ok
        <5>1. n = [p EXCEPT !.place = "done"]
          BY <4>1 DEF RecvTimingResp, p
        <5> HIDE DEF n
        <5> QED BY <3>5a, <5>1 DEF Packet
      <4>2. CASE ~ok
        <5> DEFINE u == [p EXCEPT !.states = <<own, tag>>, !.src = TagId]
        <5>1. PutBack(p, LastState(q), q.src) = u
          BY <2>3, <3>3, <3>4, <3>5a DEF PutBack, LastState
        <5>2. n = [u EXCEPT !.place = "refused"]
          BY <4>2, <5>1 DEF RecvTimingResp, p
        <5>3. u \in Packet /\ u.master = q.master /\ u.src = TagId /\ u.states = <<own, tag>>
          <6> DEFINE st == <<own, tag>>
          <6>1. st \in Seq({"own", "tag"} \X Int) /\ TagId \in Int
            BY <3>3, <3>4, FabricAssumption DEF T
          <6>2. u = [p EXCEPT !.states = st, !.src = TagId]
            OBVIOUS
          <6> HIDE DEF st, u
          <6>3. u \in Packet /\ u.master = p.master /\ u.src = TagId /\ u.states = st
            BY <3>5a, <6>1, <6>2 DEF Packet
          <6> QED BY <3>5a, <6>3 DEF st
        <5> HIDE DEF n, u
        <5> QED BY <5>2, <5>3 DEF Packet
      <4> QED BY <4>1, <4>2
    <3>7. /\ req' = [req EXCEPT ![r] = n]
          /\ answering' \subseteq Int /\ died' \in {died, "response refused"}
      BY <2>1, <2>2a, <2>3, <3>2, <3>5a
    <3> HIDE DEF n, p, ok
    <3>8. Recorded(r, n, outstandingReq', stale') /\ Way(n, died')
      BY <2>1, <2>2, <3>6 DEF Recorded, Way, own, tag, TagState
    <3> QED BY <2>1, <3>6, <3>7, <3>8, OnePacket
  <2>4. CASE q.src # TagId
    <3> DEFINE n == [q EXCEPT !.place = "done"]
    <3>1. ~IsCpu(q.master)
      BY <2>2, <2>4 DEF SlaveId
    <3>2. q.src = q.master[2] /\ q.states = <<OwnState(q.master)>>
      BY <2>2, <3>1 DEF SlaveId, StatesBelow
    <3>3. n \in Packet /\ n.place = "done" /\ n.src = q.src /\ n.states = q.states /\ n.master = q.master
      BY <2>1 DEF Packet
    <3>4. req' = [req EXCEPT ![r] = n] /\ answering' = answering /\ died' = died
      BY <2>2b, <2>2d, <2>4
    <3> HIDE DEF n
    <3>5. Recorded(r, n, outstandingReq', stale') /\ Way(n, died')
      BY <2>1, <2>2, <3>2, <3>3 DEF Recorded, Way
    <3> QED BY <2>1, <3>3, <3>4, <3>5, OnePacket
  <2> QED BY <2>3, <2>4
<1>4. ASSUME NEW r \in Requests, SnoopRespond(r) PROVE IInv'
  <2> DEFINE q == req[r]
             n == [q EXCEPT !.place = "done", !.src = q.master[2]]
  <2>1. /\ q \in Packet /\ q.place = "sent" /\ q.inhibited
        /\ Recorded(r, q, outstandingReq, stale) /\ Way(q, died)
        /\ UNCHANGED <<outstandingReq, stale, died>>
        /\ req' = [req EXCEPT ![r].place = "done", ![r].src = req[r].master[2]]
        /\ answering' = answering \cup {q.master[2]} /\ answering \subseteq Int
    BY <1>4, <1>t DEF SnoopRespond, IInv, TypeOK
  <2>2. req' = [req EXCEPT ![r] = n]
    BY <2>1 DEF IInv, TypeOK, Packet
  <2> HIDE DEF q
  <2>3. q.master \in Masters /\ q.master[2] \in Int /\ q.states = <<OwnState(q.master)>> /\ r \in stale
    BY <2>1, MasterForm DEF Recorded, Way, StatesBelow
  <2>4. n \in Packet /\ n.place = "done" /\ n.src = q.master[2] /\ n.states = q.states /\ n.master = q.master
    BY <2>1, <2>3 DEF Packet
  <2> HIDE DEF n
  <2>5. Recorded(r, n, outstandingReq', stale') /\ Way(n, died')
    BY <2>1, <2>3, <2>4 DEF Recorded, Way
  <2>6. answering' \subseteq Int
    BY <2>1, <2>3
  <2> QED BY <2>1, <2>2, <2>4, <2>5, <2>6, OnePacket
<1>5. ASSUME NEW r \in Requests, Consume(r) PROVE IInv'
  <2>1. /\ req[r].place = "done" /\ Recorded(r, req[r], outstandingReq, stale)
        /\ answering' \subseteq Int
        /\ UNCHANGED <<outstandingReq, stale, died>> /\ req' = [req EXCEPT ![r] = Free]
    BY <1>5, <1>t DEF Consume, IInv, TypeOK
  <2>2. Free \in Packet /\ Free.place = "free"
    BY DEF Free, Packet, NoMaster, NoPort
  <2>3. Recorded(r, Free, outstandingReq', stale') /\ Way(Free, died')
    BY <2>1, <2>2 DEF Recorded, Way
  <2> QED BY <2>1, <2>2, <2>3, OnePacket
<1>6. ASSUME NEW d \in MasterPorts, ReleaseLayer(d) \/ PeerRetry(d) PROVE IInv'
  BY <1>0, <1>6 DEF ReleaseLayer, PeerRetry
<1>7. ASSUME ReleaseInner \/ (\E c \in CpuPorts : ReleaseResp(c)) \/ Dead \/ UNCHANGED vars PROVE IInv'
  BY <1>0, <1>7 DEF ReleaseInner, ReleaseResp, Dead, vars
<1> QED BY <1>1, <1>2, <1>3, <1>4, <1>5, <1>6, <1>7 DEF Next

LEMMA IInvHolds == Spec => []IInv
  BY InitIInv, NextKeeps, PTL DEF Spec

-----------------------------------------------------------------------------
(* Queues of ports.                                                        *)

Distinct(w) == \A i, j \in 1..Len(w) : w[i] = w[j] => i = j
Among(w, x) == \E i \in 1..Len(w) : w[i] = x

LEMMA AppendLine ==
  ASSUME NEW P, NEW w \in Seq(P), NEW x \in P, Distinct(w), ~Among(w, x)
  PROVE  /\ Append(w, x) \in Seq(P) /\ Append(w, x) # << >> /\ Distinct(Append(w, x))
         /\ \A y : Among(Append(w, x), y) <=> Among(w, y) \/ y = x
<1> DEFINE v == Append(w, x)
<1>1. /\ v \in Seq(P) /\ v # << >> /\ Len(v) = Len(w) + 1 /\ Len(w) \in Nat
      /\ \A i \in 1..Len(w) : v[i] = w[i]
      /\ v[Len(w) + 1] = x
  BY AppendProperties
<1> HIDE DEF v
<1>2. \A i \in 1..Len(v) : i \in 1..Len(w) \/ i = Len(w) + 1
  BY <1>1
<1>3. Distinct(v)
  BY <1>1, <1>2 DEF Distinct, Among
<1>4. \A y : Among(v, y) <=> Among(w, y) \/ y = x
  BY <1>1, <1>2 DEF Among
<1> QED BY <1>1, <1>3, <1>4 DEF v

LEMMA PushLine ==
  ASSUME NEW P, NEW w \in Seq(P), NEW x \in P, Distinct(w), ~Among(w, x)
  PROVE  LET v == <<x>> \o w
         IN  /\ v \in Seq(P) /\ v # << >> /\ Distinct(v) /\ Head(v) = x /\ Tail(v) = w
             /\ \A y : Among(v, y) <=> Among(w, y) \/ y = x
<1> DEFINE v == <<x>> \o w
           one == <<x>>
<1>1. one \in Seq(P) /\ Len(one) = 1 /\ one[1] = x
  OBVIOUS
<1>2. /\ v \in Seq(P) /\ Len(v) = 1 + Len(w) /\ Len(w) \in Nat
      /\ \A i \in 1..(1 + Len(w)) : v[i] = IF i <= 1 THEN one[i] ELSE w[i - 1]
  <2> HIDE DEF one
  <2>1. /\ one \o w \in Seq(P) /\ Len(one \o w) = Len(one) + Len(w)
        /\ \A i \in 1..(Len(one) + Len(w)) :
              (one \o w)[i] = IF i <= Len(one) THEN one[i] ELSE w[i - Len(one)]
    BY <1>1, ConcatProperties
  <2>2. v = one \o w
    BY DEF one
  <2> QED BY <1>1, <2>1, <2>2
<1> HIDE DEF v, one
<1>3. v[1] = x /\ \A i \in 1..Len(w) : v[i + 1] = w[i]
  BY <1>1, <1>2
<1>4. \A i \in 1..Len(v) : i = 1 \/ (i - 1 \in 1..Len(w) /\ v[i] = w[i - 1])
  BY <1>1, <1>2
<1>5. v # << >> /\ Head(v) = x
  BY <1>2, <1>3
<1>6. Tail(v) = w
  <2>1. Tail(v) \in Seq(P) /\ Len(Tail(v)) = Len(v) - 1
        /\ \A i \in 1..Len(Tail(v)) : Tail(v)[i] = v[i + 1]
    BY <1>2, <1>5, HeadTailProperties
  <2>2. Len(Tail(v)) = Len(w) /\ \A i \in 1..Len(w) : Tail(v)[i] = w[i]
    BY <1>2, <1>3, <2>1
  <2> QED BY <2>1, <2>2, SeqEqual
<1>7. Distinct(v)
  <2> SUFFICES ASSUME NEW i \in 1..Len(v), NEW j \in 1..Len(v), v[i] = v[j] PROVE i = j
    BY DEF Distinct
  <2>1. ASSUME NEW n \in 1..Len(w) PROVE w[n] # x
    BY DEF Among
  <2>2. CASE i = 1 \/ j = 1
    BY <1>3, <1>4, <2>1, <2>2
  <2>3. CASE i # 1 /\ j # 1
    <3>1. i - 1 = j - 1
      BY <1>4, <2>3 DEF Distinct
    <3> QED BY <1>2, <3>1
  <2> QED BY <2>2, <2>3
<1>8. \A y : Among(v, y) <=> Among(w, y) \/ y = x
  BY <1>2, <1>3, <1>4 DEF Among
<1> QED BY <1>2, <1>5, <1>6, <1>7, <1>8 DEF v

LEMMA TailLine ==
  ASSUME NEW P, NEW w \in Seq(P), w # << >>, Distinct(w)
  PROVE  /\ Head(w) \in P /\ Among(w, Head(w))
         /\ Tail(w) \in Seq(P) /\ Distinct(Tail(w))
         /\ \A y : Among(Tail(w), y) <=> Among(w, y) /\ y # Head(w)
<1> DEFINE v == Tail(w)
<1>1. /\ Head(w) \in P /\ v \in Seq(P) /\ Len(v) = Len(w) - 1
      /\ \A i \in 1..Len(v) : v[i] = w[i + 1]
  BY HeadTailProperties
<1>2. Len(w) \in Nat \ {0} /\ Head(w) = w[1]
  BY EmptySeq
<1> HIDE DEF v
<1>3. \A i \in 1..Len(w) : i = 1 \/ (i - 1 \in 1..Len(v) /\ v[i - 1] = w[i])
  BY <1>1, <1>2
<1>4. \A i \in 1..Len(v) : i + 1 \in 1..Len(w) /\ i + 1 # 1 /\ v[i] = w[i + 1]
  BY <1>1, <1>2
<1>5. Distinct(v)
  <2> SUFFICES ASSUME NEW i \in 1..Len(v), NEW j \in 1..Len(v), v[i] = v[j] PROVE i = j
    BY DEF Distinct
  <2>1. i + 1 = j + 1
    BY <1>4 DEF Distinct
  <2> QED BY <1>1, <1>2, <2>1
<1>6. \A y : Among(v, y) <=> Among(w, y) /\ y # Head(w)
  <2>1. ASSUME NEW i \in 1..Len(v) PROVE v[i] # w[1]
    BY <1>2, <1>4 DEF Distinct
  <2>2. ASSUME NEW y, Among(w, y), y # Head(w) PROVE Among(v, y)
    <3>1. PICK i \in 1..Len(w) : w[i] = y
      BY <2>2 DEF Among
    <3>2. i - 1 \in 1..Len(v) /\ v[i - 1] = y
      BY <1>2, <1>3, <2>2, <3>1
    <3> QED BY <3>2 DEF Among
  <2>3. ASSUME NEW y, Among(v, y) PROVE Among(w, y) /\ y # Head(w)
    <3>1. PICK i \in 1..Len(v) : v[i] = y
      BY <2>3 DEF Among
    <3> QED BY <1>2, <1>4, <2>1, <3>1 DEF Among
  <2> QED BY <2>2, <2>3
<1>7. Among(w, Head(w))
  BY <1>2 DEF Among
<1> QED BY <1>1, <1>5, <1>6, <1>7 DEF v

-----------------------------------------------------------------------------
(* A layer whose slave ports are P: each of them is in line at most once,  *)
(* and somebody will see to a line that is not empty.                      *)

Layer(P) == [state : {"IDLE", "BUSY", "RETRY"}, waiting : Seq(P), peer : P \cup {NoPort}]
Sound(l, P) ==
    /\ l \in Layer(P)
    /\ Distinct(l.waiting) /\ ~Among(l.waiting, l.peer)
    /\ l.waiting # << >> => l.state # "IDLE" \/ l.peer # NoPort
    /\ l.state = "RETRY" => l.peer = NoPort
InLine(l, port) == l.peer = port \/ Among(l.waiting, port)

\* The layers k and l have the same ports in line.
SameLine(k, l, P) == \A s \in P : InLine(k, s) <=> InLine(l, s)

LEMMA OccupySound ==
  ASSUME NEW P, NEW l, Sound(l, P)
  PROVE  /\ Sound(Occupy(l), P) /\ SameLine(Occupy(l), l, P)
         /\ Occupy(l).state = "BUSY" /\ Occupy(l).peer = l.peer
  BY DEF Sound, Layer, Occupy, SameLine, InLine

LEMMA TurnAwaySound ==
  ASSUME NEW P, P \subseteq Nat, NEW l, Sound(l, P), Occupied(l), NEW x \in P, ~InLine(l, x)
  PROVE  LET k == TurnAway(l, x)
         IN  /\ Sound(k, P) /\ k.state = l.state /\ k.peer = l.peer
             /\ \A s \in P : InLine(k, s) <=> InLine(l, s) \/ s = x
<1> DEFINE k == TurnAway(l, x)
           v == Append(l.waiting, x)
<1>1. /\ v \in Seq(P) /\ v # << >> /\ Distinct(v)
      /\ \A y : Among(v, y) <=> Among(l.waiting, y) \/ y = x
  BY AppendLine DEF Sound, Layer, InLine
<1>2. k = [l EXCEPT !.waiting = v]
  BY DEF TurnAway
<1> HIDE DEF v
<1>3. k.state = l.state /\ k.peer = l.peer /\ k.waiting = v
  BY <1>2 DEF Sound, Layer
<1>4. k \in Layer(P)
  BY <1>1, <1>2 DEF Sound, Layer
<1>5. \A s \in P : InLine(k, s) <=> InLine(l, s) \/ s = x
  BY <1>1, <1>3 DEF InLine
<1>6. Sound(k, P)
  BY <1>1, <1>3, <1>4 DEF Sound, InLine, Occupied
<1> QED BY <1>3, <1>5, <1>6

LEMMA FailedTimingSound ==
  ASSUME NEW P, P \subseteq Nat, NEW l, Sound(l, P), l.peer = NoPort, NEW x \in P, ~InLine(l, x)
  PROVE  LET k == FailedTiming(l, x)
         IN  /\ Sound(k, P) /\ k.state = "BUSY" /\ k.peer = x
             /\ \A s \in P : InLine(k, s) <=> InLine(l, s) \/ s = x
<1> DEFINE k == FailedTiming(l, x)
<1>1. k.state = "BUSY" /\ k.peer = x /\ k.waiting = l.waiting /\ k \in Layer(P)
  BY DEF FailedTiming, Sound, Layer
<1>2. NoPort \notin P
  BY DEF NoPort
<1>3. Sound(k, P)
  BY <1>1 DEF Sound, InLine
<1>4. \A s \in P : InLine(k, s) <=> InLine(l, s) \/ s = x
  BY <1>1, <1>2 DEF InLine
<1> QED BY <1>1, <1>3, <1>4

\* The port that failed at the peer becomes the first in line.
LEMMA RecvRetryFirst ==
  ASSUME NEW P, P \subseteq Nat, NEW l, Sound(l, P), l.peer # NoPort
  PROVE  LET k == RecvRetry(l)
         IN  /\ k \in Layer(P) /\ Distinct(k.waiting) /\ ~Among(k.waiting, k.peer)
             /\ k.waiting # << >> /\ k.peer = NoPort /\ k.state = l.state
             /\ Head(k.waiting) = l.peer /\ Tail(k.waiting) = l.waiting
             /\ SameLine(k, l, P)
<1> DEFINE k == RecvRetry(l)
           v == <<l.peer>> \o l.waiting
<1>0. l.peer \in P /\ l.waiting \in Seq(P) /\ NoPort \notin P /\ l \in Layer(P)
  BY DEF Sound, Layer, NoPort
<1>1. /\ v \in Seq(P) /\ v # << >> /\ Distinct(v) /\ Head(v) = l.peer /\ Tail(v) = l.waiting
      /\ \A y : Among(v, y) <=> Among(l.waiting, y) \/ y = l.peer
  BY <1>0, PushLine DEF Sound
<1>2. k = [l EXCEPT !.waiting = v, !.peer = NoPort]
  BY DEF RecvRetry
<1> HIDE DEF v
<1>3. k.state = l.state /\ k.peer = NoPort /\ k.waiting = v
  BY <1>0, <1>2 DEF Layer
<1>4. k \in Layer(P)
  BY <1>0, <1>1, <1>2 DEF Layer
<1>5. ~Among(v, NoPort)
  BY <1>0, <1>1 DEF Among
<1>6. SameLine(k, l, P)
  BY <1>0, <1>1, <1>3 DEF SameLine, InLine
<1> QED BY <1>1, <1>3, <1>4, <1>5, <1>6

\* The first in line is told to retry.
LEMMA RetryFirstSound ==
  ASSUME NEW P, P \subseteq Nat, NEW l \in Layer(P), Distinct(l.waiting), l.waiting # << >>,
         l.peer = NoPort
  PROVE  LET k == RetryFirst(l)
         IN  /\ Sound(k, P) /\ k.state = "RETRY" /\ k.peer = NoPort /\ k.waiting = Tail(l.waiting)
             /\ Head(l.waiting) \in P /\ InLine(l, Head(l.waiting))
             /\ \A s \in P : InLine(k, s) <=> InLine(l, s) /\ s # Head(l.waiting)
<1> DEFINE k == RetryFirst(l)
           v == Tail(l.waiting)
           h == Head(l.waiting)
<1>0. l.waiting \in Seq(P) /\ NoPort \notin P
  BY DEF Layer, NoPort
<1>1. /\ h \in P /\ Among(l.waiting, h) /\ v \in Seq(P) /\ Distinct(v)
      /\ \A y : Among(v, y) <=> Among(l.waiting, y) /\ y # h
  BY <1>0, TailLine
<1>2. k = [l EXCEPT !.state = "RETRY", !.waiting = v]
  BY DEF RetryFirst
<1> HIDE DEF v, h
<1>3. k.state = "RETRY" /\ k.peer = NoPort /\ k.waiting = v
  BY <1>2 DEF Layer
<1>4. k \in Layer(P)
  BY <1>1, <1>2 DEF Layer
<1>5. ~Among(v, NoPort)
  BY <1>0, <1>1 DEF Among
<1>6. Sound(k, P)
  BY <1>1, <1>3, <1>4, <1>5 DEF Sound
<1>7. \A s \in P : InLine(k, s) <=> InLine(l, s) /\ s # h
  BY <1>0, <1>1, <1>3 DEF InLine
<1> QED BY <1>1, <1>3, <1>6, <1>7 DEF InLine, v, h

-----------------------------------------------------------------------------
(* Who waits where.                                                        *)

OuterPorts == SysPorts \cup {TagId}

Lines ==
    /\ Sound(inner, CpuPorts)
    /\ layers \in [MasterPorts -> Layer(OuterPorts)]
    /\ \A d \in MasterPorts : Sound(layers[d], OuterPorts)

\* A port of PARDSystemXBar is in line at one layer, and TagXBar exactly while
\* a request of its crossbar was refused outside.
OnePlace == \A s \in OuterPorts, d, e \in MasterPorts :
    InLine(layers[d], s) /\ InLine(layers[e], s) => d = e
TagOutside == inner.peer # NoPort <=> \E d \in MasterPorts : InLine(layers[d], TagId)

Turns ==
    /\ turn \in Masters \cup {NoMaster}
    /\ inner.state = "RETRY" <=> turn[1] = "cpu"
    /\ \A d \in MasterPorts : layers[d].state = "RETRY" => turn # NoMaster

\* A master holds one refused request exactly while it is in line or has its
\* turn, never both.
InPlace(m) ==
    IF IsCpu(m) THEN InLine(inner, m[2]) ELSE \E d \in MasterPorts : InLine(layers[d], m[2])
Waiters == \A m \in Masters :
    /\ Holds(m) # {} <=> turn = m \/ InPlace(m)
    /\ turn = m => ~InPlace(m)
    /\ \A r, s \in Holds(m) : r = s

\* It waits at the layer that its request is for, and a layer that is kept for
\* a retry is kept for the request that will be sent.
Aimed == \A m \in Masters : \A r \in Holds(m) :
    /\ req[r].addr \in Addrs
    /\ \A d \in MasterPorts :
         \/ turn = m /\ layers[d].state = "RETRY"
         \/ ~IsCpu(m) /\ InLine(layers[d], m[2])
         \/ IsCpu(m) /\ inner.peer = m[2] /\ InLine(layers[d], TagId)
         => Destination(req[r].addr) = d

Queues == Lines /\ OnePlace /\ TagOutside /\ Turns /\ Waiters /\ Aimed
QInv == died = "no" => Queues

LEMMA Ports ==
  /\ CpuPorts \subseteq Nat /\ OuterPorts \subseteq Nat /\ TagId \in OuterPorts /\ TagId \notin SysPorts
  /\ NoPort \notin Nat /\ NoMaster \notin Masters /\ NoMaster[1] = "none"
  /\ \A m \in Masters : IF IsCpu(m) THEN m[2] \in CpuPorts ELSE m[2] \in SysPorts
  /\ \A m \in Masters : SlaveId(m) \in OuterPorts
  /\ \A m, n \in Masters : (IsCpu(m) <=> IsCpu(n)) /\ m[2] = n[2] => m = n
<1>1. \A m \in Masters : \/ IsCpu(m) /\ m[2] \in CpuPorts /\ m = <<"cpu", m[2]>>
                         \/ ~IsCpu(m) /\ m[2] \in SysPorts /\ m = <<"sys", m[2]>>
  BY DEF Masters, IsCpu
<1>2. NoPort \notin Nat /\ NoMaster[1] = "none"
  BY DEF NoPort, NoMaster
<1>3. NoMaster \notin Masters
  BY <1>1, <1>2, FabricAssumption DEF NoMaster
<1>4. \A m, n \in Masters : (IsCpu(m) <=> IsCpu(n)) /\ m[2] = n[2] => m = n
  BY <1>1, Zenon
<1> QED BY <1>1, <1>2, <1>3, <1>4, FabricAssumption DEF OuterPorts, SlaveId

LEMMA InitQueues == Init => QInv
<1> SUFFICES ASSUME Init PROVE Queues
  BY DEF QInv
<1>1. /\ inner = Idle /\ layers = [d \in MasterPorts |-> Idle] /\ turn = NoMaster
      /\ \A m \in Masters : Holds(m) = {}
  BY DEF Init, Holds, Free
<1>2. /\ Idle.state = "IDLE" /\ Idle.waiting = << >> /\ Idle.peer = NoPort
      /\ \A P : Idle \in Layer(P)
  BY DEF Idle, Layer
<1>3. \A x : ~Among(<< >>, x)
  BY DEF Among
<1>4. \A P : Sound(Idle, P)
  BY <1>2, <1>3 DEF Sound, Distinct
<1>5. \A s \in Nat : ~InLine(Idle, s)
  BY <1>2, <1>3, Ports DEF InLine
<1> HIDE DEF Idle
<1>6. Lines
  BY <1>1, <1>2, <1>4 DEF Lines
<1>7. OnePlace /\ TagOutside
  BY <1>1, <1>2, <1>5, Ports DEF OnePlace, TagOutside
<1>8. Turns
  BY <1>1, <1>2, Ports DEF Turns
<1>9. Waiters
  BY <1>1, <1>5, Ports DEF Waiters, InPlace, OuterPorts
<1>10. Aimed
  BY <1>1 DEF Aimed
<1> QED BY <1>6, <1>7, <1>8, <1>9, <1>10 DEF Queues

-----------------------------------------------------------------------------
(* A layer tells the first in line to retry.                               *)

LEMMA RetryKeeps ==
  ASSUME Queues, turn = NoMaster, NEW d \in MasterPorts, NEW l \in Layer(OuterPorts),
         Distinct(l.waiting), l.waiting # << >>, l.state = "IDLE", l.peer = NoPort,
         SameLine(l, layers[d], OuterPorts), RetryWaiting(d, l), req' = req
  PROVE  Queues'
<1> DEFINE h == Head(l.waiting)
           n == RetryFirst(l)
<1>1. /\ Sound(n, OuterPorts) /\ n.state = "RETRY" /\ h \in OuterPorts /\ InLine(layers[d], h)
      /\ \A s \in OuterPorts : InLine(n, s) <=> InLine(layers[d], s) /\ s # h
  BY RetryFirstSound, Ports DEF SameLine
<1>2. /\ Sound(Occupy(n), OuterPorts) /\ Occupy(n).state = "BUSY"
      /\ \A s \in OuterPorts : InLine(Occupy(n), s) <=> InLine(layers[d], s) /\ s # h
  BY <1>1, OccupySound DEF SameLine
<1>3. /\ layers \in [MasterPorts -> Layer(OuterPorts)] /\ Sound(inner, CpuPorts)
      /\ \A e \in MasterPorts : Sound(layers[e], OuterPorts) /\ layers[e].state # "RETRY"
      /\ \A e \in MasterPorts : InLine(layers[e], h) => e = d
      /\ inner.state # "RETRY"
  BY <1>1, Ports DEF Queues, Lines, OnePlace, Turns
<1>4. layers' = [layers EXCEPT ![d] = n] \/ layers' = [layers EXCEPT ![d] = Occupy(n)]
  BY DEF RetryWaiting
<1> HIDE DEF h, n
<1>5. /\ layers' \in [MasterPorts -> Layer(OuterPorts)]
      /\ \A e \in MasterPorts : Sound(layers'[e], OuterPorts)
      /\ \A e \in MasterPorts, s \in OuterPorts : InLine(layers'[e], s) <=> InLine(layers[e], s) /\ s # h
      /\ \A e \in MasterPorts : layers'[e].state = "RETRY" => e = d
  <2>1. n \in Layer(OuterPorts) /\ Occupy(n) \in Layer(OuterPorts)
    BY <1>1, <1>2 DEF Sound
  <2>2. layers'[d] \in {n, Occupy(n)} /\ \A e \in MasterPorts : e # d => layers'[e] = layers[e]
    BY <1>3, <1>4
  <2>3. layers' \in [MasterPorts -> Layer(OuterPorts)]
    BY <1>3, <1>4, <2>1
  <2>4. \A e \in MasterPorts : Sound(layers'[e], OuterPorts)
    BY <1>1, <1>2, <1>3, <2>2
  <2>5. ASSUME NEW e \in MasterPorts, NEW s \in OuterPorts
        PROVE  InLine(layers'[e], s) <=> InLine(layers[e], s) /\ s # h
    BY <1>1, <1>2, <1>3, <2>2
  <2>6. \A e \in MasterPorts : layers'[e].state = "RETRY" => e = d
    BY <1>3, <2>2
  <2> QED BY <2>3, <2>4, <2>5, <2>6
<1>6. OnePlace'
  BY <1>5 DEF Queues, OnePlace
<1>7. \A m \in Masters : Holds(m)' = Holds(m)
  BY DEF Holds
<1>8. CASE h # TagId
  <2>1. /\ turn' = <<"sys", h>> /\ inner' = inner /\ h \in SysPorts /\ turn' \in Masters
        /\ ~IsCpu(turn') /\ turn'[2] = h
    BY <1>1, <1>8 DEF RetryWaiting, h, OuterPorts, Masters, IsCpu
  <2>2. Lines'
    BY <1>3, <1>5, <2>1 DEF Lines
  <2>3. TagOutside'
    BY <1>5, <1>8, <2>1, Ports DEF Queues, TagOutside
  <2>4. Turns'
    BY <1>3, <2>1, Ports DEF Turns
  <2>5. Waiters'
    <3> SUFFICES ASSUME NEW m \in Masters
                 PROVE  (Holds(m) # {} <=> turn' = m \/ InPlace(m)') /\ (turn' = m => ~InPlace(m)')
      BY <1>7 DEF Queues, Waiters
    <3>1. Holds(m) # {} <=> InPlace(m)
      BY Ports DEF Queues, Waiters
    <3>2. CASE IsCpu(m)
      BY <2>1, <3>1, <3>2 DEF InPlace
    <3>3. CASE ~IsCpu(m)
      <4>1. m[2] \in OuterPorts /\ (turn' = m <=> m[2] = h)
        BY <2>1, <3>3, Ports DEF OuterPorts
      <4>2. InPlace(m)' <=> InPlace(m) /\ m[2] # h
        BY <1>5, <3>3, <4>1 DEF InPlace
      <4>3. m[2] = h => InPlace(m)
        BY <1>1, <3>3 DEF InPlace
      <4> QED BY <3>1, <4>1, <4>2, <4>3
    <3> QED BY <3>2, <3>3
  <2>6. Aimed'
    <3> SUFFICES ASSUME NEW m \in Masters, NEW r \in Holds(m), NEW e \in MasterPorts,
                        \/ turn' = m /\ layers'[e].state = "RETRY"
                        \/ ~IsCpu(m) /\ InLine(layers'[e], m[2])
                        \/ IsCpu(m) /\ inner'.peer = m[2] /\ InLine(layers'[e], TagId)
                 PROVE  Destination(req[r].addr) = e
      BY <1>7 DEF Queues, Aimed
    <3>1. CASE turn' = m /\ layers'[e].state = "RETRY"
      BY <1>1, <1>5, <2>1, <3>1 DEF Queues, Aimed
    <3>2. CASE ~IsCpu(m) /\ InLine(layers'[e], m[2])
      BY <1>5, <3>2, Ports DEF Queues, Aimed, OuterPorts
    <3>3. CASE IsCpu(m) /\ inner'.peer = m[2] /\ InLine(layers'[e], TagId)
      BY <1>5, <2>1, <3>3, Ports DEF Queues, Aimed
    <3> QED BY <3>1, <3>2, <3>3
  <2> QED BY <1>6, <2>2, <2>3, <2>4, <2>5, <2>6 DEF Queues
<1>9. CASE h = TagId
  <2> DEFINE c == inner.peer
             k == RecvRetry(inner)
             kk == RetryFirst(k)
  <2>1. inner.peer # NoPort /\ c \in CpuPorts /\ <<"cpu", c>> \in Masters
    BY <1>1, <1>3, <1>9 DEF Queues, TagOutside, Sound, Layer, Masters
  <2>2. /\ k \in Layer(CpuPorts) /\ Distinct(k.waiting) /\ k.waiting # << >> /\ k.peer = NoPort
        /\ ~Among(k.waiting, k.peer) /\ k.state = inner.state /\ Head(k.waiting) = c
        /\ SameLine(k, inner, CpuPorts)
    BY <1>3, <2>1, RecvRetryFirst, Ports
  <2>3. /\ Sound(kk, CpuPorts) /\ kk.state = "RETRY" /\ kk.peer = NoPort
        /\ \A s \in CpuPorts : InLine(kk, s) <=> InLine(inner, s) /\ s # c
    <3> HIDE DEF k, c
    <3>1. /\ Sound(kk, CpuPorts) /\ kk.state = "RETRY" /\ kk.peer = NoPort
          /\ \A s \in CpuPorts : InLine(kk, s) <=> InLine(k, s) /\ s # Head(k.waiting)
      BY <2>2, RetryFirstSound, Ports
    <3> QED BY <2>2, <3>1 DEF SameLine
  <2>4. CanRetry(k)
    BY <2>2 DEF CanRetry
  <2>5. IF inner.state = "IDLE"
        THEN inner' = kk /\ turn' = <<"cpu", c>>
        ELSE inner' = k /\ turn' = NoMaster /\ layers' = [layers EXCEPT ![d] = Occupy(n)]
    BY <1>9, <2>2, <2>4 DEF RetryWaiting, h, n, TagRecvRetry
  <2>6. inner'.peer = NoPort /\ Sound(inner', CpuPorts)
    BY <1>3, <2>2, <2>3, <2>5 DEF Sound
  <2>7. \A s \in CpuPorts : InLine(inner', s) <=> InLine(inner, s) /\ (turn' = <<"cpu", c>> => s # c)
    BY <2>2, <2>3, <2>5, Ports DEF SameLine
  <2>8. /\ turn' \in {NoMaster, <<"cpu", c>>} /\ (inner'.state = "RETRY" <=> turn' = <<"cpu", c>>)
        /\ turn' = NoMaster => \A e \in MasterPorts : layers'[e].state # "RETRY"
    <3>1. <<"cpu", c>> # NoMaster
      BY <2>1, Ports
    <3>2. layers' = [layers EXCEPT ![d] = Occupy(n)] => \A e \in MasterPorts : layers'[e].state # "RETRY"
      BY <1>2, <1>3
    <3> QED BY <1>3, <2>2, <2>3, <2>5, <3>1, <3>2
  <2>9. <<"cpu", c>>[1] = "cpu" /\ <<"cpu", c>>[2] = c /\ IsCpu(<<"cpu", c>>)
    BY DEF IsCpu
  <2> HIDE DEF c, k, kk
  <2>10. Lines'
    BY <1>5, <2>6 DEF Lines
  <2>11. TagOutside'
    BY <1>5, <1>9, <2>6, Ports DEF TagOutside
  <2>12. Turns'
    BY <2>1, <2>8, <2>9, Ports DEF Turns
  <2>13. Waiters'
    <3> SUFFICES ASSUME NEW m \in Masters
                 PROVE  (Holds(m) # {} <=> turn' = m \/ InPlace(m)') /\ (turn' = m => ~InPlace(m)')
      BY <1>7 DEF Queues, Waiters
    <3>1. Holds(m) # {} <=> InPlace(m)
      BY Ports DEF Queues, Waiters
    <3>2. CASE IsCpu(m)
      <4>1. m[2] \in CpuPorts /\ (m = <<"cpu", c>> <=> m[2] = c)
        BY <2>1, <2>9, <3>2, Ports
      <4>2. InPlace(m)' <=> InPlace(m) /\ (turn' = <<"cpu", c>> => m[2] # c)
        BY <2>7, <3>2, <4>1 DEF InPlace
      <4>3. m[2] = c => InPlace(m)
        BY <3>2 DEF InPlace, InLine, c
      <4>4. turn' = m => turn' = <<"cpu", c>>
        BY <2>8, Ports
      <4> QED BY <3>1, <4>1, <4>2, <4>3, <4>4
    <3>3. CASE ~IsCpu(m)
      <4>1. m[2] \in SysPorts /\ m[2] # h /\ turn' # m
        BY <1>9, <2>8, <2>9, <3>3, Ports
      <4>2. InPlace(m)' <=> InPlace(m)
        BY <1>5, <3>3, <4>1 DEF InPlace, OuterPorts
      <4> QED BY <3>1, <4>1, <4>2
    <3> QED BY <3>2, <3>3
  <2>14. Aimed'
    <3> SUFFICES ASSUME NEW m \in Masters, NEW r \in Holds(m), NEW e \in MasterPorts,
                        \/ turn' = m /\ layers'[e].state = "RETRY"
                        \/ ~IsCpu(m) /\ InLine(layers'[e], m[2])
                        \/ IsCpu(m) /\ inner'.peer = m[2] /\ InLine(layers'[e], TagId)
                 PROVE  Destination(req[r].addr) = e
      BY <1>7 DEF Queues, Aimed
    <3>1. CASE turn' = m /\ layers'[e].state = "RETRY"
      <4>1. m = <<"cpu", c>> /\ e = d /\ InLine(layers[d], TagId)
        BY <1>1, <1>5, <1>9, <2>8, <3>1, Ports
      <4> QED BY <2>9, <4>1 DEF Queues, Aimed, c
    <3>2. CASE ~IsCpu(m) /\ InLine(layers'[e], m[2])
      BY <1>5, <3>2, Ports DEF Queues, Aimed, OuterPorts
    <3>3. ~(IsCpu(m) /\ inner'.peer = m[2])
      BY <2>6, Ports
    <3> QED BY <3>1, <3>2, <3>3
  <2> QED BY <1>6, <2>10, <2>11, <2>12, <2>13, <2>14 DEF Queues
<1> QED BY <1>8, <1>9

\* A step of the layer of d that leaves its line alone.
LEMMA LineStays ==
  ASSUME Queues, turn = NoMaster, NEW d \in MasterPorts, NEW l, Sound(l, OuterPorts),
         l.state # "RETRY", SameLine(l, layers[d], OuterPorts),
         layers' = [layers EXCEPT ![d] = l], UNCHANGED <<inner, turn, req>>
  PROVE  Queues'
<1>1. /\ layers' \in [MasterPorts -> Layer(OuterPorts)]
      /\ \A e \in MasterPorts : Sound(layers'[e], OuterPorts) /\ layers'[e].state # "RETRY"
      /\ \A e \in MasterPorts, s \in OuterPorts : InLine(layers'[e], s) <=> InLine(layers[e], s)
  <2>1. l \in Layer(OuterPorts) /\ layers \in [MasterPorts -> Layer(OuterPorts)]
    BY DEF Queues, Lines, Sound
  <2>2. \A e \in MasterPorts : layers'[e] = IF e = d THEN l ELSE layers[e]
    BY <2>1
  <2>3. layers' \in [MasterPorts -> Layer(OuterPorts)]
    BY <2>1
  <2> QED BY <2>2, <2>3 DEF Queues, Lines, Turns, SameLine
<1>2. \A m \in Masters : Holds(m)' = Holds(m)
  BY DEF Holds
<1>3. Lines' /\ OnePlace' /\ Turns'
  BY <1>1 DEF Queues, Lines, OnePlace, Turns
<1>4. TagOutside'
  BY <1>1, Ports DEF Queues, TagOutside
<1>5. \A m \in Masters : InPlace(m)' <=> InPlace(m)
  BY <1>1, Ports DEF InPlace, OuterPorts
<1>6. Waiters'
  BY <1>2, <1>5 DEF Queues, Waiters
<1>7. Aimed'
  BY <1>1, <1>2, Ports DEF Queues, Aimed, OuterPorts
<1> QED BY <1>3, <1>4, <1>6, <1>7 DEF Queues

LEMMA ReleaseLayerKeeps ==
  ASSUME Queues, NEW d \in MasterPorts, ReleaseLayer(d)
  PROVE  Queues'
<1> DEFINE l == [layers[d] EXCEPT !.state = "IDLE"]
<1>1. Sound(layers[d], OuterPorts) /\ turn = NoMaster /\ req' = req
  BY DEF Queues, Lines, ReleaseLayer, Running
<1>2. /\ l \in Layer(OuterPorts) /\ l.state = "IDLE"
      /\ l.waiting = layers[d].waiting /\ l.peer = layers[d].peer
  BY <1>1 DEF Sound, Layer
<1>3. Distinct(l.waiting) /\ ~Among(l.waiting, l.peer) /\ SameLine(l, layers[d], OuterPorts)
  BY <1>1, <1>2 DEF Sound, SameLine, InLine
<1>4. IF CanRetry(l) THEN RetryWaiting(d, l)
      ELSE layers' = [layers EXCEPT ![d] = l] /\ UNCHANGED <<inner, turn>>
  BY DEF ReleaseLayer
<1> HIDE DEF l
<1>5. CASE CanRetry(l)
  BY <1>1, <1>2, <1>3, <1>4, <1>5, RetryKeeps DEF CanRetry
<1>6. CASE ~CanRetry(l)
  <2>1. Sound(l, OuterPorts)
    BY <1>2, <1>3, <1>6 DEF Sound, CanRetry
  <2> QED BY <1>1, <1>2, <1>3, <1>4, <1>6, <2>1, LineStays
<1> QED BY <1>5, <1>6

LEMMA PeerRetryKeeps ==
  ASSUME Queues, NEW d \in MasterPorts, PeerRetry(d)
  PROVE  Queues'
<1> DEFINE l == RecvRetry(layers[d])
<1>1. /\ Sound(layers[d], OuterPorts) /\ turn = NoMaster /\ req' = req
      /\ layers[d].state # "RETRY" /\ layers[d].peer # NoPort
  BY DEF Queues, Lines, Turns, PeerRetry, Running
<1>2. /\ l \in Layer(OuterPorts) /\ Distinct(l.waiting) /\ ~Among(l.waiting, l.peer)
      /\ l.waiting # << >> /\ l.peer = NoPort /\ l.state = layers[d].state
      /\ SameLine(l, layers[d], OuterPorts)
  BY <1>1, RecvRetryFirst, Ports
<1>3. IF l.state = "IDLE" THEN RetryWaiting(d, l)
      ELSE layers' = [layers EXCEPT ![d] = l] /\ UNCHANGED <<inner, turn>>
  BY DEF PeerRetry
<1> HIDE DEF l
<1>4. CASE l.state = "IDLE"
  BY <1>1, <1>2, <1>3, <1>4, RetryKeeps
<1>5. CASE l.state # "IDLE"
  <2>1. Sound(l, OuterPorts)
    BY <1>1, <1>2, <1>5 DEF Sound
  <2> QED BY <1>1, <1>2, <1>3, <1>5, <2>1, LineStays
<1> QED BY <1>4, <1>5

LEMMA ReleaseInnerKeeps ==
  ASSUME Queues, ReleaseInner
  PROVE  Queues'
<1> DEFINE l == [inner EXCEPT !.state = "IDLE"]
           h == Head(l.waiting)
<1>1. /\ Sound(inner, CpuPorts) /\ turn = NoMaster /\ UNCHANGED <<req, layers>>
      /\ \A d \in MasterPorts : layers[d].state # "RETRY"
  BY DEF Queues, Lines, Turns, ReleaseInner, Running
<1>2. /\ l \in Layer(CpuPorts) /\ l.state = "IDLE"
      /\ l.waiting = inner.waiting /\ l.peer = inner.peer
  BY <1>1 DEF Sound, Layer
<1>3. /\ Distinct(l.waiting) /\ ~Among(l.waiting, l.peer)
      /\ \A s : InLine(l, s) <=> InLine(inner, s)
  BY <1>1, <1>2 DEF Sound, InLine
<1>4. IF CanRetry(l) THEN inner' = RetryFirst(l) /\ turn' = <<"cpu", h>>
      ELSE inner' = l /\ turn' = turn
  BY DEF ReleaseInner
<1> HIDE DEF l
<1>5. \A m \in Masters : Holds(m)' = Holds(m)
  BY <1>1 DEF Holds
<1>6. OnePlace'
  BY <1>1 DEF Queues, OnePlace
<1>7. CASE CanRetry(l)
  <2>1. /\ Sound(inner', CpuPorts) /\ inner'.state = "RETRY" /\ inner'.peer = NoPort
        /\ h \in CpuPorts /\ InLine(inner, h) /\ inner.peer = NoPort
        /\ \A s \in CpuPorts : InLine(inner', s) <=> InLine(inner, s) /\ s # h
    BY <1>2, <1>3, <1>4, <1>7, RetryFirstSound, Ports DEF CanRetry
  <2> HIDE DEF h
  <2>2. /\ turn' = <<"cpu", h>> /\ turn' \in Masters /\ IsCpu(turn') /\ turn'[2] = h
        /\ turn'[1] = "cpu"
    BY <1>4, <1>7, <2>1 DEF Masters, IsCpu
  <2>3. Lines' /\ TagOutside' /\ Turns'
    BY <1>1, <2>1, <2>2, Ports DEF Queues, Lines, TagOutside, Turns
  <2>4. Waiters'
    <3> SUFFICES ASSUME NEW m \in Masters
                 PROVE  (Holds(m) # {} <=> turn' = m \/ InPlace(m)') /\ (turn' = m => ~InPlace(m)')
      BY <1>5 DEF Queues, Waiters
    <3>1. Holds(m) # {} <=> InPlace(m)
      BY <1>1, Ports DEF Queues, Waiters
    <3>2. CASE IsCpu(m)
      <4>1. m[2] \in CpuPorts /\ (turn' = m <=> m[2] = h)
        BY <2>2, <3>2, Ports
      <4>2. InPlace(m)' <=> InPlace(m) /\ m[2] # h
        BY <2>1, <3>2, <4>1 DEF InPlace
      <4>3. m[2] = h => InPlace(m)
        BY <2>1, <3>2 DEF InPlace
      <4> QED BY <3>1, <4>1, <4>2, <4>3
    <3>3. CASE ~IsCpu(m)
      BY <1>1, <2>2, <3>1, <3>3 DEF InPlace
    <3> QED BY <3>2, <3>3
  <2>5. Aimed'
    BY <1>1, <1>5, <2>1, Ports DEF Queues, Aimed
  <2> QED BY <1>6, <2>3, <2>4, <2>5 DEF Queues
<1>8. CASE ~CanRetry(l)
  <2>1. /\ inner' = l /\ turn' = NoMaster /\ inner'.peer = inner.peer /\ inner'.state = "IDLE"
        /\ Sound(inner', CpuPorts)
    BY <1>1, <1>2, <1>3, <1>4, <1>8 DEF Sound, CanRetry
  <2>2. Lines' /\ TagOutside' /\ Turns'
    BY <1>1, <2>1, Ports DEF Queues, Lines, TagOutside, Turns
  <2>3. \A m \in Masters : InPlace(m)' <=> InPlace(m)
    BY <1>1, <1>3, <2>1 DEF InPlace
  <2>4. Waiters'
    BY <1>1, <1>5, <2>1, <2>3 DEF Queues, Waiters
  <2>5. Aimed'
    BY <1>1, <1>5, <2>1 DEF Queues, Aimed
  <2> QED BY <1>6, <2>2, <2>4, <2>5 DEF Queues
<1> QED BY <1>7, <1>8

-----------------------------------------------------------------------------
(* A master sends.                                                         *)

\* Master m may send packet q of request r: it is not in line, holds no other
\* request, and no layer but the one q is for is kept for a retry.
Ready(m, r, q) ==
    /\ req[r].place = "free" \/ r \in Holds(m)
    /\ \A s \in Holds(m) : s = r
    /\ ~InPlace(m) /\ turn \in {NoMaster, m}
    /\ q.master = m /\ q.addr \in Addrs
    /\ \A d \in MasterPorts : layers[d].state = "RETRY" => d = Destination(q.addr)

\* The requests that masters hold once r has packet p.
LEMMA HoldsAfter ==
  ASSUME NEW m \in Masters, NEW r \in Requests, NEW p \in Packet, NEW q,
         req \in [Requests -> Packet], Ready(m, r, q),
         req' = [req EXCEPT ![r] = p], p.place = "held" => p.master = m
  PROVE  /\ Holds(m)' = IF p.place = "held" THEN {r} ELSE {}
         /\ req'[r] = p
         /\ \A n \in Masters : n # m => /\ Holds(n)' = Holds(n)
                                        /\ \A s \in Holds(n) : req'[s] = req[s]
<1>1. \A s \in Requests : req'[s] = IF s = r THEN p ELSE req[s]
  OBVIOUS
<1>2. \A n \in Masters : Holds(n)' = {s \in Requests : req'[s].place = "held" /\ req'[s].master = n}
  BY DEF Holds
<1>3. \A n \in Masters : n # m => r \notin Holds(n)
  BY DEF Ready, Holds
<1> QED BY <1>1, <1>2, <1>3 DEF Ready, Holds

\* The layer of d, alone, becomes l; x gets in line there if d is in O.
LayerStep(d, l, O, x) ==
    /\ Sound(l, OuterPorts) /\ l.state # "RETRY" /\ layers' = [layers EXCEPT ![d] = l]
    /\ \A e \in MasterPorts : layers[e].state = "RETRY" => e = d
    /\ \A e \in O : e = d
    /\ \A s \in OuterPorts : InLine(l, s) <=> InLine(layers[d], s) \/ (d \in O /\ s = x)

LEMMA OneLayer ==
  ASSUME Queues, NEW d \in MasterPorts, NEW l, NEW O, NEW x \in OuterPorts, LayerStep(d, l, O, x)
  PROVE  /\ layers' \in [MasterPorts -> Layer(OuterPorts)]
         /\ \A e \in MasterPorts : Sound(layers'[e], OuterPorts) /\ layers'[e].state # "RETRY"
         /\ \A e \in MasterPorts, s \in OuterPorts :
               InLine(layers'[e], s) <=> InLine(layers[e], s) \/ (e \in O /\ s = x)
<1>1. l \in Layer(OuterPorts) /\ layers \in [MasterPorts -> Layer(OuterPorts)]
  BY DEF Queues, Lines, Sound, LayerStep
<1>2. \A e \in MasterPorts : layers'[e] = IF e = d THEN l ELSE layers[e]
  BY <1>1 DEF LayerStep
<1>3. layers' \in [MasterPorts -> Layer(OuterPorts)]
  BY <1>1 DEF LayerStep
<1> QED BY <1>2, <1>3 DEF Queues, Lines, LayerStep

\* m's request r becomes p, held or not, and if held, m got in line at the layer
\* of d (then d is in O) or, a CPU's port, only inside TagXBar.
SendStep(m, r, p, q, d, O) ==
    /\ p \in Packet /\ req' = [req EXCEPT ![r] = p]
    /\ p.place = "held" => p.master = m /\ p.addr = q.addr
    /\ d \in MasterPorts /\ d = Destination(q.addr) /\ turn' = NoMaster
    /\ Lines' /\ inner'.state # "RETRY" /\ \A e \in MasterPorts : layers'[e].state # "RETRY"
    /\ \A e \in O : e = d
    /\ d \in O => p.place = "held" /\ \A e \in MasterPorts : ~InLine(layers[e], SlaveId(m))
    /\ \A e \in MasterPorts, s \in OuterPorts :
          InLine(layers'[e], s) <=> InLine(layers[e], s) \/ (e \in O /\ s = SlaveId(m))
    /\ \A s \in CpuPorts :
          InLine(inner', s) <=> InLine(inner, s) \/ (IsCpu(m) /\ p.place = "held" /\ s = m[2])
    /\ ~IsCpu(m) /\ p.place = "held" => d \in O
    /\ inner'.peer = IF IsCpu(m) /\ d \in O THEN m[2] ELSE inner.peer

LEMMA SendQueues ==
  ASSUME Queues, NEW m \in Masters, NEW r \in Requests, NEW p, NEW q, NEW d, NEW O,
         req \in [Requests -> Packet], Ready(m, r, q), SendStep(m, r, p, q, d, O)
  PROVE  Queues'
<1> USE DEF SendStep
<1> DEFINE held == p.place = "held"
           outside == d \in O
<1>0. \A e \in MasterPorts, s \in OuterPorts :
         InLine(layers'[e], s) <=> InLine(layers[e], s) \/ (outside /\ e = d /\ s = SlaveId(m))
  OBVIOUS
<1> USE <1>0
<1>1. /\ Holds(m)' = IF held THEN {r} ELSE {}
      /\ held => req'[r].addr = q.addr
      /\ \A n \in Masters : n # m => /\ Holds(n)' = Holds(n)
                                     /\ \A s \in Holds(n) : req'[s] = req[s]
  <2>1. /\ Holds(m)' = IF p.place = "held" THEN {r} ELSE {}
        /\ req'[r] = p
        /\ \A n \in Masters : n # m => /\ Holds(n)' = Holds(n)
                                       /\ \A s \in Holds(n) : req'[s] = req[s]
    <3>1. p \in Packet /\ req' = [req EXCEPT ![r] = p] /\ (p.place = "held" => p.master = m)
      OBVIOUS
    <3>2. req \in [Requests -> Packet] /\ Ready(m, r, q)
      OBVIOUS
    <3> QED BY ONLY <3>1, <3>2, HoldsAfter
  <2> QED BY <2>1
<1>2. OnePlace'
  BY DEF Queues, OnePlace
<1>3. TagOutside'
  <2>1. CASE IsCpu(m)
    <3>1. SlaveId(m) = TagId /\ m[2] # NoPort
      <4>1. m[2] \in CpuPorts
        BY ONLY <2>1, m \in Masters, Ports
      <4> QED BY ONLY <2>1, <4>1, Ports DEF SlaveId
    <3> QED BY <2>1, <3>1, Ports DEF Queues, TagOutside
  <2>2. CASE ~IsCpu(m)
    <3>1. SlaveId(m) # TagId
      BY <2>2, Ports DEF SlaveId
    <3> QED BY <2>2, <3>1, Ports DEF Queues, TagOutside
  <2> QED BY <2>1, <2>2
<1>4. Turns'
  BY Ports DEF Turns
<1>5. ASSUME NEW n \in Masters, n # m
      PROVE  (InPlace(n)' <=> InPlace(n)) /\ turn # n
             /\ (~IsCpu(n) => n[2] # SlaveId(m) /\ n[2] \in OuterPorts)
  <2>1. turn # n
    BY <1>5, Ports DEF Ready
  <2>2. CASE IsCpu(n)
    <3>1. n[2] \in CpuPorts /\ (IsCpu(m) => n[2] # m[2])
      BY <1>5, <2>2, Ports
    <3> QED BY <2>1, <2>2, <3>1 DEF InPlace
  <2>3. CASE ~IsCpu(n)
    <3>1. n[2] \in OuterPorts /\ n[2] # SlaveId(m)
      BY <1>5, <2>3, Ports DEF SlaveId, OuterPorts
    <3> QED BY <2>1, <2>3, <3>1 DEF InPlace
  <2> QED BY <2>2, <2>3
<1>6. InPlace(m)' <=> held
  <2>1. CASE IsCpu(m)
    BY <2>1, Ports DEF InPlace, Ready
  <2>2. CASE ~IsCpu(m)
    <3>1. SlaveId(m) = m[2] /\ m[2] \in OuterPorts
      BY <2>2, Ports DEF SlaveId
    <3> QED BY <2>2, <3>1 DEF InPlace, Ready
  <2> QED BY <2>1, <2>2
<1>7. Waiters'
  <2> SUFFICES ASSUME NEW n \in Masters
               PROVE  /\ Holds(n)' # {} <=> InPlace(n)'
                      /\ \A s, t \in Holds(n)' : s = t
    BY Ports DEF Waiters
  <2>1. CASE n = m
    BY <1>1, <1>6, <2>1
  <2>2. CASE n # m
    BY <1>1, <1>5, <2>2 DEF Queues, Waiters
  <2> QED BY <2>1, <2>2
<1>8. Aimed'
  <2> SUFFICES ASSUME NEW n \in Masters, NEW s \in Holds(n)', NEW e \in MasterPorts
               PROVE  /\ req'[s].addr \in Addrs
                      /\ (~IsCpu(n) /\ InLine(layers'[e], n[2])) => Destination(req'[s].addr) = e
                      /\ (IsCpu(n) /\ inner'.peer = n[2] /\ InLine(layers'[e], TagId))
                            => Destination(req'[s].addr) = e
    <3>1. ASSUME NEW n \in Masters, NEW s \in Holds(n)' PROVE req'[s].addr \in Addrs
      BY <1>1 DEF Queues, Aimed, Ready
    <3> QED BY <3>1 DEF Aimed
  <2>1. CASE n = m
    <3>1. s = r /\ held /\ req'[s].addr = q.addr /\ Destination(req'[s].addr) = d
      BY <1>1, <2>1
    <3>2. ASSUME ~IsCpu(m), InLine(layers'[e], m[2]) PROVE e = d
      <4>1. SlaveId(m) = m[2] /\ m[2] \in OuterPorts
        BY <3>2, Ports DEF SlaveId
      <4> QED BY <3>2, <4>1 DEF InPlace, Ready
    <3>3. ASSUME IsCpu(m), inner'.peer = m[2], InLine(layers'[e], TagId) PROVE e = d
      <4>1. SlaveId(m) = TagId /\ inner.peer # m[2]
        BY <3>3 DEF SlaveId, InPlace, InLine, Ready
      <4> QED BY <3>3, <4>1, Ports
    <3> QED BY <2>1, <3>1, <3>2, <3>3 DEF Ready
  <2>2. CASE n # m
    <3>1. s \in Holds(n) /\ req'[s] = req[s]
      BY <1>1, <2>2
    <3>2. req[s].addr \in Addrs
      BY <3>1 DEF Queues, Aimed
    <3>3. ASSUME ~IsCpu(n), InLine(layers'[e], n[2]) PROVE Destination(req[s].addr) = e
      BY <1>5, <2>2, <3>1, <3>3 DEF Queues, Aimed
    <3>4. ASSUME IsCpu(n), inner'.peer = n[2], InLine(layers'[e], TagId)
          PROVE  Destination(req[s].addr) = e
      <4>1. ~(IsCpu(m) /\ outside)
        BY <2>2, <3>4, Ports
      <4>2. ~IsCpu(m) => SlaveId(m) # TagId
        BY Ports DEF SlaveId
      <4>3. inner.peer = n[2] /\ InLine(layers[e], TagId)
        BY <3>4, <4>1, <4>2, Ports
      <4> QED BY <3>1, <3>4, <4>3 DEF Queues, Aimed
    <3> QED BY <3>1, <3>2, <3>3, <3>4
  <2> QED BY <2>1, <2>2
<1> QED BY <1>2, <1>3, <1>4, <1>7, <1>8 DEF Queues

LEMMA SendKeepsQueues ==
  ASSUME IInv, Queues, NEW m \in Masters, NEW r \in Requests, NEW q, Own(m, r, q),
         Ready(m, r, q), Send(m, r, q), IInv'
  PROVE  QInv'
<1> DEFINE d == Destination(q.addr)
           x == SlaveId(m)
<1>1. /\ q \in Packet /\ req \in [Requests -> Packet] /\ turn' = NoMaster /\ x \in OuterPorts
      /\ d \in MasterPorts
      /\ Sound(inner, CpuPorts) /\ Sound(layers[d], OuterPorts)
      /\ \A e \in MasterPorts : layers[e].state = "RETRY" => e = d
  <2>1. d \in MasterPorts
    BY FabricAssumption DEF Ready, Destination, MasterPorts
  <2> QED BY <2>1, Ports DEF IInv, TypeOK, Own, Send, Ready, Queues, Lines
<1>2. ~IsCpu(m) => inner.state # "RETRY"
  BY Ports DEF Ready, Queues, Turns, IsCpu
<1>3. CASE RefusedInside(m, r, q)
  <2>1. /\ IsCpu(m) /\ Occupied(inner) /\ inner' = TurnAway(inner, m[2]) /\ layers' = layers
        /\ req' = [req EXCEPT ![r] = Held(q)]
    BY <1>3 DEF RefusedInside
  <2>2. inner.state # "RETRY" /\ \A e \in MasterPorts : layers[e].state # "RETRY"
    <3>1. inner.state # "RETRY"
      BY <1>1, <2>1 DEF Sound, Occupied
    <3>2. turn = NoMaster
      BY <2>1, <3>1 DEF Ready, Queues, Turns, IsCpu
    <3> QED BY <3>1, <3>2 DEF Queues, Turns
  <2>3. m[2] \in CpuPorts /\ ~InLine(inner, m[2])
    BY <2>1, Ports DEF Ready, InPlace
  <2>4. /\ Sound(inner', CpuPorts) /\ inner'.state # "RETRY" /\ inner'.peer = inner.peer
        /\ \A s \in CpuPorts : InLine(inner', s) <=> InLine(inner, s) \/ s = m[2]
    <3> DEFINE y == m[2]
    <3>1. y \in CpuPorts /\ ~InLine(inner, y) /\ inner' = TurnAway(inner, y) /\ CpuPorts \subseteq Nat
      BY <2>1, <2>3, Ports
    <3> HIDE DEF y
    <3>2. /\ Sound(inner', CpuPorts) /\ inner'.state = inner.state /\ inner'.peer = inner.peer
          /\ \A s \in CpuPorts : InLine(inner', s) <=> InLine(inner, s) \/ s = y
      <4>0. Sound(inner, CpuPorts) /\ Occupied(inner)
        BY <1>1, <2>1
      <4>1. /\ Sound(TurnAway(inner, y), CpuPorts) /\ TurnAway(inner, y).state = inner.state
            /\ TurnAway(inner, y).peer = inner.peer
            /\ \A s \in CpuPorts : InLine(TurnAway(inner, y), s) <=> InLine(inner, s) \/ s = y
        BY ONLY <3>1, <4>0, TurnAwaySound
      <4> QED BY <3>1, <4>1
    <3> QED BY <2>2, <3>2 DEF y
  <2>5. Held(q) \in Packet /\ Held(q).place = "held" /\ Held(q).master = m /\ Held(q).addr = q.addr
    BY <1>1, SetPlace DEF Same, Own
  <2>6. Lines'
    BY <2>1, <2>4 DEF Queues, Lines
  <2>7. Queues'
    <3> DEFINE p == Held(q)
               O == {}
    <3>1. /\ p \in Packet /\ p.place = "held" /\ p.master = m /\ p.addr = q.addr
          /\ req' = [req EXCEPT ![r] = p]
      BY <2>1, <2>5
    <3>2. (\A e \in O : e = d) /\ d \notin O
      OBVIOUS
    <3>3. \A e \in MasterPorts, s \in OuterPorts :
             InLine(layers'[e], s) <=> InLine(layers[e], s) \/ (e \in O /\ s = SlaveId(m))
      BY <2>1
    <3>4. \A s \in CpuPorts :
             InLine(inner', s) <=> InLine(inner, s) \/ (IsCpu(m) /\ p.place = "held" /\ s = m[2])
      BY <2>1, <2>4, <3>1
    <3>5. \A e \in MasterPorts : layers'[e].state # "RETRY"
      BY <2>1, <2>2
    <3>6. d = Destination(q.addr)
      OBVIOUS
    <3> HIDE DEF p, d, O
    <3>7. SendStep(m, r, p, q, d, O)
      BY <1>1, <2>1, <2>4, <2>6, <3>1, <3>2, <3>3, <3>4, <3>5, <3>6 DEF SendStep
    <3> QED BY <1>1, <3>7, SendQueues
  <2> QED BY <2>7 DEF QInv
<1>4. ASSUME NEW b \in BOOLEAN, IsCpu(m) => ~Occupied(inner),
             LET p == [q EXCEPT !.inhibited = b]
             IN  RefusedByLayer(m, r, p) \/ Stale(r, p) \/ RefusedByPeer(m, r, p) \/ Accepted(m, r, p)
      PROVE  QInv'
  <2> DEFINE v == [q EXCEPT !.inhibited = b]
  <2>1. Own(m, r, v) /\ v.addr = q.addr /\ v.needsResponse = q.needsResponse
    BY SetInhibited
  <2>2. RefusedByLayer(m, r, v) \/ Stale(r, v) \/ RefusedByPeer(m, r, v) \/ Accepted(m, r, v)
    BY <1>4
  <2> HIDE DEF v
  <2>3. /\ Refused(m, v) \in Packet /\ Refused(m, v).place = "held" /\ Refused(m, v).master = m
        /\ Refused(m, v).addr = q.addr
    BY <2>1, Pop DEF Same, Own
  <2>4. IsCpu(m) => inner.peer = NoPort /\ m[2] \in CpuPorts /\ ~InLine(inner, m[2])
    BY <1>4, Ports DEF Occupied, Ready, InPlace
  <2>5. \A e \in MasterPorts : ~InLine(layers[e], x)
    <3>1. CASE IsCpu(m)
      BY <2>4, <3>1 DEF Queues, TagOutside, SlaveId
    <3>2. CASE ~IsCpu(m)
      BY <3>2 DEF Ready, InPlace, SlaveId
    <3> QED BY <3>1, <3>2
  <2>6. ASSUME InnerFails(m)
        PROVE  /\ Sound(inner', CpuPorts) /\ inner'.state # "RETRY"
               /\ inner'.peer = IF IsCpu(m) THEN m[2] ELSE inner.peer
               /\ \A s \in CpuPorts : InLine(inner', s) <=> InLine(inner, s) \/ (IsCpu(m) /\ s = m[2])
    <3>1. CASE IsCpu(m)
      <4>1. inner' = FailedTiming(inner, m[2])
        BY <2>6, <3>1 DEF InnerFails
      <4> DEFINE y == m[2]
      <4>2. y \in CpuPorts /\ ~InLine(inner, y) /\ inner' = FailedTiming(inner, y) /\ CpuPorts \subseteq Nat
        BY <2>4, <3>1, <4>1, Ports
      <4> HIDE DEF y
      <4>2a. Sound(inner, CpuPorts) /\ inner.peer = NoPort
        BY <1>1, <2>4, <3>1
      <4>3. /\ Sound(inner', CpuPorts) /\ inner'.state = "BUSY" /\ inner'.peer = y
            /\ \A s \in CpuPorts : InLine(inner', s) <=> InLine(inner, s) \/ s = y
        BY ONLY <4>2, <4>2a, FailedTimingSound
      <4> QED BY <3>1, <4>3 DEF y
    <3>2. CASE ~IsCpu(m)
      BY <1>1, <1>2, <2>6, <3>2 DEF InnerFails
    <3> QED BY <3>1, <3>2
  <2>7. ASSUME NEW l, Sound(l, OuterPorts), l.state # "RETRY", InnerFails(m),
               \A s \in OuterPorts : InLine(l, s) <=> InLine(layers[d], s) \/ s = x,
               layers' = [layers EXCEPT ![d] = l],
               req' = [req EXCEPT ![r] = Refused(m, v)]
        PROVE  Queues'
    <3> DEFINE O == {d}
               p == Refused(m, v)
    <3>1. /\ p \in Packet /\ p.place = "held" /\ p.master = m /\ p.addr = q.addr
          /\ req' = [req EXCEPT ![r] = p]
      BY <2>3, <2>7
    <3>2. (\A e \in O : e = d) /\ d \in O /\ d = Destination(q.addr) /\ x = SlaveId(m)
      OBVIOUS
    <3> HIDE DEF d, x, O, p
    <3>3. /\ layers' \in [MasterPorts -> Layer(OuterPorts)]
          /\ \A e \in MasterPorts : Sound(layers'[e], OuterPorts) /\ layers'[e].state # "RETRY"
          /\ \A e \in MasterPorts, s \in OuterPorts :
                InLine(layers'[e], s) <=> InLine(layers[e], s) \/ (e \in O /\ s = x)
      <4>1. \A s \in OuterPorts : InLine(l, s) <=> InLine(layers[d], s) \/ (d \in O /\ s = x)
        BY <2>7, <3>2
      <4>2. LayerStep(d, l, O, x)
        BY <1>1, <2>7, <3>2, <4>1 DEF LayerStep
      <4> QED BY <1>1, <4>2, OneLayer
    <3>4. Lines'
      BY <2>6, <2>7, <3>3 DEF Lines
    <3>5. \A s \in CpuPorts :
             InLine(inner', s) <=> InLine(inner, s) \/ (IsCpu(m) /\ p.place = "held" /\ s = m[2])
      BY <2>6, <2>7, <3>1
    <3>6. inner'.state # "RETRY" /\ inner'.peer = IF IsCpu(m) /\ d \in O THEN m[2] ELSE inner.peer
      BY <2>6, <2>7, <3>2
    <3>7. SendStep(m, r, p, q, d, O)
      BY <1>1, <2>5, <3>1, <3>2, <3>3, <3>4, <3>5, <3>6 DEF SendStep
    <3> QED BY <1>1, <3>7, SendQueues
  <2>8. CASE RefusedByLayer(m, r, v)
    <3>1. /\ Occupied(layers[d]) /\ layers' = [layers EXCEPT ![d] = TurnAway(layers[d], x)]
          /\ InnerFails(m) /\ req' = [req EXCEPT ![r] = Refused(m, v)]
      BY <2>1, <2>8 DEF RefusedByLayer
    <3>2. layers[d].state # "RETRY"
      BY <1>1, <3>1 DEF Sound, Occupied
    <3> DEFINE l == TurnAway(layers[d], x)
    <3>3. /\ Sound(l, OuterPorts) /\ l.state # "RETRY"
          /\ \A s \in OuterPorts : InLine(l, s) <=> InLine(layers[d], s) \/ s = x
      <4>1. x \in OuterPorts /\ ~InLine(layers[d], x) /\ OuterPorts \subseteq Nat
        BY <1>1, <2>5, Ports
      <4> DEFINE k == layers[d]
      <4> HIDE DEF d, x, k
      <4>2. Sound(k, OuterPorts) /\ Occupied(k) /\ ~InLine(k, x) /\ k.state # "RETRY"
        BY <1>1, <3>1, <3>2, <4>1 DEF k
      <4>3. /\ Sound(TurnAway(k, x), OuterPorts) /\ TurnAway(k, x).state = k.state
            /\ \A s \in OuterPorts : InLine(TurnAway(k, x), s) <=> InLine(k, s) \/ s = x
        <5> DEFINE P == OuterPorts
        <5>1. P \subseteq Nat /\ Sound(k, P) /\ Occupied(k) /\ x \in P /\ ~InLine(k, x)
          BY <4>1, <4>2
        <5> HIDE DEF P
        <5>2. /\ Sound(TurnAway(k, x), P) /\ TurnAway(k, x).state = k.state
              /\ \A s \in P : InLine(TurnAway(k, x), s) <=> InLine(k, s) \/ s = x
          BY ONLY <5>1, TurnAwaySound
        <5> QED BY <5>2 DEF P
      <4> QED BY <4>2, <4>3 DEF k
    <3> HIDE DEF l
    <3> QED BY <2>7, <3>1, <3>3 DEF QInv, l
  <2>9. CASE Stale(r, v)
    BY <2>9 DEF Stale, QInv
  <2>10. CASE RefusedByPeer(m, r, v)
    <3>1. /\ layers[d].peer = NoPort /\ layers' = [layers EXCEPT ![d] = FailedTiming(layers[d], x)]
          /\ InnerFails(m) /\ req' = [req EXCEPT ![r] = Refused(m, v)]
      BY <2>1, <2>10 DEF RefusedByPeer, Forwarded, Occupied
    <3> DEFINE l == FailedTiming(layers[d], x)
    <3>2. /\ Sound(l, OuterPorts) /\ l.state # "RETRY"
          /\ \A s \in OuterPorts : InLine(l, s) <=> InLine(layers[d], s) \/ s = x
      <4>1. x \in OuterPorts /\ ~InLine(layers[d], x) /\ OuterPorts \subseteq Nat
        BY <1>1, <2>5, Ports
      <4> DEFINE k == layers[d]
      <4> HIDE DEF d, x, k
      <4>2. Sound(k, OuterPorts) /\ k.peer = NoPort /\ ~InLine(k, x)
        BY <1>1, <3>1, <4>1 DEF k
      <4>3. /\ Sound(FailedTiming(k, x), OuterPorts) /\ FailedTiming(k, x).state = "BUSY"
            /\ \A s \in OuterPorts : InLine(FailedTiming(k, x), s) <=> InLine(k, s) \/ s = x
        BY <4>1, <4>2, FailedTimingSound
      <4> QED BY <4>3 DEF k
    <3> HIDE DEF l
    <3> QED BY <2>7, <3>1, <3>2 DEF QInv, l
  <2>11. CASE Accepted(m, r, v)
    <3> DEFINE a == AtTag(m, v)
               p == IF ~v.needsResponse THEN Free ELSE [a EXCEPT !.src = SlaveId(m), !.place = "sent"]
    <3>1. /\ layers' = [layers EXCEPT ![d] = Occupy(layers[d])]
          /\ inner' = (IF IsCpu(m) THEN Occupy(inner) ELSE inner)
          /\ req' = [req EXCEPT ![r] = p]
      BY <2>1, <2>11 DEF Accepted
    <3>2. p.place # "held"
      <4>1. a \in Packet
        BY <2>1, Push
      <4> HIDE DEF a
      <4> QED BY <4>1 DEF Packet, Free
    <3>3. p \in Packet
      <4> HIDE DEF p
      <4>1. req'[r] = p
        BY <1>1, <3>1
      <4> QED BY <4>1 DEF IInv, TypeOK
    <3> HIDE DEF p, d, x
    <3>4. /\ Sound(inner', CpuPorts) /\ inner'.state # "RETRY" /\ inner'.peer = inner.peer
          /\ \A s \in CpuPorts : InLine(inner', s) <=> InLine(inner, s)
      BY <1>1, <1>2, <3>1, OccupySound DEF SameLine
    <3> DEFINE l == Occupy(layers[d])
               O == {}
    <3>5. /\ Sound(l, OuterPorts) /\ l.state # "RETRY"
          /\ \A s \in OuterPorts : InLine(l, s) <=> InLine(layers[d], s) \/ (d \in O /\ s = x)
      BY <1>1, OccupySound DEF SameLine
    <3>6. /\ (\A e \in O : e = d) /\ d \notin O /\ d = Destination(q.addr) /\ x = SlaveId(m)
          /\ layers' = [layers EXCEPT ![d] = l]
      BY <3>1 DEF d, x
    <3> HIDE DEF l, O
    <3>7. /\ layers' \in [MasterPorts -> Layer(OuterPorts)]
          /\ \A e \in MasterPorts : Sound(layers'[e], OuterPorts) /\ layers'[e].state # "RETRY"
          /\ \A e \in MasterPorts, s \in OuterPorts :
                InLine(layers'[e], s) <=> InLine(layers[e], s) \/ (e \in O /\ s = x)
      <4>1. LayerStep(d, l, O, x)
        BY <1>1, <3>5, <3>6 DEF LayerStep
      <4> QED BY <1>1, <4>1, OneLayer
    <3>8. /\ Lines'
          /\ \A s \in CpuPorts :
               InLine(inner', s) <=> InLine(inner, s) \/ (IsCpu(m) /\ p.place = "held" /\ s = m[2])
      BY <3>2, <3>4, <3>7 DEF Lines
    <3>9. Queues'
      <4>1. SendStep(m, r, p, q, d, O)
        BY <1>1, <3>1, <3>2, <3>3, <3>4, <3>6, <3>7, <3>8 DEF SendStep
      <4> QED BY <1>1, <4>1, SendQueues
    <3> QED BY <3>9 DEF QInv
  <2> QED BY <2>2, <2>8, <2>9, <2>10, <2>11
<1>5. \/ RefusedInside(m, r, q)
      \/ /\ IsCpu(m) => ~Occupied(inner)
         /\ \E b \in BOOLEAN :
              LET p == [q EXCEPT !.inhibited = b]
              IN  RefusedByLayer(m, r, p) \/ Stale(r, p) \/ RefusedByPeer(m, r, p) \/ Accepted(m, r, p)
  BY DEF Send
<1> QED BY <1>3, <1>4, <1>5

-----------------------------------------------------------------------------
(* Every step keeps the queues.                                            *)

\* An answer, which no layer and no refused request takes part in.
LEMMA AnswerKeepsQueues ==
  ASSUME Queues, NEW r \in Requests, req \in [Requests -> Packet], req[r].place \in {"sent", "done"},
         NEW p, p.place # "held", req' = [req EXCEPT ![r] = p], UNCHANGED <<inner, layers, turn>>
  PROVE  Queues'
<1>1. \A s \in Requests : req'[s] = IF s = r THEN p ELSE req[s]
  OBVIOUS
<1>2. \A m \in Masters : Holds(m)' = Holds(m) /\ \A s \in Holds(m) : req'[s] = req[s]
  BY <1>1 DEF Holds
<1>3. Lines' /\ OnePlace' /\ TagOutside' /\ Turns'
  BY DEF Queues, Lines, OnePlace, TagOutside, Turns
<1>4. \A m \in Masters : InPlace(m)' <=> InPlace(m)
  BY DEF InPlace
<1>5. Waiters'
  BY <1>2, <1>4 DEF Queues, Waiters
<1>6. Aimed'
  BY <1>2 DEF Queues, Aimed
<1> QED BY <1>3, <1>5, <1>6 DEF Queues

LEMMA NextKeepsQueues == IInv /\ QInv /\ [Next]_vars => QInv'
<1> SUFFICES ASSUME IInv, QInv, [Next]_vars, died' = "no" PROVE Queues'
  BY DEF QInv
<1>1. IInv'
  BY NextKeeps
<1>2. req \in [Requests -> Packet]
  BY DEF IInv, TypeOK
<1>3a. ASSUME Queues, UNCHANGED <<req, inner, layers, turn>> PROVE Queues'
  <2>1. Queues
    BY <1>3a
  <2>2. UNCHANGED <<req, inner, layers, turn>>
    BY <1>3a
  <2>3. \A m \in Masters : Holds(m)' = Holds(m) /\ (InPlace(m)' <=> InPlace(m))
    BY <2>2 DEF Holds, InPlace
  <2>4. Lines' /\ OnePlace' /\ TagOutside' /\ Turns'
    BY <2>1, <2>2 DEF Queues, Lines, OnePlace, TagOutside, Turns
  <2>5. Waiters' /\ Aimed'
    BY <2>1, <2>2, <2>3 DEF Queues, Waiters, Aimed
  <2> QED BY <2>4, <2>5 DEF Queues
<1>3. CASE UNCHANGED vars
  BY <1>3, <1>3a DEF QInv, vars
<1>4. ASSUME NEW m \in Masters, SendNew(m) PROVE Queues'
  <2>1. PICK r \in Requests, a \in Addrs, needsResponse \in BOOLEAN :
           req[r].place = "free" /\ Send(m, r, NewPacket(m, a, needsResponse))
    BY <1>4 DEF SendNew
  <2> DEFINE q == NewPacket(m, a, needsResponse)
  <2>2. Queues /\ turn = NoMaster /\ Holds(m) = {}
    BY <1>4, <2>1 DEF SendNew, Send, QInv
  <2>3. Own(m, r, q) /\ q.master = m /\ q.addr = a
    BY <2>1, NewIsOwn DEF NewPacket
  <2>4. Ready(m, r, q)
    <3>1. ~InPlace(m)
      BY <2>2 DEF Queues, Waiters
    <3>2. \A d \in MasterPorts : layers[d].state # "RETRY"
      BY <2>2 DEF Queues, Turns
    <3> HIDE DEF q
    <3> QED BY <2>1, <2>2, <2>3, <3>1, <3>2 DEF Ready
  <2>5. Send(m, r, q)
    BY <2>1
  <2> HIDE DEF q
  <2> QED BY <1>1, <2>2, <2>3, <2>4, <2>5, SendKeepsQueues DEF QInv
<1>5. ASSUME NEW m \in Masters, Resend(m) PROVE Queues'
  <2>1. PICK r \in Holds(m) : Send(m, r, req[r])
    BY <1>5 DEF Resend
  <2>2. /\ r \in Requests /\ req[r].place = "held" /\ req[r].master = m
        /\ died = "no" /\ Queues /\ turn = m
    BY <1>5, <2>1 DEF Resend, Holds, Send, QInv
  <2>3. Own(m, r, req[r])
    BY <1>2, <2>2 DEF Own, IInv, Way
  <2>4. Ready(m, r, req[r])
    <3>1. ~InPlace(m) /\ \A s \in Holds(m) : s = r
      BY <2>2, <2>1 DEF Queues, Waiters
    <3>2. req[r].addr \in Addrs
      BY <2>1, <2>2 DEF Queues, Aimed
    <3>3. \A d \in MasterPorts : layers[d].state = "RETRY" => d = Destination(req[r].addr)
      BY <2>1, <2>2 DEF Queues, Aimed
    <3> QED BY <2>1, <2>2, <3>1, <3>2, <3>3 DEF Ready
  <2> QED BY <1>1, <2>1, <2>2, <2>3, <2>4, SendKeepsQueues DEF QInv
<1>6. ASSUME NEW d \in MasterPorts, ReleaseLayer(d) \/ PeerRetry(d) PROVE Queues'
  <2>1. Queues
    BY <1>6 DEF ReleaseLayer, PeerRetry, Running, QInv
  <2> QED BY <1>6, <2>1, ReleaseLayerKeeps, PeerRetryKeeps
<1>7. ASSUME ReleaseInner PROVE Queues'
  <2>1. Queues
    BY <1>7 DEF ReleaseInner, Running, QInv
  <2> QED BY <1>7, <2>1, ReleaseInnerKeeps
<1>7a. ASSUME NEW c \in CpuPorts, ReleaseResp(c) PROVE Queues'
  <2>1. Queues /\ UNCHANGED <<req, inner, layers, turn>>
    BY <1>7a DEF ReleaseResp, Running, QInv
  <2> QED BY <1>3a, <2>1
<1>8. ASSUME NEW r \in Requests, Respond(r) \/ RespondTag(r) \/ SnoopRespond(r) \/ Consume(r) PROVE Queues'
  <2> DEFINE p == req'[r]
  <2>1. /\ Queues /\ req[r].place \in {"sent", "done"} /\ UNCHANGED <<inner, layers, turn>>
    BY <1>8 DEF Respond, RespondTag, SnoopRespond, Consume, Running, QInv
  <2>2. p.place # "held"
    <3>1. req[r] \in Packet
      BY <1>2
    <3>2. CASE Respond(r)
      BY <1>2, <3>1, <3>2 DEF Respond, Packet
    <3>2a. CASE RespondTag(r)
      <4> DEFINE ok == Redirected(req[r]).src \notin answering
                 n == Redirected(req[r])
                 u == PutBack(n, LastState(req[r]), req[r].src)
      <4>1. req'[r] = RecvTimingResp(req[r], ok)
        BY <1>2, <3>2a DEF RespondTag
      <4>2. "place" \in DOMAIN n /\ "place" \in DOMAIN u
        BY <3>1 DEF Redirected, PutBack, Packet
      <4> HIDE DEF ok, n, u
      <4>3. RecvTimingResp(req[r], ok) = IF ok THEN [n EXCEPT !.place = "done"] ELSE [u EXCEPT !.place = "refused"]
        BY DEF RecvTimingResp, n, u
      <4> QED BY <4>1, <4>2, <4>3
    <3>3. CASE SnoopRespond(r)
      BY <1>2, <3>1, <3>3 DEF SnoopRespond, Packet
    <3>4. CASE Consume(r)
      BY <1>2, <3>4 DEF Consume, Free
    <3> QED BY <1>8, <3>2, <3>2a, <3>3, <3>4
  <2>3. req' = [req EXCEPT ![r] = p]
    <3>1. req' \in [Requests -> Packet]
      BY <1>1 DEF IInv, TypeOK
    <3>2. \A s \in Requests : s # r => req'[s] = req[s]
      BY <1>2, <1>8 DEF Respond, RespondTag, SnoopRespond, Consume
    <3> QED BY <1>2, <3>1, <3>2
  <2> HIDE DEF p
  <2> QED BY <1>2, <2>1, <2>2, <2>3, AnswerKeepsQueues
<1> QED BY <1>3, <1>4, <1>5, <1>6, <1>7, <1>7a, <1>8 DEF Next, Dead

LEMMA QueuesHold == Spec => []QInv
<1>1. IInv /\ QInv /\ [Next]_vars => (IInv /\ QInv)'
  BY NextKeeps, NextKeepsQueues
<1>2. Init => IInv /\ QInv
  BY InitIInv, InitQueues
<1> QED BY <1>1, <1>2, PTL DEF Spec

-----------------------------------------------------------------------------
(* The theorems.                                                           *)

\* The packets of the fabric keep their type: a sender state that is popped
\* once too often, as the inhibited request's is, leaves an empty stack and
\* never less (tag_xbar.cc recvTimingReq).
THEOREM TypeCorrect == Spec => []TypeOK
  BY IInvHolds, PTL DEF IInv

\* outstandingReq has the requests that await an answer, and else only those
\* that were answered above the crossbar (pard_system_xbar.cc recvTimingReq).
THEOREM Outstanding == Spec => []OutstandingExact
<1>1. IInv => OutstandingExact
  BY DEF IInv, TypeOK, Recorded, OutstandingExact
<1> QED BY <1>1, IInvHolds, PTL

\* Every answered or refused packet is back at its port with the states it had
\* (tag_xbar.cc recvTimingReq, recvTimingResp).
THEOREM ComeHome == Spec => []PacketsComeHome
<1>1. IInv => PacketsComeHome
  BY DEF IInv, Way, PacketsComeHome
<1> QED BY <1>1, IInvHolds, PTL

\* No refused master is forgotten: it waits for a layer that will wake it or
\* has its turn, and TagXBar waits outside, in one place, exactly while one of
\* its own ports does (TagXBarMasterPort::recvRetry, failedTiming and
\* recvRetry of the layers, pard_system_xbar.cc recvTimingReq).
THEOREM NobodyForgotten == Spec => []NoLostRetry
<1>1. QInv => NoLostRetry
  <2> SUFFICES ASSUME Queues PROVE NoLostRetry
    BY DEF QInv, NoLostRetry
  <2>1. /\ Sound(inner, CpuPorts) /\ inner.waiting \in Seq(CpuPorts)
        /\ \A d \in MasterPorts : Sound(layers[d], OuterPorts) /\ layers[d].waiting \in Seq(OuterPorts)
    BY DEF Queues, Lines, Sound, Layer
  <2>2. /\ \A s : WaitsInside(s) <=> Among(inner.waiting, s)
        /\ \A s : WaitsAt(s) = {d \in MasterPorts : Among(layers[d].waiting, s)}
    BY <2>1 DEF WaitsInside, WaitsAt, Among
  <2>3. ASSUME NEW s, Among(inner.waiting, s) PROVE Wakes(inner)
    <3>1. inner.waiting # << >>
      BY <2>3 DEF Among
    <3>2. inner.state = "RETRY" => turn # NoMaster
      BY Ports DEF Queues, Turns
    <3> QED BY <2>1, <3>1, <3>2 DEF Sound, Layer, Wakes, Occupied
  <2>4. ASSUME NEW s, NEW d \in WaitsAt(s) PROVE Wakes(layers[d])
    <3>1. d \in MasterPorts /\ layers[d].waiting # << >>
      BY <2>2 DEF Among
    <3>2. layers[d].state = "RETRY" => turn # NoMaster
      BY <3>1 DEF Queues, Turns
    <3> QED BY <2>1, <3>1, <3>2 DEF Sound, Layer, Wakes, Occupied
  <2>5. \A s \in OuterPorts : WaitsAt(s) \cup FailedAt(s) = {d \in MasterPorts : InLine(layers[d], s)}
    BY <2>2 DEF FailedAt, InLine
  <2>6. ASSUME NEW m \in Masters, Holds(m) # {}, turn # m
        PROVE  \/ IsCpu(m) /\ (inner.peer = m[2] \/ (WaitsInside(m[2]) /\ Wakes(inner)))
               \/ ~IsCpu(m) /\ WaitsAt(m[2]) \cup FailedAt(m[2]) # {}
    <3>1. InPlace(m)
      BY <2>6 DEF Queues, Waiters
    <3>2. CASE IsCpu(m)
      BY <2>2, <2>3, <3>1, <3>2 DEF InPlace, InLine
    <3>3. CASE ~IsCpu(m)
      BY <2>5, <3>1, <3>3, Ports DEF InPlace, OuterPorts
    <3> QED BY <3>2, <3>3
  <2>7. ASSUME NEW s \in OuterPorts
        PROVE  Cardinality(WaitsAt(s)) + Cardinality(FailedAt(s)) <= 1
    <3>1. \A d, e \in WaitsAt(s) \cup FailedAt(s) : d = e
      BY <2>5 DEF Queues, OnePlace
    <3>2. WaitsAt(s) = {} \/ FailedAt(s) = {}
      <4> SUFFICES ASSUME NEW d \in WaitsAt(s), NEW e \in FailedAt(s) PROVE FALSE
        OBVIOUS
      <4>1. d = e /\ d \in MasterPorts /\ Among(layers[d].waiting, layers[d].peer)
        BY <2>2, <3>1 DEF FailedAt
      <4> QED BY <2>1, <4>1 DEF Sound
    <3>3. /\ WaitsAt(s) = {} \/ \E d : WaitsAt(s) = {d}
          /\ FailedAt(s) = {} \/ \E d : FailedAt(s) = {d}
      BY <3>1
    <3>4. Cardinality({}) = 0 /\ \A d : Cardinality({d}) = 1
      BY FS_EmptySet, FS_Singleton
    <3>5. /\ Cardinality(WaitsAt(s)) = 0 \/ Cardinality(WaitsAt(s)) = 1
          /\ Cardinality(FailedAt(s)) = 0 \/ Cardinality(FailedAt(s)) = 1
      BY <3>3, <3>4, Zenon
    <3>6. Cardinality(WaitsAt(s)) = 0 \/ Cardinality(FailedAt(s)) = 0
      BY <3>2, <3>4, Zenon
    <3> HIDE DEF WaitsAt, FailedAt
    <3> QED BY <3>5, <3>6
  <2>8. inner.peer # NoPort <=> WaitsAt(TagId) \cup FailedAt(TagId) # {}
    BY <2>5, Ports DEF Queues, TagOutside
  <2> QED BY <2>4, <2>6, <2>7, <2>8 DEF NoLostRetry, OuterPorts
<1> QED BY <1>1, QueuesHold, PTL
=============================================================================
