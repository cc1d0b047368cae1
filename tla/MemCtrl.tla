------------------------------- MODULE MemCtrl -------------------------------
(***************************************************************************)
(* PARDMemoryCtrl (src/src/mem/pard_mem_ctrl.cc): the last hop before DRAM *)
(* moves the addresses of each logical domain (LDom) into that domain's    *)
(* own 2 GB window, by adding DSid * Window on the way down and restoring  *)
(* the original address and requester on the way up.                       *)
(*                                                                         *)
(* The crossbar above and the DRAM controller below are gem5 code outside  *)
(* this repository, modelled by the timing protocol: a refused sender      *)
(* keeps the packet it offered, as the refusing side left it, and offers   *)
(* it again after a retry.  Two fields of a packet, marked ghost, are not  *)
(* in the code: they remember what the requester asked for.                *)
(***************************************************************************)
EXTENDS Naturals, Sequences, FiniteSets

CONSTANTS
    Port,          \* crossbar ports the requesters sit on
    DSids,         \* tags in use
    Window,        \* 0x80000000
    Addrs,         \* addresses asked for, beyond the window's size too
    MaxPackets,    \* bound on the number of requests
    MaxRefusals,   \* bound on how often DRAM refuses the same request
    Own,           \* the state a requester pushed before the packet gets here
    NoPacket

ASSUME WindowAssumption ==
    /\ Window \in Nat \ {0}
    /\ Addrs \subseteq Nat       \* nothing bounds them: remapAddr has no check
    /\ DSids \subseteq 0 .. 3     \* remapAddr panics for any other tag
    /\ MaxPackets \in Nat /\ MaxRefusals \in Nat

RequestState == [origSrc : Port, origAddr : Nat]

Packet == [id : Nat, src : Port, addr : Nat, DSid : DSids,
           needsResponse : BOOLEAN, memInhibit : BOOLEAN,
           senderState : Seq(RequestState \cup {Own}),
           asked : Nat,                 \* ghost: the requester's address
           refusals : Nat]              \* ghost: how often it was refused

ASSUME NoPacketAssumption == NoPacket \notin Packet
ASSUME OwnAssumption == Own \notin RequestState

VARIABLES
    \* the crossbar above
    peer,       \* "ready", "stalled" (refused), "retry" (told to retry)
    held,       \* the request it keeps while not ready
    issued,     \* requests issued so far
    delivered,  \* responses it has taken
    \* the DRAM controller below
    below,      \* requests it still has to answer
    respHeld,   \* the response the crossbar refused
    accesses    \* every request DRAM has taken, as it arrived

vars == <<peer, held, issued, delivered, below, respHeld, accesses>>

TypeOK ==
    /\ peer \in {"ready", "stalled", "retry"}
    /\ held \in Packet \cup {NoPacket}
    /\ issued \in Nat
    /\ delivered \in SUBSET Packet
    /\ below \in SUBSET Packet
    /\ respHeld \in Packet \cup {NoPacket}
    /\ accesses \in SUBSET Packet

Init ==
    /\ peer = "ready" /\ held = NoPacket /\ issued = 0 /\ delivered = {}
    /\ below = {} /\ respHeld = NoPacket /\ accesses = {}

-----------------------------------------------------------------------------
(* recvTimingReq.                                                            *)

RemapAddr(DSid, addr) == addr + DSid * Window

\* The state is pushed for packets that someone else will answer, too.
BugPushState(pkt) ==
    [pkt EXCEPT !.senderState =
        <<[origSrc |-> pkt.src, origAddr |-> pkt.addr]>> \o @]

PushState(pkt) ==
    IF pkt.needsResponse /\ ~pkt.memInhibit
    THEN [pkt EXCEPT !.senderState =
             <<[origSrc |-> pkt.src, origAddr |-> pkt.addr]>> \o @]
    ELSE pkt

Remapped(pkt) == [pkt EXCEPT !.addr = RemapAddr(pkt.DSid, pkt.addr)]

PopRefused(pkt) ==
    IF pkt.needsResponse THEN [pkt EXCEPT !.senderState = Tail(@)] ELSE pkt

\* DRAM takes the packet; it answers it unless a cache will.
Accepted(pkt) ==
    LET sent == Remapped(PushState(pkt)) IN
    /\ accesses' = accesses \cup {sent}
    /\ below' = IF sent.needsResponse /\ ~sent.memInhibit
                THEN below \cup {sent} ELSE below
    /\ peer' = "ready" /\ held' = NoPacket

\* DRAM refuses, which it never does for an inhibited packet.  The sender
\* state is popped again, the address stays as it was remapped.
Refused(pkt) ==
    LET back == PopRefused(Remapped(PushState(pkt))) IN
    /\ ~pkt.memInhibit
    /\ pkt.refusals < MaxRefusals
    /\ peer' = "stalled"
    /\ held' = [back EXCEPT !.refusals = @ + 1]
    /\ UNCHANGED <<accesses, below>>

RecvTimingReq(pkt) == Accepted(pkt) \/ Refused(pkt)

NewPacket(from, a, d, nr, mi) ==
    [id |-> issued + 1, src |-> from, addr |-> a, DSid |-> d,
     needsResponse |-> nr, memInhibit |-> mi, senderState |-> <<Own>>,
     asked |-> a, refusals |-> 0]

PeerIssue ==
    /\ peer = "ready" /\ issued < MaxPackets
    /\ issued' = issued + 1
    /\ \E from \in Port, a \in Addrs, d \in DSids,
          nr \in BOOLEAN, mi \in BOOLEAN :
             RecvTimingReq(NewPacket(from, a, d, nr, mi))
    /\ UNCHANGED <<delivered, respHeld>>

PeerResend ==
    /\ peer = "retry"
    /\ RecvTimingReq(held)
    /\ UNCHANGED <<issued, delivered, respHeld>>

\* InternalPort::recvRetry: DRAM has room again, the retry is passed on.
RecvRetryInternal ==
    /\ peer = "stalled"
    /\ peer' = "retry"
    /\ UNCHANGED <<held, issued, delivered, below, respHeld, accesses>>

\* recvAtomic and recvFunctional: remapped, served and restored at once.
RecvFunctional ==
    /\ issued < MaxPackets
    /\ issued' = issued + 1
    /\ \E from \in Port, a \in Addrs, d \in DSids :
          accesses' = accesses \cup {Remapped(NewPacket(from, a, d, TRUE, FALSE))}
    /\ UNCHANGED <<peer, held, delivered, below, respHeld>>

-----------------------------------------------------------------------------
(* recvTimingResp.                                                           *)

\* The address is left as it was remapped.
BugRestored(pkt) ==
    [pkt EXCEPT !.senderState = Tail(@),
                !.src = Head(pkt.senderState).origSrc]

\* popSenderState, setDest(origSrc), setAddr(origAddr); src holds the
\* destination of a response.
Restored(pkt) ==
    [pkt EXCEPT !.senderState = Tail(@),
                !.src = Head(pkt.senderState).origSrc,
                !.addr = Head(pkt.senderState).origAddr]

\* The address stays the requester's.
BugUndone(pkt, reqState, dest, remapped) ==
    [pkt EXCEPT !.senderState = <<reqState>> \o @, !.src = dest]

Undone(pkt, reqState, dest, remapped) ==
    [pkt EXCEPT !.senderState = <<reqState>> \o @, !.src = dest, !.addr = remapped]

RespDelivered(pkt) ==
    /\ delivered' = delivered \cup {Restored(pkt)}
    /\ respHeld' = NoPacket

RespRefused(pkt) ==
    /\ respHeld' = Undone(Restored(pkt), Head(pkt.senderState), pkt.src, pkt.addr)
    /\ UNCHANGED delivered

RecvTimingResp(pkt) == RespDelivered(pkt) \/ RespRefused(pkt)

\* DRAM answers; it offers nothing else while a response is refused.
MemRespond ==
    /\ respHeld = NoPacket
    /\ \E pkt \in below :
          /\ below' = below \ {pkt}
          /\ RecvTimingResp(pkt)
    /\ UNCHANGED <<peer, held, issued, accesses>>

\* MemoryPort::recvRetry passes the crossbar's retry down; DRAM offers the
\* refused response again.
RecvRetryPort ==
    /\ respHeld # NoPacket
    /\ RecvTimingResp(respHeld)
    /\ UNCHANGED <<peer, held, issued, below, accesses>>

\* All requests of the bounded run are served; only then may nothing happen.
Served ==
    /\ peer = "ready" /\ issued = MaxPackets
    /\ below = {} /\ respHeld = NoPacket
    /\ UNCHANGED vars

Next ==
    \/ PeerIssue \/ PeerResend \/ RecvRetryInternal \/ RecvFunctional
    \/ MemRespond \/ RecvRetryPort
    \/ Served

Spec == Init /\ [][Next]_vars

-----------------------------------------------------------------------------
(* Properties.                                                               *)

(***************************************************************************)
(* The sender-state stack is balanced: a packet comes back to the crossbar *)
(* with exactly the state its requester pushed, whether it was answered or *)
(* refused, although recvTimingReq pushes under one condition and pops     *)
(* under another (the pop does not look at memInhibitAsserted).            *)
(***************************************************************************)
SenderStateBalanced ==
    /\ held # NoPacket => held.senderState = <<Own>>
    /\ \A r \in delivered : r.senderState = <<Own>>

(***************************************************************************)
(* A response that is refused any number of times reaches its requester's  *)
(* port with the address that the request had when DRAM took it.           *)
(***************************************************************************)
ResponsesRestored ==
    \A r \in delivered : \E q \in accesses :
        /\ q.id = r.id
        /\ r.src = q.src
        /\ q.addr = RemapAddr(r.DSid, r.addr)

(***************************************************************************)
(* "Don't delete anything and let the packet look like we did not touch    *)
(* it" (recvTimingResp): a response that the crossbar refuses, as often as *)
(* it likes, is again the packet that DRAM took, with the remapped address *)
(* and the controller's state on top.                                      *)
(***************************************************************************)
RefusedResponseUntouched ==
    respHeld # NoPacket => respHeld \in accesses

(***************************************************************************)
(* The refused request looks as if it had not been touched, as refused     *)
(* responses do: the RequestState of the next offer (orig_addr) is then    *)
(* the address the requester asked for.                                    *)
(***************************************************************************)
RefusedRequestUntouched == held # NoPacket => held.addr = held.asked

=============================================================================
