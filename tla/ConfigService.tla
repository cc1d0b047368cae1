---------------------------- MODULE ConfigService ----------------------------
(***************************************************************************)
(* What the control plane network promises a PRM driver: each of its three *)
(* operations (read a table entry, write a table entry, send a command)    *)
(* takes effect at one instant between its call and its return, on the     *)
(* control plane and the entry that the caller named.                      *)
(***************************************************************************)
EXTENDS Naturals

CONSTANTS Thread, CP, LDom, Addr, Value,
    UserCommand,   \* commands a user program may send
    Zero,          \* what a table entry holds before it is written
    AllOnes,       \* what a read of an unknown address returns
    NoValue,       \* no result
    NoOp           \* no operation

\* The addresses a control plane decodes, and the planes with a handler.
CONSTANTS MappedAddr, HandlerCP, HandlerCommand

\* Reads carry no value; "G" and "S" are the command bytes of read and write.
Operation ==
    [kind : {"read"}, cmd : {"G"}, cp : CP, ldom : LDom, addr : Addr, value : {Zero}]
    \cup
    [kind : {"write"}, cmd : {"S"}, cp : CP, ldom : LDom, addr : Addr, value : Value]
    \cup
    [kind : {"command"}, cmd : UserCommand, cp : CP, ldom : LDom, addr : Addr,
     value : Value]

VARIABLES
    op,        \* op[t]: the operation thread t is in
    status,    \* status[t]: "idle", "called" or "done"
    result,    \* result[t]: what the read of t returns
    table,     \* table[c][a]: the entries of control plane c
    handled    \* the commands a plane's handler has executed: <<cp, cmd, ldom>>

vars == <<op, status, result, table, handled>>

Lookup(c, a) == IF a \in MappedAddr THEN table[c][a] ELSE AllOnes

Init ==
    /\ op = [t \in Thread |-> NoOp]
    /\ status = [t \in Thread |-> "idle"]
    /\ result = [t \in Thread |-> NoValue]
    /\ table = [c \in CP |-> [a \in Addr |-> Zero]]
    /\ handled = {}

Call(t) ==
    /\ status[t] = "idle"
    /\ status' = [status EXCEPT ![t] = "called"]
    /\ \E o \in Operation : op' = [op EXCEPT ![t] = o]
    /\ UNCHANGED <<result, table, handled>>

\* A read returns the entry; a user's own "G" command returns nothing.
ApplyGet(t) ==
    /\ op[t].cmd = "G"
    /\ result' = IF op[t].kind = "read"
                 THEN [result EXCEPT ![t] = Lookup(op[t].cp, op[t].addr)]
                 ELSE result
    /\ UNCHANGED <<table, handled>>

ApplySet(t) ==
    /\ op[t].cmd = "S"
    /\ table' = IF op[t].addr \in MappedAddr
                THEN [table EXCEPT ![op[t].cp][op[t].addr] = op[t].value]
                ELSE table
    /\ UNCHANGED <<result, handled>>

ApplyCommand(t) ==
    /\ op[t].cmd \notin {"G", "S"}
    /\ handled' = IF op[t].cp \in HandlerCP /\ op[t].cmd \in HandlerCommand
                  THEN handled \cup {<<op[t].cp, op[t].cmd, op[t].ldom>>}
                  ELSE handled
    /\ UNCHANGED <<result, table>>

Apply(t) ==
    /\ status[t] = "called"
    /\ status' = [status EXCEPT ![t] = "done"]
    /\ ApplyGet(t) \/ ApplySet(t) \/ ApplyCommand(t)
    /\ UNCHANGED op

Return(t) ==
    /\ status[t] = "done"
    /\ status' = [status EXCEPT ![t] = "idle"]
    /\ op' = [op EXCEPT ![t] = NoOp]
    /\ result' = [result EXCEPT ![t] = NoValue]
    /\ UNCHANGED <<table, handled>>

Next == \E t \in Thread : Call(t) \/ Apply(t) \/ Return(t)

Spec == Init /\ [][Next]_vars

=============================================================================
