------------------------------ MODULE CPNetwork ------------------------------
(***************************************************************************)
(* The control plane network (CPN): PRM threads in the kernel driver       *)
(* (src/system/modules/cpa/access.c) reach a control plane's table through *)
(* one CPAdaptor (src/src/prm/CPAdaptor.cc), which holds a select register *)
(* shared by all, and one CPConnector per plane (CPConnector.cc), which    *)
(* holds the argument registers and runs the command.  Each register       *)
(* access of the driver is one step; the driver's spin lock is all that    *)
(* keeps the steps of two operations apart.                                *)
(*                                                                         *)
(* Tables are the decoded 8-byte entries of PARDg5VSystemCP.  Values of    *)
(* registers that a property does not tell apart (type, ident, state) are  *)
(* left out.                                                               *)
(***************************************************************************)
EXTENDS Naturals

CONSTANTS Thread, CP, LDom, Addr, Value, UserCommand,
    MappedAddr,      \* addresses parseAddr decodes
    HandlerCP,       \* planes with a registered ICommandHandler
    HandlerCommand,  \* commands that handler knows
    Zero,            \* a table entry that was never written (memset 0)
    AllOnes,         \* 0xFFFFFFFFFFFFFFFF
    NoValue, NoOp, NoThread, NoCP

ASSUME NoThreadAssumption == NoThread \notin Thread
ASSUME NoCPAssumption     == NoCP \notin CP
ASSUME CPNAssumption ==
    /\ MappedAddr \subseteq Addr
    /\ HandlerCP \subseteq CP
    /\ Zero \in Value /\ AllOnes \in Value
    /\ NoValue \notin Value

\* A call of cpn_bus_read_config_qword, cpn_bus_write_config_qword or
\* cpn_bus_write_command, with the command byte it will send.
Operation ==
    [kind : {"read"}, cmd : {"G"}, cp : CP, ldom : LDom, addr : Addr, value : {Zero}]
    \cup
    [kind : {"write"}, cmd : {"S"}, cp : CP, ldom : LDom, addr : Addr, value : Value]
    \cup
    [kind : {"command"}, cmd : UserCommand, cp : CP, ldom : LDom, addr : Addr,
     value : Value]

ASSUME NoOpAssumption == NoOp \notin Operation

VARIABLES
    lock,      \* control_plane_adaptor::lock, its owner or NoThread
    pc,        \* pc[t]: the next register access of thread t
    op,        \* op[t]: the arguments of t's call, NoOp outside one
    result,    \* result[t]: *value of t's read
    selectCP,  \* CPAdaptor::cpaRegs.command.selectCP
    regs,      \* regs[c]: cpLDomID, cpDestAddr, cpData of connector c
    table,     \* table[c][a]
    handled    \* commands the handler of a plane has run

vars == <<lock, pc, op, result, selectCP, regs, table, handled>>

\* The accesses of the three driver functions, in program order.
Step == {"idle", "lock", "select", "ldom", "dest", "data", "cmd", "result", "unlock"}

Regs == [cpLDomID : LDom \cup {AllOnes}, cpDestAddr : Addr \cup {AllOnes},
         cpData : Value]

TypeOK ==
    /\ lock \in Thread \cup {NoThread}
    /\ pc \in [Thread -> Step]
    /\ op \in [Thread -> Operation \cup {NoOp}]
    /\ result \in [Thread -> Value \cup {NoValue}]
    /\ selectCP \in CP \cup {NoCP}
    /\ regs \in [CP -> Regs]
    /\ table \in [CP -> [Addr -> Value]]
    /\ handled \subseteq CP \X UserCommand \X LDom

\* memset(&regs, 0xFF, ...); the select register is never initialised, and
\* NoCP stands for a value that names no plane.
Init ==
    /\ lock = NoThread
    /\ pc = [t \in Thread |-> "idle"]
    /\ op = [t \in Thread |-> NoOp]
    /\ result = [t \in Thread |-> NoValue]
    /\ selectCP \in CP \cup {NoCP}
    /\ regs = [c \in CP |-> [cpLDomID |-> AllOnes, cpDestAddr |-> AllOnes,
                             cpData |-> AllOnes]]
    /\ table = [c \in CP |-> [a \in Addr |-> Zero]]
    /\ handled = {}

-----------------------------------------------------------------------------
(* PARDg5VSystemCP: the table behind a connector.                            *)

QueryTable(c, addr) == IF addr \in MappedAddr THEN table[c][addr] ELSE AllOnes

UpdateTable(c, addr, data) ==
    table' = IF addr \in MappedAddr THEN [table EXCEPT ![c][addr] = data] ELSE table

(* CPConnector::recvAtomic.  The command register itself is left out: the    *)
(* driver writes it and never reads it back.                                 *)

\* An access to any register but the command register only stores.
StoreReg(c, field, v) ==
    /\ regs' = [regs EXCEPT ![c][field] = v]
    /\ UNCHANGED <<table, handled>>

RunGet(c) ==
    /\ regs' = [regs EXCEPT ![c].cpData = QueryTable(c, regs[c].cpDestAddr)]
    /\ UNCHANGED <<table, handled>>

RunSet(c) ==
    /\ UpdateTable(c, regs[c].cpDestAddr, regs[c].cpData)
    /\ UNCHANGED <<regs, handled>>

\* Anything else goes to the command handler, if one is registered; a
\* command it does not know changes nothing.
HandleCommand(c, cmd) ==
    /\ handled' = IF c \in HandlerCP /\ cmd \in HandlerCommand
                  THEN handled \cup {<<c, cmd, regs[c].cpLDomID>>}
                  ELSE handled
    /\ UNCHANGED <<regs, table>>

WriteCmdReg(c, cmd) ==
    \/ cmd = "G" /\ RunGet(c)
    \/ cmd = "S" /\ RunSet(c)
    \/ cmd \notin {"G", "S"} /\ HandleCommand(c, cmd)

(* CPAdaptor::accessData: every data access goes to the selected plane.      *)

AccessData(field, v) == selectCP \in CP /\ StoreReg(selectCP, field, v)

-----------------------------------------------------------------------------
(* The driver: cpn_bus_read_config_qword, cpn_bus_write_config_qword and     *)
(* cpn_bus_write_command.                                                    *)

Goto(t, l) == pc' = [pc EXCEPT ![t] = l]

\* A user program calls one of the three functions with its arguments.
Enter(t) ==
    /\ pc[t] = "idle"
    /\ \E o \in Operation : op' = [op EXCEPT ![t] = o]
    /\ Goto(t, "lock")
    /\ UNCHANGED <<lock, result, selectCP, regs, table, handled>>

\* No lock is taken.
BugSpinLock(t) ==
    /\ pc[t] = "lock"
    /\ lock' = t
    /\ Goto(t, "select")
    /\ UNCHANGED <<op, result, selectCP, regs, table, handled>>

SpinLock(t) ==
    /\ pc[t] = "lock"
    /\ lock = NoThread
    /\ lock' = t
    /\ Goto(t, "select")
    /\ UNCHANGED <<op, result, selectCP, regs, table, handled>>

SelectCP(t) ==
    /\ pc[t] = "select"
    /\ selectCP' = op[t].cp
    /\ Goto(t, "ldom")
    /\ UNCHANGED <<lock, op, result, regs, table, handled>>

WriteLDomID(t) ==
    /\ pc[t] = "ldom"
    /\ AccessData("cpLDomID", op[t].ldom)
    /\ Goto(t, "dest")
    /\ UNCHANGED <<lock, op, result, selectCP>>

\* The data register is never written.
BugWriteDestAddr(t) ==
    /\ pc[t] = "dest"
    /\ AccessData("cpDestAddr", op[t].addr)
    /\ Goto(t, "cmd")
    /\ UNCHANGED <<lock, op, result, selectCP>>

\* A read has no data to write and sends the command next.
WriteDestAddr(t) ==
    /\ pc[t] = "dest"
    /\ AccessData("cpDestAddr", op[t].addr)
    /\ Goto(t, IF op[t].kind = "read" THEN "cmd" ELSE "data")
    /\ UNCHANGED <<lock, op, result, selectCP>>

WriteData(t) ==
    /\ pc[t] = "data"
    /\ AccessData("cpData", op[t].value)
    /\ Goto(t, "cmd")
    /\ UNCHANGED <<lock, op, result, selectCP>>

WriteCmd(t) ==
    /\ pc[t] = "cmd"
    /\ selectCP \in CP
    /\ WriteCmdReg(selectCP, op[t].cmd)
    /\ Goto(t, IF op[t].kind = "read" THEN "result" ELSE "unlock")
    /\ UNCHANGED <<lock, op, result, selectCP>>

\* *value = cpa_readq(CP_DATA_OFFSET, ...)
ReadData(t) ==
    /\ pc[t] = "result"
    /\ selectCP \in CP
    /\ result' = [result EXCEPT ![t] = regs[selectCP].cpData]
    /\ Goto(t, "unlock")
    /\ UNCHANGED <<lock, op, selectCP, regs, table, handled>>

\* The lock is not released.
BugSpinUnlock(t) ==
    /\ pc[t] = "unlock"
    /\ Goto(t, "idle")
    /\ op' = [op EXCEPT ![t] = NoOp]
    /\ result' = [result EXCEPT ![t] = NoValue]
    /\ UNCHANGED <<lock, selectCP, regs, table, handled>>

SpinUnlock(t) ==
    /\ pc[t] = "unlock"
    /\ lock' = NoThread
    /\ Goto(t, "idle")
    /\ op' = [op EXCEPT ![t] = NoOp]
    /\ result' = [result EXCEPT ![t] = NoValue]
    /\ UNCHANGED <<selectCP, regs, table, handled>>

Access(t) ==
    \/ SelectCP(t) \/ WriteLDomID(t) \/ WriteDestAddr(t) \/ WriteData(t)
    \/ WriteCmd(t) \/ ReadData(t) \/ SpinUnlock(t)

Next == \E t \in Thread : Enter(t) \/ SpinLock(t) \/ Access(t)

(***************************************************************************)
(* A thread inside the critical section keeps running, and the kernel's    *)
(* ticket spin lock lets a waiting thread in eventually.                   *)
(***************************************************************************)
Fairness == \A t \in Thread : WF_vars(Access(t)) /\ SF_vars(SpinLock(t))

Spec == Init /\ [][Next]_vars

FairSpec == Spec /\ Fairness

-----------------------------------------------------------------------------
(* Properties.                                                               *)

Inside(t) == pc[t] \notin {"idle", "lock"}

(***************************************************************************)
(* A command is run by the plane its caller named, with the LDom, address  *)
(* and data its caller wrote into the shared registers, whatever the other *)
(* threads were doing in between.                                          *)
(***************************************************************************)
CommandHasItsArguments ==
    \A t \in Thread : pc[t] = "cmd" =>
        /\ selectCP = op[t].cp
        /\ regs[op[t].cp].cpLDomID = op[t].ldom
        /\ regs[op[t].cp].cpDestAddr = op[t].addr
        /\ op[t].kind # "read" => regs[op[t].cp].cpData = op[t].value

(***************************************************************************)
(* Only the owner of the adaptor's lock is between spin_lock and           *)
(* spin_unlock, and the lock has an owner only while someone is.           *)
(***************************************************************************)
LockOwnerInside == \A t \in Thread : Inside(t) <=> lock = t

(***************************************************************************)
(* A called operation returns.                                             *)
(***************************************************************************)
OperationReturns == \A t \in Thread : pc[t] # "idle" ~> pc[t] = "idle"

(***************************************************************************)
(* Linearizability: the register-level protocol implements operations that *)
(* take effect at one instant, when the command register is written.  A    *)
(* read between that instant and its last access has its result still in   *)
(* the plane's data register.                                              *)
(***************************************************************************)
StatusOf(t) == IF pc[t] = "idle" THEN "idle"
               ELSE IF pc[t] \in {"result", "unlock"} THEN "done" ELSE "called"

ResultOf(t) == IF pc[t] = "result" THEN regs[selectCP].cpData ELSE result[t]

Service == INSTANCE ConfigService WITH
    status <- [t \in Thread |-> StatusOf(t)],
    result <- [t \in Thread |-> ResultOf(t)]

Linearizable == Service!Spec

=============================================================================
