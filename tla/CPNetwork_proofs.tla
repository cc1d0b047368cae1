--------------------------- MODULE CPNetwork_proofs ---------------------------
(***************************************************************************)
(* Proofs about CPNetwork for any number of threads, planes, addresses and *)
(* values: the spin lock makes the register protocol atomic.               *)
(***************************************************************************)
EXTENDS CPNetwork, TLAPS

\* What thread t has put in the shared registers by the time it is at pc[t].
Written(t) ==
    /\ pc[t] # "idle" => op[t] \in Operation
    /\ pc[t] \in {"ldom", "dest", "data", "cmd", "result"} => selectCP = op[t].cp
    /\ pc[t] \in {"dest", "data", "cmd"} => regs[op[t].cp].cpLDomID = op[t].ldom
    /\ pc[t] \in {"data", "cmd"} => regs[op[t].cp].cpDestAddr = op[t].addr
    /\ pc[t] = "cmd" /\ op[t].kind # "read" => regs[op[t].cp].cpData = op[t].value
    /\ pc[t] = "result" => op[t].kind = "read"

ArgsWritten == \A t \in Thread : Written(t)

IInv == TypeOK /\ LockOwnerInside /\ ArgsWritten

(***************************************************************************)
(* Every operation has the fields the driver functions take.               *)
(***************************************************************************)
LEMMA OperationFields ==
    ASSUME NEW o \in Operation
    PROVE  /\ o.cp \in CP /\ o.ldom \in LDom /\ o.addr \in Addr /\ o.value \in Value
           /\ o.kind \in {"read", "write", "command"}
           /\ o.kind = "read" => o.cmd = "G"
           /\ o.kind = "write" => o.cmd = "S"
           /\ o.kind = "command" => o.cmd \in UserCommand
  BY CPNAssumption DEF Operation

(***************************************************************************)
(* The invariant holds initially: nobody is inside an operation.           *)
(***************************************************************************)
LEMMA InitIInv == Init => IInv
<1> SUFFICES ASSUME Init PROVE IInv
  OBVIOUS
<1>1. TypeOK
  BY CPNAssumption DEF Init, TypeOK, Step, Regs
<1>2. LockOwnerInside
  BY NoThreadAssumption DEF Init, LockOwnerInside, Inside
<1>3. ArgsWritten
  BY DEF Init, ArgsWritten, Written
<1> QED
  BY <1>1, <1>2, <1>3 DEF IInv

(***************************************************************************)
(* At most one thread is inside, so what the others have written cannot be *)
(* disturbed by the one that moves.                                        *)
(***************************************************************************)
LEMMA OnlyOneInside ==
    ASSUME LockOwnerInside, NEW t \in Thread, NEW u \in Thread,
           Inside(t), Inside(u)
    PROVE  t = u
  BY DEF LockOwnerInside

(***************************************************************************)
(* A step of the thread inside leaves every other thread where it was,     *)
(* outside, where nothing is claimed of the registers.                     *)
(***************************************************************************)
LEMMA InsideStep ==
    ASSUME IInv, NEW t \in Thread, Inside(t), NEW l \in Step, Goto(t, l),
           l \notin {"idle", "lock"}, lock' = lock, op' = op, Written(t)'
    PROVE  LockOwnerInside' /\ ArgsWritten' /\ pc' \in [Thread -> Step]
<1>1. /\ pc \in [Thread -> Step] /\ pc' = [pc EXCEPT ![t] = l]
      /\ LockOwnerInside /\ ArgsWritten
  BY DEF IInv, TypeOK, Goto
<1>2. pc' \in [Thread -> Step] /\ pc'[t] = l
      /\ \A u \in Thread \ {t} : pc'[u] = pc[u]
  BY <1>1
<1>3. LockOwnerInside'
  BY <1>1, <1>2 DEF LockOwnerInside, Inside
<1>4. ASSUME NEW u \in Thread \ {t} PROVE Written(u)'
  <2>1. ~Inside(u)
    BY <1>1, OnlyOneInside
  <2>2. pc'[u] = pc[u] /\ pc[u] \in {"idle", "lock"}
    BY <1>2, <2>1 DEF Inside
  <2>3. pc[u] # "idle" => op[u] \in Operation
    BY <1>1 DEF ArgsWritten, Written
  <2> QED
    BY <2>2, <2>3 DEF Written
<1> QED
  BY <1>2, <1>3, <1>4 DEF ArgsWritten

(***************************************************************************)
(* Writing one argument register of the selected plane.                    *)
(***************************************************************************)
LEMMA StoreTypes ==
    ASSUME IInv, NEW c \in CP, NEW field \in {"cpLDomID", "cpDestAddr", "cpData"},
           NEW v, field = "cpLDomID" => v \in LDom,
           field = "cpDestAddr" => v \in Addr, field = "cpData" => v \in Value,
           regs' = [regs EXCEPT ![c][field] = v]
    PROVE  /\ regs' \in [CP -> Regs]
           /\ regs'[c][field] = v
           /\ \A f \in {"cpLDomID", "cpDestAddr", "cpData"} \ {field} :
                 regs'[c][f] = regs[c][f]
<1>1. regs \in [CP -> Regs]
  BY DEF IInv, TypeOK
<1>2. CASE field = "cpLDomID"
  BY <1>1, <1>2 DEF Regs
<1>3. CASE field = "cpDestAddr"
  BY <1>1, <1>3 DEF Regs
<1>4. CASE field = "cpData"
  BY <1>1, <1>4 DEF Regs
<1> QED
  BY <1>2, <1>3, <1>4

(***************************************************************************)
(* Every step of every thread preserves the invariant.                     *)
(***************************************************************************)
LEMMA StepIInv == IInv /\ [Next]_vars => IInv'
<1> SUFFICES ASSUME IInv, [Next]_vars PROVE IInv'
  OBVIOUS
<1>i. TypeOK /\ LockOwnerInside /\ ArgsWritten
  BY DEF IInv
<1>a. ASSUME NEW t \in Thread, Enter(t) PROVE IInv'
  <2>1. /\ pc[t] = "idle" /\ pc' = [pc EXCEPT ![t] = "lock"]
        /\ UNCHANGED <<lock, result, selectCP, regs, table, handled>>
    BY <1>a DEF Enter, Goto
  <2>2. PICK o \in Operation : op' = [op EXCEPT ![t] = o]
    BY <1>a DEF Enter
  <2>3. /\ pc' \in [Thread -> Step] /\ op' \in [Thread -> Operation \cup {NoOp}]
        /\ pc'[t] = "lock" /\ op'[t] = o
        /\ \A u \in Thread \ {t} : pc'[u] = pc[u] /\ op'[u] = op[u]
    BY <1>i, <2>1, <2>2 DEF TypeOK, Step
  <2>4. TypeOK'
    BY <1>i, <2>1, <2>3 DEF TypeOK
  <2>5. LockOwnerInside'
    BY <1>i, <2>1, <2>3 DEF LockOwnerInside, Inside
  <2>6. ASSUME NEW u \in Thread PROVE Written(u)'
    <3>1. CASE u = t
      BY <2>3, <3>1 DEF Written
    <3>2. CASE u # t
      BY <1>i, <2>1, <2>3, <3>2 DEF ArgsWritten, Written
    <3> QED
      BY <3>1, <3>2
  <2> QED
    BY <2>4, <2>5, <2>6 DEF IInv, ArgsWritten
<1>b. ASSUME NEW t \in Thread, SpinLock(t) PROVE IInv'
  <2>1. /\ pc[t] = "lock" /\ pc' = [pc EXCEPT ![t] = "select"]
        /\ lock = NoThread /\ lock' = t
        /\ UNCHANGED <<op, result, selectCP, regs, table, handled>>
    BY <1>b DEF SpinLock, Goto
  <2>2. /\ pc' \in [Thread -> Step] /\ pc'[t] = "select"
        /\ \A u \in Thread \ {t} : pc'[u] = pc[u]
    BY <1>i, <2>1 DEF TypeOK, Step
  <2>3. TypeOK'
    BY <1>i, <2>1, <2>2 DEF TypeOK
  <2>4. LockOwnerInside'
    BY <1>i, <2>1, <2>2, NoThreadAssumption DEF LockOwnerInside, Inside
  <2>5. ASSUME NEW u \in Thread PROVE Written(u)'
    BY <1>i, <2>1, <2>2 DEF ArgsWritten, Written
  <2> QED
    BY <2>3, <2>4, <2>5 DEF IInv, ArgsWritten
<1>c. ASSUME NEW t \in Thread, Access(t) PROVE IInv'
  <2>i. Written(t) /\ pc[t] \in Step
    BY <1>i DEF ArgsWritten, TypeOK
  <2>1. CASE SelectCP(t)
    <3>1. /\ pc[t] = "select" /\ Goto(t, "ldom") /\ selectCP' = op[t].cp
          /\ UNCHANGED <<lock, op, result, regs, table, handled>>
      BY <2>1 DEF SelectCP
    <3>2. op[t] \in Operation /\ op[t].cp \in CP
      BY <2>i, <3>1, OperationFields DEF Written
    <3>3. pc'[t] = "ldom"
      BY <1>i, <3>1 DEF Goto, TypeOK
    <3>4. Written(t)'
      BY <3>1, <3>2, <3>3 DEF Written
    <3>5. LockOwnerInside' /\ ArgsWritten' /\ pc' \in [Thread -> Step]
      BY <3>1, <3>4, InsideStep DEF Inside, Step
    <3> QED
      BY <1>i, <3>1, <3>2, <3>5 DEF IInv, TypeOK
  <2>2. CASE WriteLDomID(t)
    <3>1. /\ pc[t] = "ldom" /\ Goto(t, "dest") /\ selectCP \in CP
          /\ regs' = [regs EXCEPT ![selectCP]["cpLDomID"] = op[t].ldom]
          /\ UNCHANGED <<lock, op, result, selectCP, table, handled>>
      BY <2>2 DEF WriteLDomID, AccessData, StoreReg
    <3>2. op[t] \in Operation /\ op[t].ldom \in LDom /\ selectCP = op[t].cp
      BY <2>i, <3>1, OperationFields DEF Written
    <3>3. pc'[t] = "dest"
      BY <1>i, <3>1 DEF Goto, TypeOK
    <3>r. regs' \in [CP -> Regs] /\ regs'[selectCP]["cpLDomID"] = op[t].ldom
      BY <1>i, <3>1, <3>2 DEF TypeOK, Regs
    <3>4. Written(t)'
      BY <3>1, <3>2, <3>3, <3>r DEF Written
    <3>5. LockOwnerInside' /\ ArgsWritten' /\ pc' \in [Thread -> Step]
      BY <3>1, <3>4, InsideStep DEF Inside, Step
    <3> QED
      BY <1>i, <3>1, <3>r, <3>5 DEF IInv, TypeOK
  <2>3. CASE WriteDestAddr(t)
    <3> DEFINE l == IF op[t].kind = "read" THEN "cmd" ELSE "data"
    <3>1. /\ pc[t] = "dest" /\ Goto(t, l) /\ selectCP \in CP
          /\ regs' = [regs EXCEPT ![selectCP]["cpDestAddr"] = op[t].addr]
          /\ UNCHANGED <<lock, op, result, selectCP, table, handled>>
      BY <2>3 DEF WriteDestAddr, AccessData, StoreReg
    <3>2. /\ op[t] \in Operation /\ op[t].addr \in Addr /\ selectCP = op[t].cp
          /\ regs[selectCP]["cpLDomID"] = op[t].ldom
      BY <2>i, <3>1, OperationFields DEF Written
    <3>3. pc'[t] = l /\ l \in Step /\ l \notin {"idle", "lock"}
          /\ l \in {"data", "cmd"} /\ (l = "cmd" => op[t].kind = "read")
      BY <1>i, <3>1 DEF Goto, TypeOK, Step
    <3>r. /\ regs' \in [CP -> Regs] /\ regs'[selectCP]["cpDestAddr"] = op[t].addr
          /\ regs'[selectCP]["cpLDomID"] = regs[selectCP]["cpLDomID"]
      BY <3>1, <3>2, StoreTypes
    <3> HIDE DEF l
    <3>4. Written(t)'
      BY <3>1, <3>2, <3>3, <3>r DEF Written
    <3>5. LockOwnerInside' /\ ArgsWritten' /\ pc' \in [Thread -> Step]
      BY <3>1, <3>3, <3>4, InsideStep DEF Inside
    <3> QED
      BY <1>i, <3>1, <3>r, <3>5 DEF IInv, TypeOK
  <2>4. CASE WriteData(t)
    <3>1. /\ pc[t] = "data" /\ Goto(t, "cmd") /\ selectCP \in CP
          /\ regs' = [regs EXCEPT ![selectCP]["cpData"] = op[t].value]
          /\ UNCHANGED <<lock, op, result, selectCP, table, handled>>
      BY <2>4 DEF WriteData, AccessData, StoreReg
    <3>2. /\ op[t] \in Operation /\ op[t].value \in Value /\ selectCP = op[t].cp
          /\ regs[selectCP]["cpLDomID"] = op[t].ldom
          /\ regs[selectCP]["cpDestAddr"] = op[t].addr
      BY <2>i, <3>1, OperationFields DEF Written
    <3>3. pc'[t] = "cmd"
      BY <1>i, <3>1 DEF Goto, TypeOK
    <3>r. /\ regs' \in [CP -> Regs] /\ regs'[selectCP]["cpData"] = op[t].value
          /\ regs'[selectCP]["cpLDomID"] = regs[selectCP]["cpLDomID"]
          /\ regs'[selectCP]["cpDestAddr"] = regs[selectCP]["cpDestAddr"]
      BY <3>1, <3>2, StoreTypes
    <3>4. Written(t)'
      BY <3>1, <3>2, <3>3, <3>r DEF Written
    <3>5. LockOwnerInside' /\ ArgsWritten' /\ pc' \in [Thread -> Step]
      BY <3>1, <3>4, InsideStep DEF Inside, Step
    <3> QED
      BY <1>i, <3>1, <3>r, <3>5 DEF IInv, TypeOK

  <2>5. CASE WriteCmd(t)
    <3> DEFINE l == IF op[t].kind = "read" THEN "result" ELSE "unlock"
    <3>1. /\ pc[t] = "cmd" /\ Goto(t, l) /\ selectCP \in CP
          /\ WriteCmdReg(selectCP, op[t].cmd)
          /\ UNCHANGED <<lock, op, result, selectCP>>
      BY <2>5 DEF WriteCmd
    <3>2. /\ op[t] \in Operation /\ selectCP = op[t].cp
          /\ op[t].cmd \notin {"G", "S"} => op[t].cmd \in UserCommand
          /\ regs[selectCP].cpLDomID = op[t].ldom /\ op[t].ldom \in LDom
          /\ regs[selectCP].cpDestAddr = op[t].addr /\ op[t].addr \in Addr
      BY <2>i, <3>1, OperationFields DEF Written
    <3>3. /\ pc'[t] = l /\ l \in Step /\ l \notin {"idle", "lock"}
          /\ l \in {"result", "unlock"} /\ (l = "result" => op[t].kind = "read")
      BY <1>i, <3>1 DEF Goto, TypeOK, Step
    <3> HIDE DEF l
    <3>4. Written(t)'
      BY <3>1, <3>2, <3>3 DEF Written
    <3>5. LockOwnerInside' /\ ArgsWritten' /\ pc' \in [Thread -> Step]
      BY <3>1, <3>3, <3>4, InsideStep DEF Inside
    <3>6. regs[selectCP].cpData \in Value /\ table[selectCP] \in [Addr -> Value]
      BY <1>i, <3>1 DEF TypeOK, Regs
    <3>7. CASE RunGet(selectCP)
      <4>1. QueryTable(selectCP, regs[selectCP].cpDestAddr) \in Value
        BY <3>2, <3>6, CPNAssumption DEF QueryTable
      <4>2. regs' = [regs EXCEPT ![selectCP]["cpData"] =
                        QueryTable(selectCP, regs[selectCP].cpDestAddr)]
            /\ UNCHANGED <<table, handled>>
        BY <3>7 DEF RunGet
      <4>3. regs' \in [CP -> Regs]
        BY <3>1, <4>1, <4>2, StoreTypes
      <4> QED
        BY <1>i, <3>1, <3>5, <4>2, <4>3 DEF IInv, TypeOK
    <3>8. CASE RunSet(selectCP)
      <4>1. table' \in [CP -> [Addr -> Value]] /\ UNCHANGED <<regs, handled>>
        BY <1>i, <3>1, <3>2, <3>6, <3>8 DEF RunSet, UpdateTable, TypeOK
      <4> QED
        BY <1>i, <3>1, <3>5, <4>1 DEF IInv, TypeOK
    <3>9. CASE op[t].cmd \notin {"G", "S"} /\ HandleCommand(selectCP, op[t].cmd)
      <4>1. handled' \subseteq CP \X UserCommand \X LDom /\ UNCHANGED <<regs, table>>
        BY <1>i, <3>1, <3>2, <3>9 DEF HandleCommand, TypeOK
      <4> QED
        BY <1>i, <3>1, <3>5, <4>1 DEF IInv, TypeOK
    <3> QED
      BY <3>1, <3>7, <3>8, <3>9 DEF WriteCmdReg
  <2>6. CASE ReadData(t)
    <3>1. /\ pc[t] = "result" /\ Goto(t, "unlock") /\ selectCP \in CP
          /\ result' = [result EXCEPT ![t] = regs[selectCP].cpData]
          /\ UNCHANGED <<lock, op, selectCP, regs, table, handled>>
      BY <2>6 DEF ReadData
    <3>2. op[t] \in Operation
      BY <2>i, <3>1 DEF Written
    <3>3. pc'[t] = "unlock"
      BY <1>i, <3>1 DEF Goto, TypeOK
    <3>4. Written(t)'
      BY <3>1, <3>2, <3>3 DEF Written
    <3>5. LockOwnerInside' /\ ArgsWritten' /\ pc' \in [Thread -> Step]
      BY <3>1, <3>4, InsideStep DEF Inside, Step
    <3>6. regs[selectCP].cpData \in Value
      BY <1>i, <3>1 DEF TypeOK, Regs
    <3>7. result' \in [Thread -> Value \cup {NoValue}]
      BY <1>i, <3>1, <3>6 DEF TypeOK
    <3> QED
      BY <1>i, <3>1, <3>5, <3>7 DEF IInv, TypeOK
  <2>7. CASE SpinUnlock(t)
    <3>1. /\ pc[t] = "unlock" /\ pc' = [pc EXCEPT ![t] = "idle"]
          /\ lock' = NoThread
          /\ op' = [op EXCEPT ![t] = NoOp] /\ result' = [result EXCEPT ![t] = NoValue]
          /\ UNCHANGED <<selectCP, regs, table, handled>>
      BY <2>7 DEF SpinUnlock, Goto
    <3>2. /\ pc' \in [Thread -> Step] /\ op' \in [Thread -> Operation \cup {NoOp}]
          /\ result' \in [Thread -> Value \cup {NoValue}]
          /\ pc'[t] = "idle"
          /\ \A u \in Thread \ {t} : pc'[u] = pc[u] /\ op'[u] = op[u]
      BY <1>i, <3>1 DEF TypeOK, Step
    <3>3. \A u \in Thread \ {t} : ~Inside(u)
      BY <1>i, <3>1, OnlyOneInside DEF Inside
    <3>4. TypeOK'
      BY <1>i, <3>1, <3>2 DEF TypeOK
    <3>5. LockOwnerInside'
      BY <3>1, <3>2, <3>3, NoThreadAssumption DEF LockOwnerInside, Inside
    <3>6. ASSUME NEW u \in Thread PROVE Written(u)'
      BY <1>i, <3>1, <3>2 DEF ArgsWritten, Written
    <3> QED
      BY <3>4, <3>5, <3>6 DEF IInv, ArgsWritten
  <2> QED
    BY <1>c, <2>1, <2>2, <2>3, <2>4, <2>5, <2>6, <2>7 DEF Access
<1>d. CASE UNCHANGED vars
  <2>1. TypeOK'
    BY <1>i, <1>d DEF TypeOK, vars
  <2>2. LockOwnerInside'
    BY <1>i, <1>d DEF LockOwnerInside, Inside, vars
  <2>3. ArgsWritten'
    BY <1>i, <1>d DEF ArgsWritten, Written, vars
  <2> QED
    BY <2>1, <2>2, <2>3 DEF IInv
<1> QED
  BY <1>a, <1>b, <1>c, <1>d DEF Next

(***************************************************************************)
(* The invariant holds in every reachable state.                           *)
(***************************************************************************)
THEOREM Invariance == Spec => []IInv
  BY InitIInv, StepIInv, PTL DEF Spec

(***************************************************************************)
(* Type correctness: no register, entry or result leaves its domain.       *)
(***************************************************************************)
THEOREM TypeCorrect == Spec => []TypeOK
<1>1. IInv => TypeOK
  BY DEF IInv
<1> QED
  BY <1>1, Invariance, PTL

(***************************************************************************)
(* Mutual exclusion by the adaptor's spin lock.                            *)
(***************************************************************************)
THEOREM LockProtects == Spec => []LockOwnerInside
<1>1. IInv => LockOwnerInside
  BY DEF IInv
<1> QED
  BY <1>1, Invariance, PTL

(***************************************************************************)
(* Each command runs on the plane and with the arguments of its caller.    *)
(***************************************************************************)
THEOREM CommandsCorrect == Spec => []CommandHasItsArguments
<1>1. IInv => CommandHasItsArguments
  BY DEF IInv, ArgsWritten, Written, CommandHasItsArguments
<1> QED
  BY <1>1, Invariance, PTL

-----------------------------------------------------------------------------
(* The register protocol implements ConfigService.                           *)

\* The abstract status and results, as functions of the threads.
Statuses == [u \in Thread |-> StatusOf(u)]
Results  == [u \in Thread |-> ResultOf(u)]

(***************************************************************************)
(* Only the moving thread's abstract status and result can change: every   *)
(* other thread keeps its place and, unless it is about to read its        *)
(* result, does not depend on the registers.                               *)
(***************************************************************************)
LEMMA OthersKeep ==
    ASSUME IInv, NEW t \in Thread, NEW l \in Step, Goto(t, l),
           Inside(t) \/ UNCHANGED <<selectCP, regs>>,
           \A u \in Thread \ {t} : result'[u] = result[u]
    PROVE  /\ Statuses' = [Statuses EXCEPT ![t] = StatusOf(t)']
           /\ Results' = [Results EXCEPT ![t] = ResultOf(t)']
<1>1. pc'[t] = l /\ \A u \in Thread \ {t} : pc'[u] = pc[u]
  BY DEF IInv, TypeOK, Goto
<1>2. ASSUME NEW u \in Thread \ {t} PROVE StatusOf(u)' = StatusOf(u)
  BY <1>1 DEF StatusOf
<1>3. ASSUME NEW u \in Thread \ {t} PROVE ResultOf(u)' = ResultOf(u)
  <2>1. CASE Inside(t)
    <3>1. pc[u] # "result"
      BY <2>1, OnlyOneInside DEF IInv, Inside
    <3> QED
      BY <1>1, <3>1 DEF ResultOf
  <2>2. CASE UNCHANGED <<selectCP, regs>>
    BY <1>1, <2>2 DEF ResultOf
  <2> QED
    BY <2>1, <2>2
<1> QED
  BY <1>2, <1>3 DEF Statuses, Results

(***************************************************************************)
(* The initial states agree.                                               *)
(***************************************************************************)
LEMMA InitRefines == Init => Service!Init
  BY DEF Init, Service!Init, StatusOf, ResultOf

(***************************************************************************)
(* Each step is a step of the service or changes nothing it can see.       *)
(***************************************************************************)
LEMMA StepRefines ==
    IInv /\ IInv' /\ [Next]_vars => [Service!Next]_(Service!vars)
<1> SUFFICES ASSUME IInv, IInv', [Next]_vars
             PROVE  Service!Next \/ UNCHANGED Service!vars
  OBVIOUS
<1>i. TypeOK /\ LockOwnerInside /\ ArgsWritten
  BY DEF IInv
<1>t. \A u \in Thread : Statuses[u] = StatusOf(u) /\ Results[u] = ResultOf(u)
  BY DEF Statuses, Results
<1>a. ASSUME NEW t \in Thread, Enter(t) PROVE Service!Call(t)
  <2>1. /\ pc[t] = "idle" /\ Goto(t, "lock")
        /\ UNCHANGED <<lock, result, selectCP, regs, table, handled>>
    BY <1>a DEF Enter
  <2>2. pc'[t] = "lock"
    BY <1>i, <2>1 DEF Goto, TypeOK
  <2>3. /\ Statuses' = [Statuses EXCEPT ![t] = StatusOf(t)']
        /\ Results' = [Results EXCEPT ![t] = ResultOf(t)']
    BY <2>1, OthersKeep DEF Step
  <2>4. /\ StatusOf(t) = "idle" /\ StatusOf(t)' = "called"
        /\ ResultOf(t)' = ResultOf(t)
    BY <2>1, <2>2 DEF StatusOf, ResultOf
  <2>5. Results' = Results
    BY <2>3, <2>4, <1>t DEF Results
  <2>6. \E o \in Operation : op' = [op EXCEPT ![t] = o]
    BY <1>a DEF Enter
  <2>7. Service!Operation = Operation
    BY DEF Service!Operation, Operation
  <2> QED
    BY <1>t, <2>1, <2>3, <2>4, <2>5, <2>6, <2>7 DEF Service!Call, Statuses, Results
<1>b. ASSUME NEW t \in Thread, NEW l \in Step, Goto(t, l),
             Inside(t) \/ UNCHANGED <<selectCP, regs>>,
             \A u \in Thread \ {t} : result'[u] = result[u],
             StatusOf(t)' = StatusOf(t), ResultOf(t)' = ResultOf(t),
             UNCHANGED <<op, table, handled>>
      PROVE  UNCHANGED Service!vars
  <2>1. Statuses' = Statuses /\ Results' = Results
    BY <1>b, <1>t, OthersKeep DEF Statuses, Results
  <2> QED
    BY <1>b, <2>1 DEF Service!vars, Statuses, Results
<1>c. ASSUME NEW t \in Thread, SpinLock(t) PROVE UNCHANGED Service!vars
  <2>1. /\ pc[t] = "lock" /\ Goto(t, "select")
        /\ UNCHANGED <<op, result, selectCP, regs, table, handled>>
    BY <1>c DEF SpinLock
  <2>2. pc'[t] = "select"
    BY <1>i, <2>1 DEF Goto, TypeOK
  <2>3. StatusOf(t)' = StatusOf(t) /\ ResultOf(t)' = ResultOf(t)
    BY <2>1, <2>2 DEF StatusOf, ResultOf
  <2> QED
    BY <1>b, <2>1, <2>3 DEF Step
<1>d. ASSUME NEW t \in Thread,
             SelectCP(t) \/ WriteLDomID(t) \/ WriteDestAddr(t) \/ WriteData(t)
      PROVE  UNCHANGED Service!vars
  <2>1. PICK l \in {"ldom", "dest", "data", "cmd"} : Goto(t, l)
    BY <1>d DEF SelectCP, WriteLDomID, WriteDestAddr, WriteData
  <2>2. /\ pc[t] \in {"select", "ldom", "dest", "data"}
        /\ UNCHANGED <<op, result, table, handled>>
    BY <1>d DEF SelectCP, WriteLDomID, WriteDestAddr, WriteData, AccessData, StoreReg
  <2>3. pc'[t] = l
    BY <1>i, <2>1 DEF Goto, TypeOK
  <2>4. StatusOf(t)' = StatusOf(t) /\ ResultOf(t)' = ResultOf(t)
    BY <2>2, <2>3 DEF StatusOf, ResultOf
  <2>5. Inside(t) /\ l \in Step
    BY <2>2 DEF Inside, Step
  <2> QED
    BY <1>b, <2>1, <2>2, <2>4, <2>5
<1>e. ASSUME NEW t \in Thread, WriteCmd(t) PROVE Service!Apply(t)
  <2> DEFINE l == IF op[t].kind = "read" THEN "result" ELSE "unlock"
             c == op[t].cp
  <2>1. /\ pc[t] = "cmd" /\ Goto(t, l)
        /\ WriteCmdReg(selectCP, op[t].cmd)
        /\ UNCHANGED <<lock, op, result, selectCP>>
    BY <1>e DEF WriteCmd
  <2>2. /\ op[t] \in Operation /\ selectCP = c /\ c \in CP
        /\ regs[c].cpLDomID = op[t].ldom /\ regs[c].cpDestAddr = op[t].addr
        /\ op[t].kind # "read" => regs[c].cpData = op[t].value
    <3>1. Written(t)
      BY <1>i DEF ArgsWritten
    <3> QED
      BY <2>1, <3>1, OperationFields DEF Written
  <2>3. l \in Step /\ pc'[t] = l /\ l \in {"result", "unlock"}
    BY <1>i, <2>1 DEF Goto, TypeOK, Step
  <2>4. /\ Statuses' = [Statuses EXCEPT ![t] = StatusOf(t)']
        /\ Results' = [Results EXCEPT ![t] = ResultOf(t)']
    BY <2>1, <2>3, OthersKeep DEF Inside
  <2>5. StatusOf(t) = "called" /\ StatusOf(t)' = "done" /\ ResultOf(t) = result[t]
    BY <2>1, <2>3 DEF StatusOf, ResultOf
  <2>6. op[t].kind # "read" => Results' = Results
    <3>1. op[t].kind # "read" => ResultOf(t)' = result[t]
      BY <2>1, <2>3 DEF ResultOf
    <3> QED
      BY <2>4, <2>5, <3>1, <1>t DEF Results
  <2>7. /\ op[t].kind = "read" => op[t].cmd = "G"
        /\ op[t].kind = "write" => op[t].cmd = "S"
    BY <2>2, OperationFields
  <2>8. Service!ApplyGet(t) \/ Service!ApplySet(t) \/ Service!ApplyCommand(t)
    <3>1. CASE op[t].cmd = "G" /\ RunGet(c)
      <4>1. /\ regs' = [regs EXCEPT ![c].cpData = QueryTable(c, op[t].addr)]
            /\ UNCHANGED <<table, handled>>
        BY <2>2, <3>1 DEF RunGet
      <4>2. regs'[c].cpData = QueryTable(c, op[t].addr)
        BY <1>i, <2>2, <4>1 DEF TypeOK, Regs
      <4>3. op[t].kind = "read" => ResultOf(t)' = QueryTable(c, op[t].addr)
        BY <2>1, <2>2, <2>3, <4>2 DEF ResultOf
      <4>4. QueryTable(c, op[t].addr) = Service!Lookup(c, op[t].addr)
        BY DEF QueryTable, Service!Lookup
      <4>5. Results' = IF op[t].kind = "read"
                       THEN [Results EXCEPT ![t] = Service!Lookup(c, op[t].addr)]
                       ELSE Results
        BY <2>4, <2>6, <4>3, <4>4
      <4> QED
        BY <3>1, <4>1, <4>5 DEF Service!ApplyGet, Results
    <3>2. CASE op[t].cmd = "S" /\ RunSet(c)
      <4>1. op[t].kind # "read"
        BY <2>7, <3>2
      <4>2. /\ table' = IF op[t].addr \in MappedAddr
                        THEN [table EXCEPT ![c][op[t].addr] = op[t].value]
                        ELSE table
            /\ handled' = handled
        BY <2>2, <3>2, <4>1 DEF RunSet, UpdateTable
      <4> QED
        BY <2>6, <3>2, <4>1, <4>2 DEF Service!ApplySet, Results
    <3>3. CASE op[t].cmd \notin {"G", "S"} /\ HandleCommand(c, op[t].cmd)
      <4>1. op[t].kind # "read"
        BY <2>7, <3>3
      <4>2. /\ handled' = IF c \in HandlerCP /\ op[t].cmd \in HandlerCommand
                          THEN handled \cup {<<c, op[t].cmd, op[t].ldom>>}
                          ELSE handled
            /\ table' = table
        BY <2>2, <3>3 DEF HandleCommand
      <4> QED
        BY <2>6, <3>3, <4>1, <4>2 DEF Service!ApplyCommand, Results
    <3> QED
      BY <2>1, <2>2, <3>1, <3>2, <3>3 DEF WriteCmdReg
  <2> QED
    BY <1>t, <2>1, <2>4, <2>5, <2>8 DEF Service!Apply, Statuses
<1>f. ASSUME NEW t \in Thread, ReadData(t) PROVE UNCHANGED Service!vars
  <2>1. /\ pc[t] = "result" /\ Goto(t, "unlock")
        /\ result' = [result EXCEPT ![t] = regs[selectCP].cpData]
        /\ UNCHANGED <<op, selectCP, regs, table, handled>>
    BY <1>f DEF ReadData
  <2>2. /\ pc'[t] = "unlock" /\ result'[t] = regs[selectCP].cpData
        /\ \A u \in Thread \ {t} : result'[u] = result[u]
    BY <1>i, <2>1 DEF Goto, TypeOK
  <2>3. StatusOf(t)' = StatusOf(t) /\ ResultOf(t)' = ResultOf(t)
    BY <2>1, <2>2 DEF StatusOf, ResultOf
  <2> QED
    BY <1>b, <2>1, <2>2, <2>3 DEF Step
<1>g. ASSUME NEW t \in Thread, SpinUnlock(t) PROVE Service!Return(t)
  <2>1. /\ pc[t] = "unlock" /\ Goto(t, "idle")
        /\ op' = [op EXCEPT ![t] = NoOp] /\ result' = [result EXCEPT ![t] = NoValue]
        /\ UNCHANGED <<selectCP, regs, table, handled>>
    BY <1>g DEF SpinUnlock
  <2>2. /\ pc'[t] = "idle" /\ result'[t] = NoValue
        /\ \A u \in Thread \ {t} : result'[u] = result[u]
    BY <1>i, <2>1 DEF Goto, TypeOK
  <2>3. /\ Statuses' = [Statuses EXCEPT ![t] = StatusOf(t)']
        /\ Results' = [Results EXCEPT ![t] = ResultOf(t)']
    BY <2>1, <2>2, OthersKeep DEF Step
  <2>4. StatusOf(t) = "done" /\ StatusOf(t)' = "idle" /\ ResultOf(t)' = NoValue
    BY <2>1, <2>2 DEF StatusOf, ResultOf
  <2> QED
    BY <1>t, <2>1, <2>3, <2>4 DEF Service!Return, Statuses, Results
<1>h. CASE UNCHANGED vars
  BY <1>h DEF vars, Service!vars, StatusOf, ResultOf
<1>j. ASSUME NEW t \in Thread, Enter(t) \/ SpinLock(t) \/ Access(t)
      PROVE  Service!Next \/ UNCHANGED Service!vars
  BY <1>a, <1>c, <1>d, <1>e, <1>f, <1>g, <1>j DEF Access, Service!Next
<1> QED
  BY <1>h, <1>j DEF Next

(***************************************************************************)
(* Linearizability: the driver's three functions, run by any number of     *)
(* threads against the shared adaptor and connectors, implement operations *)
(* that happen at one instant each.                                        *)
(***************************************************************************)
THEOREM Refinement == Spec => Linearizable
  BY InitRefines, StepRefines, Invariance, PTL DEF Spec, Linearizable, Service!Spec

=============================================================================
