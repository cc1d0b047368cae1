-------------------------- MODULE PrmDrivers_proofs --------------------------
(***************************************************************************)
(* The PRM's two kernel modules, for any set of control planes, number of  *)
(* processes and number of device numbers: whichever steps of whichever    *)
(* probes fail, nothing stays behind, reference counts balance, and a      *)
(* device node leads to its own plane for as long as it is open.           *)
(***************************************************************************)
EXTENDS PrmDrivers, SequenceTheorems, TLAPS

\* The planes that pardg5v holds: bound, or in the second half of a probe.
HeldPlanes == driver \cup ({probing} \ {NoPlane})

TypeOK ==
    /\ planes \in Machines
    /\ cpa \in {"out", "in", "oops"} /\ pardg5v \in {"out", "coming", "in", "going"}
    /\ bus \in SUBSET Planes /\ driver \in SUBSET Planes /\ todo \in SUBSET Planes
    /\ refs \in [Planes -> Nat]
    /\ probing \in Planes \cup {NoPlane}
    /\ cdevNr \in 0..NumberOfCpDevices
    /\ cdevs \in SUBSET (Numbers \X Planes)
    /\ cpList \in [IdTable -> SUBSET (Numbers \X Planes)]
    /\ file \in [Procs -> Planes \cup {NoPlane}]
    /\ adaptors \in Seq(BOOLEAN) /\ torn \in SUBSET Procs

\* What the modules hold of the kernel, by the state they are in.
Resources ==
    /\ res = (IF cpa # "out" THEN cpa_cleanup_module ELSE {})
             \cup (IF "adaptor" \in res THEN cpa_adaptor_remove ELSE {})
             \cup (IF pardg5v # "out" THEN pardg5v_cleanup_module ELSE {})
    /\ "adaptor" \notin res => bus = {}
    /\ cpa = "out" => "adaptor" \notin res
    /\ pardg5v # "out" => cpa # "out"

\* The driver's planes are on the bus; those that are still to be offered to
\* it are not its own yet, and those to be taken away are all it has.
Binding ==
    /\ HeldPlanes \subseteq bus
    /\ probing \notin driver
    /\ pardg5v = "out" => HeldPlanes = {}
    /\ pardg5v = "going" => probing = NoPlane /\ todo = driver
    /\ \A p \in HeldPlanes : get_control_plane_op(Type[p]) # {}

\* Device numbers below the counter are used once, for a plane of the driver,
\* and the lists have the nodes whose probe is over.
Nodes ==
    /\ \A c \in cdevs : c[1] < cdevNr /\ c[2] \in HeldPlanes
    /\ \A c, d \in cdevs : c[1] = d[1] \/ c[2] = d[2] => c = d
    /\ \A p \in HeldPlanes : \E c \in cdevs : c[2] = p
    /\ \A t \in IdTable : cpList[t] = {c \in cdevs : Type[c[2]] = t /\ c[2] # probing}

Released == \A p \in Planes \ HeldPlanes : devRes \cap CpFree[p] = {}

OpenFiles ==
    \A q \in Procs : file[q] # NoPlane =>
       /\ pardg5v \in {"coming", "in"}
       /\ q \notin torn => file[q] \in driver

IInv == /\ TypeOK /\ Resources /\ Binding /\ Nodes /\ Released /\ RefsBalanced /\ OpenFiles

-----------------------------------------------------------------------------
(* Functions that take resources step by step.                             *)

\* Every step that may have been taken when step k fails is undone by some
\* label from the one that k jumps to on.
Mirrored(f) ==
    /\ Len(f.take) \in Nat
    /\ \A k \in 1..Len(f.take) : \A i \in 1..(k - 1) :
          \E j \in f.goto[k]..Len(f.drop) : f.take[i] \subseteq f.drop[j]
Taken(f) == UNION {f.take[i] : i \in 1..Len(f.take)}

\* Such a function takes everything or leaves nothing behind.
LEMMA AllOrNothing ==
  ASSUME NEW f, Mirrored(f), NEW k \in Outcomes(f)
  PROVE  Outcome(f, k) = IF Succeeds(f, k) THEN Taken(f) ELSE {}
<1>1. CASE k = Len(f.take) + 1
  <2>1. ~(k <= Len(f.take)) /\ k - 1 = Len(f.take)
    BY <1>1 DEF Mirrored
  <2>2. Outcome(f, k) = UNION {f.take[i] : i \in 1..(k - 1)}
    BY <2>1 DEF Outcome
  <2>3. Outcome(f, k) = Taken(f)
    BY <2>1, <2>2 DEF Taken
  <2> QED BY <1>1, <2>3 DEF Succeeds
<1>2. CASE k \in 1..Len(f.take)
  <2>1. UNION {f.take[i] : i \in 1..(k - 1)} \subseteq Unwind(f, k)
    BY <1>2 DEF Mirrored, Unwind
  <2>2. k <= Len(f.take) /\ k # Len(f.take) + 1
    BY <1>2 DEF Mirrored
  <2> QED BY <2>1, <2>2 DEF Outcome, Succeeds
<1> QED BY <1>1, <1>2 DEF Outcomes, Mirrored

LEMMA InitModuleMirrored ==
  Mirrored(cpa_init_module) /\ Taken(cpa_init_module) = cpa_cleanup_module
<1> DEFINE f == cpa_init_module
<1>1. /\ Len(f.take) = 2 /\ Len(f.drop) = 2
      /\ f.take[1] = {"bus_type"} /\ f.take[2] = {"pci_driver"}
      /\ f.drop[1] = {"bus_type"}
      /\ f.goto[1] = 2 /\ f.goto[2] = 1
  BY DEF cpa_init_module
<1> SUFFICES Mirrored(f) /\ Taken(f) = {"bus_type", "pci_driver"}
  BY DEF cpa_cleanup_module
<1> HIDE DEF f
<1> QED BY <1>1 DEF Mirrored, Taken

LEMMA AdaptorProbeMirrored ==
  Mirrored(cpa_adaptor_probe) /\ Taken(cpa_adaptor_probe) = cpa_adaptor_remove
<1> DEFINE f == cpa_adaptor_probe
<1>1. /\ Len(f.take) = 7 /\ Len(f.drop) = 7
      /\ f.take[1] = {"pci_enabled"} /\ f.take[2] = {"regions"} /\ f.take[3] = {"adaptor"}
      /\ f.take[4] = {"cmd"} /\ f.take[5] = {"data"} /\ f.take[6] = {"cpn_bus"} /\ f.take[7] = {}
  BY DEF cpa_adaptor_probe
<1>2. /\ \A k \in 1..7 : f.goto[k] = 8 - k
      /\ \A i \in 1..6 : f.drop[7 - i] = f.take[i]
  BY DEF cpa_adaptor_probe
<1> SUFFICES Mirrored(f) /\ Taken(f) = {"cpn_bus", "data", "cmd", "regions", "adaptor", "pci_enabled"}
  BY DEF cpa_adaptor_remove
<1> HIDE DEF f
<1>3. Mirrored(f)
  <2> SUFFICES ASSUME NEW k \in 1..7, NEW i \in 1..(k - 1)
               PROVE  \E j \in f.goto[k]..Len(f.drop) : f.take[i] \subseteq f.drop[j]
    BY <1>1 DEF Mirrored
  <2>1. i \in 1..6 /\ 7 - i \in f.goto[k]..Len(f.drop)
    BY <1>1, <1>2
  <2> QED BY <1>2, <2>1
<1>4. Taken(f) = {"cpn_bus", "data", "cmd", "regions", "adaptor", "pci_enabled"}
  <2>1. 1..Len(f.take) = {1, 2, 3, 4, 5, 6, 7}
    BY <1>1
  <2>2. Taken(f) = UNION {f.take[i] : i \in {1, 2, 3, 4, 5, 6, 7}}
    BY <2>1 DEF Taken
  <2>3. Taken(f) = f.take[1] \cup f.take[2] \cup f.take[3] \cup f.take[4] \cup f.take[5]
                     \cup f.take[6] \cup f.take[7]
    BY <2>2
  <2> QED BY <1>1, <2>3
<1> QED BY <1>3, <1>4

LEMMA PardInitMirrored ==
  Mirrored(pardg5v_init_module) /\ Taken(pardg5v_init_module) = pardg5v_cleanup_module
<1> DEFINE f == pardg5v_init_module
<1>1. /\ Len(f.take) = 4 /\ Len(f.drop) = 4
      /\ f.take[1] = {"cpa_kset"} /\ f.take[2] = {"cpdev_class"} /\ f.take[3] = {"chrdev_region"}
      /\ f.take[4] = {"cp_driver"}
  BY DEF pardg5v_init_module
<1>2. /\ \A k \in 1..4 : f.goto[k] = 5 - k
      /\ \A i \in 1..3 : f.drop[4 - i] = f.take[i]
  BY DEF pardg5v_init_module
<1> SUFFICES Mirrored(f) /\ Taken(f) = {"cp_driver", "cpdev_class", "chrdev_region", "cpa_kset"}
  BY DEF pardg5v_cleanup_module
<1> HIDE DEF f
<1>3. Mirrored(f)
  <2> SUFFICES ASSUME NEW k \in 1..4, NEW i \in 1..(k - 1)
               PROVE  \E j \in f.goto[k]..Len(f.drop) : f.take[i] \subseteq f.drop[j]
    BY <1>1 DEF Mirrored
  <2>1. i \in 1..3 /\ 4 - i \in f.goto[k]..Len(f.drop)
    BY <1>1, <1>2
  <2> QED BY <1>2, <2>1
<1>4. Taken(f) = f.take[1] \cup f.take[2] \cup f.take[3] \cup f.take[4]
  BY <1>1 DEF Taken
<1> QED BY <1>1, <1>3, <1>4

LEMMA CpDeviceMirrored ==
  ASSUME NEW p \in Planes
  PROVE  Mirrored(CpDevice[p]) /\ Taken(CpDevice[p]) = CpFree[p] /\ Len(CpDevice[p].take) = 4
<1> DEFINE f == CpDevice[p]
<1>1. /\ Len(f.take) = 4 /\ Len(f.drop) = 4
      /\ f.take[1] = {<<"cp", p>>} /\ f.take[2] = {} /\ f.take[3] = {<<"sysdev", p>>}
      /\ f.take[4] = {<<"cdev", p>>}
      /\ f.drop[3] = {<<"cp", p>>} /\ f.drop[2] = {} /\ f.drop[1] = {<<"sysdev", p>>}
      /\ CpFree[p] = {<<"cdev", p>>, <<"sysdev", p>>, <<"cp", p>>}
  BY DEF CpDevice, CpFree
<1>2. /\ \A k \in 1..4 : f.goto[k] = 5 - k
      /\ \A i \in 1..3 : f.drop[4 - i] = f.take[i]
  BY DEF CpDevice
<1> HIDE DEF f
<1>3. Mirrored(f)
  <2> SUFFICES ASSUME NEW k \in 1..4, NEW i \in 1..(k - 1)
               PROVE  \E j \in f.goto[k]..Len(f.drop) : f.take[i] \subseteq f.drop[j]
    BY <1>1 DEF Mirrored
  <2>1. i \in 1..3 /\ 4 - i \in f.goto[k]..Len(f.drop)
    BY <1>1, <1>2
  <2> QED BY <1>2, <2>1
<1>4. Taken(f) = f.take[1] \cup f.take[2] \cup f.take[3] \cup f.take[4]
  BY <1>1 DEF Taken
<1>5. Taken(f) = CpFree[p]
  BY <1>1, <1>4
<1> QED BY <1>1, <1>3, <1>5 DEF f

-----------------------------------------------------------------------------
(* The invariant holds initially and is preserved by every step.           *)

LEMMA InitIInv == Init => IInv
<1> SUFFICES ASSUME Init PROVE IInv
  OBVIOUS
<1> USE PrmAssumption DEF Init
<1>1. TypeOK
  <2>1. 0 \in 0..NumberOfCpDevices
    OBVIOUS
  <2>2. refs \in [Planes -> Nat] /\ file \in [Procs -> Planes \cup {NoPlane}]
    OBVIOUS
  <2>3. cpList \in [IdTable -> SUBSET (Numbers \X Planes)]
    OBVIOUS
  <2> QED BY <2>1, <2>2, <2>3 DEF TypeOK
<1>2. Resources
  BY DEF Resources
<1>3. Binding /\ Nodes /\ Released
  BY DEF Binding, Nodes, Released, HeldPlanes
<1>4. RefsBalanced /\ OpenFiles
  BY DEF RefsBalanced, OpenFiles
<1> QED BY <1>1, <1>2, <1>3, <1>4 DEF IInv

\* What pardg5v holds has a type it has operations for, and all of these
\* allocate and free alike.
LEMMA Operations ==
  ASSUME NEW p \in Planes, NEW op \in get_control_plane_op(Type[p])
  PROVE  Type[p] \in IdTable /\ op.allocate = CpDevice /\ op.free = CpFree
BY DEF get_control_plane_op, control_plane_tbl, sys_cp_op, ioh_cp_op, ich_cp_op, IdTable

LEMMA HeldTypes ==
  ASSUME IInv, NEW p \in HeldPlanes
  PROVE  p \in Planes /\ Type[p] \in IdTable
<1>1. p \in Planes
  BY DEF IInv, TypeOK, HeldPlanes
<1>2. PICK op : op \in get_control_plane_op(Type[p])
  BY DEF IInv, Binding
<1> QED BY <1>1, <1>2, Operations

\* The list stays a list of entries that are allocated or not.
LEMMA ListedList ==
  ASSUME NEW list \in Seq(BOOLEAN), NEW a
  PROVE  Listed(list, a) \in Seq(BOOLEAN)
<1> DEFINE b == Succeeds(cpa_adaptor_probe, a)
<1>1. b \in BOOLEAN
  BY DEF Succeeds
<1> HIDE DEF b
<1>2. Append(list, b) \in Seq(BOOLEAN)
  BY <1>1
<1> QED BY <1>2 DEF Listed, b

LEMMA InsmodCpaStep ==
  ASSUME IInv, InsmodCpa
  PROVE  IInv'
<1> USE DEF InsmodCpa
<1>1. PICK k \in Outcomes(cpa_init_module), a \in Outcomes(cpa_adaptor_probe) : InsmodCpa!(k, a)
  BY Zenon
<1> DEFINE live == Succeeds(cpa_init_module, k)
           bound == live /\ Succeeds(cpa_adaptor_probe, a)
<1>2. /\ cpa = "out" /\ cpa' = (IF live THEN "in" ELSE "out")
      /\ res' = res \cup Outcome(cpa_init_module, k)
                      \cup (IF live THEN Outcome(cpa_adaptor_probe, a) ELSE {})
      /\ bus' = IF bound THEN planes ELSE {}
  BY <1>1
<1>3. res' = (IF live THEN cpa_cleanup_module ELSE {}) \cup (IF bound THEN cpa_adaptor_remove ELSE {})
  <2>1. res = {}
    BY <1>2 DEF IInv, Resources
  <2>2. Outcome(cpa_init_module, k) = IF live THEN cpa_cleanup_module ELSE {}
    BY AllOrNothing, InitModuleMirrored
  <2>3. Outcome(cpa_adaptor_probe, a)
          = IF Succeeds(cpa_adaptor_probe, a) THEN cpa_adaptor_remove ELSE {}
    BY AllOrNothing, AdaptorProbeMirrored
  <2> QED BY <1>2, <2>1, <2>2, <2>3
<1>4. "adaptor" \in res' <=> bound
  BY <1>3 DEF cpa_cleanup_module, cpa_adaptor_remove
<1>5. pardg5v = "out" /\ driver = {} /\ probing = NoPlane /\ HeldPlanes = {}
  BY <1>2, PrmAssumption DEF IInv, Resources, Binding, HeldPlanes, TypeOK
<1>6. cpa' \in {"out", "in"} /\ (cpa' = "in" <=> live) /\ bus' \in SUBSET Planes
  BY <1>2 DEF IInv, TypeOK, Planes, Succeeds
<1> HIDE DEF live, bound
<1>7. refs' = [p \in Planes |-> IF p \in bus' THEN 1 ELSE 0]
  OBVIOUS
<1>13. adaptors' \in Seq(BOOLEAN)
  <2>1. << >> \in Seq(BOOLEAN)
    OBVIOUS
  <2>2. Listed(<< >>, a) \in Seq(BOOLEAN)
    BY <2>1, ListedList
  <2>3. adaptors' = IF live THEN Listed(<< >>, a) ELSE << >>
    BY <1>1 DEF live
  <2> QED BY <2>1, <2>2, <2>3
<1>8. UNCHANGED <<planes, pardg5v, devRes, driver, todo, probing, cdevs, cpList, cdevNr, file, torn>>
  OBVIOUS
<1> USE ONLY <1>2, <1>3, <1>4, <1>5, <1>6, <1>7, <1>8, <1>13, IInv
<1>9. TypeOK'
  BY DEF IInv, TypeOK
<1>10. Resources'
  BY DEF bound, Resources
<1>11. Binding' /\ Nodes' /\ Released' /\ OpenFiles'
  BY DEF IInv, Binding, Nodes, Released, OpenFiles, HeldPlanes
<1>12. RefsBalanced'
  BY PrmAssumption DEF RefsBalanced
<1> QED BY <1>9, <1>10, <1>11, <1>12 DEF IInv

\* The planes go, from the bus and from the driver; what the modules themselves
\* hold of the kernel is up to the caller.
LEMMA RemovePlanesStep ==
  ASSUME IInv, RemovePlanes, cpa' \in {"out", "in"}, adaptors' \in Seq(BOOLEAN), Resources',
         UNCHANGED <<planes, pardg5v, probing, cdevNr, file>>
  PROVE  IInv'
<1> USE DEF RemovePlanes
<1>1. HeldPlanes = driver /\ driver \subseteq bus /\ driver' = {} /\ HeldPlanes' = {} /\ NoPlane \notin driver
  BY PrmAssumption DEF IInv, Binding, HeldPlanes, TypeOK
<1>2. \A p \in Planes : refs'[p] = 0
  BY <1>1, PrmAssumption DEF IInv, RefsBalanced, TypeOK
<1>3. refs' \in [Planes -> Nat]
  <2>1. refs' = [p \in Planes |-> refs'[p]]
    OBVIOUS
  <2> QED BY <1>2, <2>1
<1>4. cdevs' = {}
  BY <1>1 DEF IInv, Nodes
<1>5. \A t \in IdTable : cpList'[t] = {}
  BY <1>1 DEF IInv, Nodes
<1>6. TypeOK'
  <2>1. cpList' = [t \in IdTable |-> cpList'[t]]
    OBVIOUS
  <2>2. cpList' \in [IdTable -> SUBSET (Numbers \X Planes)]
    BY <1>5, <2>1
  <2> QED BY <1>1, <1>3, <1>4, <2>2 DEF IInv, TypeOK
<1>7. Binding'
  BY <1>1 DEF IInv, Binding
<1>8. Nodes'
  BY <1>1, <1>4, <1>5 DEF Nodes
<1>9. Released'
  <2>1. ASSUME NEW p \in Planes PROVE devRes' \cap CpFree[p] = {}
    <3>1. CASE p \in driver
      BY <3>1
    <3>2. CASE p \notin driver
      BY <1>1, <3>2 DEF IInv, Released
    <3> QED BY <3>1, <3>2
  <2> QED BY <2>1 DEF Released
<1>10. RefsBalanced'
  BY <1>1, <1>2, PrmAssumption DEF RefsBalanced
<1>11. OpenFiles'
  BY DEF IInv, OpenFiles
<1> QED BY <1>6, <1>7, <1>8, <1>9, <1>10, <1>11 DEF IInv

LEMMA RmmodCpaStep ==
  ASSUME IInv, RmmodCpa
  PROVE  IInv'
<1> USE DEF RmmodCpa
<1>1. CASE "adaptor" \in res
  <2>1. res = cpa_cleanup_module \cup cpa_adaptor_remove
    BY <1>1 DEF IInv, Resources
  <2>2. Resources'
    BY <1>1, <2>1 DEF Resources, RemovePlanes
  <2>3. adaptors' \in Seq(BOOLEAN)
    OBVIOUS
  <2> QED BY <1>1, <2>2, <2>3, RemovePlanesStep
<1>2. CASE "adaptor" \notin res
  <2>1. HeldPlanes = {} /\ driver = {} /\ probing = NoPlane
    BY PrmAssumption DEF IInv, Binding, HeldPlanes, TypeOK
  <2>2. TypeOK' /\ Resources'
    BY <1>2 DEF IInv, TypeOK, Resources
  <2>3. Binding' /\ Nodes' /\ Released' /\ OpenFiles'
    BY <1>2, <2>1 DEF IInv, Binding, Nodes, Released, OpenFiles, HeldPlanes
  <2>4. RefsBalanced'
    BY <1>2 DEF IInv, RefsBalanced
  <2> QED BY <2>2, <2>3, <2>4 DEF IInv
<1> QED BY <1>1, <1>2

LEMMA UnbindAdaptorStep ==
  ASSUME IInv, UnbindAdaptor
  PROVE  IInv'
<1> USE DEF UnbindAdaptor
<1>1. res = cpa_cleanup_module \cup cpa_adaptor_remove
              \cup (IF pardg5v # "out" THEN pardg5v_cleanup_module ELSE {})
  BY DEF IInv, Resources
<1>2. /\ cpa_adaptor_remove \cap cpa_cleanup_module = {}
      /\ cpa_adaptor_remove \cap pardg5v_cleanup_module = {}
      /\ "adaptor" \in cpa_adaptor_remove
  BY DEF cpa_adaptor_remove, cpa_cleanup_module, pardg5v_cleanup_module
<1>3. res' = cpa_cleanup_module \cup (IF pardg5v # "out" THEN pardg5v_cleanup_module ELSE {})
  BY <1>1, <1>2
<1>4. "adaptor" \notin res' /\ bus' = {}
  BY <1>2 DEF RemovePlanes
<1>5. Resources'
  BY <1>3, <1>4 DEF IInv, Resources
<1>6. adaptors' \in Seq(BOOLEAN)
  <2>1. adaptors \in Seq(BOOLEAN)
    BY DEF IInv, TypeOK
  <2>2. adaptors \in [1..Len(adaptors) -> BOOLEAN] /\ Len(adaptors) \in Nat
    BY <2>1
  <2>3. adaptors' \in [1..Len(adaptors) -> BOOLEAN]
    BY <2>2, Zenon
  <2> QED BY <2>2, <2>3, SeqDef
<1> QED BY <1>5, <1>6, RemovePlanesStep

LEMMA BindAdaptorStep ==
  ASSUME IInv, BindAdaptor
  PROVE  IInv'
<1> USE DEF BindAdaptor
<1>1. PICK a \in Outcomes(cpa_adaptor_probe) : BindAdaptor!(a)
  BY Zenon
<1> DEFINE bound == Succeeds(cpa_adaptor_probe, a)
<1>2. /\ cpa = "in" /\ pardg5v = "out" /\ "adaptor" \notin res
      /\ bus' = (IF bound THEN planes ELSE {})
      /\ res' = res \cup (IF bound THEN cpa_adaptor_remove ELSE {})
  BY <1>1, AllOrNothing, AdaptorProbeMirrored
<1>3. res = cpa_cleanup_module
  BY <1>2 DEF IInv, Resources
<1>4. HeldPlanes = {} /\ driver = {} /\ probing = NoPlane
  BY <1>2, PrmAssumption DEF IInv, Binding, HeldPlanes, TypeOK
<1>5. bus' \in SUBSET Planes
  BY <1>2 DEF IInv, TypeOK, Planes
<1> HIDE DEF bound
<1>6. refs' = [p \in Planes |-> IF p \in bus' THEN 1 ELSE 0]
  BY <1>1
<1>7. UNCHANGED <<planes, cpa, pardg5v, devRes, driver, todo, probing, cdevs, cpList, cdevNr, file, torn>>
  BY <1>1
<1>12. adaptors' \in Seq(BOOLEAN)
  BY <1>1, ListedList DEF IInv, TypeOK
<1> USE ONLY <1>2, <1>3, <1>4, <1>5, <1>6, <1>7, <1>12, IInv
<1>8. TypeOK'
  BY DEF IInv, TypeOK
<1>9. Resources'
  <2>1. "adaptor" \notin cpa_cleanup_module /\ "adaptor" \in cpa_adaptor_remove
    BY DEF cpa_cleanup_module, cpa_adaptor_remove
  <2> QED BY <2>1 DEF Resources
<1>10. Binding' /\ Nodes' /\ Released' /\ OpenFiles'
  BY DEF IInv, Binding, Nodes, Released, OpenFiles, HeldPlanes
<1>11. RefsBalanced'
  BY PrmAssumption DEF RefsBalanced
<1> QED BY <1>8, <1>9, <1>10, <1>11 DEF IInv

LEMMA RemoveStaleStep ==
  ASSUME IInv, RemoveStale
  PROVE  IInv'
<1> USE DEF RemoveStale
<1>1. TypeOK' /\ Resources'
  BY DEF IInv, TypeOK, Resources
<1>2. Binding' /\ Nodes' /\ Released'
  BY DEF IInv, Binding, Nodes, Released, HeldPlanes
<1>3. RefsBalanced' /\ OpenFiles'
  BY DEF IInv, RefsBalanced, OpenFiles
<1> QED BY <1>1, <1>2, <1>3 DEF IInv

LEMMA InsmodPardStep ==
  ASSUME IInv, InsmodPard
  PROVE  IInv'
<1> USE DEF InsmodPard
<1>1. PICK k \in Outcomes(pardg5v_init_module) : InsmodPard!(k)
  BY Zenon
<1> DEFINE ok == Succeeds(pardg5v_init_module, k)
<1>2. /\ cpa # "out" /\ pardg5v = "out" /\ cdevNr' = 0
      /\ pardg5v' = (IF ok THEN "coming" ELSE "out")
      /\ todo' = (IF ok THEN bus ELSE {})
      /\ res' = res \cup (IF ok THEN pardg5v_cleanup_module ELSE {})
      /\ UNCHANGED <<planes, cpa, adaptors, devRes, bus, refs, driver, probing, cdevs, cpList, file, torn>>
  BY <1>1, AllOrNothing, PardInitMirrored
<1>3. HeldPlanes = {} /\ driver = {} /\ probing = NoPlane
  BY <1>2, PrmAssumption DEF IInv, Binding, HeldPlanes, TypeOK
<1>4. cdevs = {}
  BY <1>3 DEF IInv, Nodes
<1> HIDE DEF ok
<1> USE ONLY <1>2, <1>3, <1>4, IInv
<1>5. TypeOK'
  BY PrmAssumption DEF IInv, TypeOK
<1>6. Resources'
  <2>1. "adaptor" \in res' <=> "adaptor" \in res
    BY DEF pardg5v_cleanup_module
  <2> QED BY <2>1 DEF IInv, Resources
<1>7. Binding' /\ Released' /\ OpenFiles'
  BY DEF IInv, Binding, Released, OpenFiles, HeldPlanes
<1>8. Nodes' /\ RefsBalanced'
  BY DEF IInv, Nodes, RefsBalanced, HeldPlanes
<1> QED BY <1>5, <1>6, <1>7, <1>8 DEF IInv

LEMMA LoadedStep ==
  ASSUME IInv, Loaded
  PROVE  IInv'
<1> USE DEF Loaded
<1>1. TypeOK' /\ Resources'
  BY DEF IInv, TypeOK, Resources
<1>2. Binding' /\ Nodes' /\ Released'
  BY DEF IInv, Binding, Nodes, Released, HeldPlanes
<1>3. RefsBalanced' /\ OpenFiles'
  BY DEF IInv, RefsBalanced, OpenFiles
<1> QED BY <1>1, <1>2, <1>3 DEF IInv

LEMMA RmmodPardStep ==
  ASSUME IInv, RmmodPard
  PROVE  IInv'
<1> USE DEF RmmodPard
<1>1. TypeOK' /\ Resources'
  BY DEF IInv, TypeOK, Resources
<1>2. Binding' /\ Nodes' /\ Released'
  BY DEF IInv, Binding, Nodes, Released, HeldPlanes
<1>3. RefsBalanced' /\ OpenFiles'
  BY DEF IInv, RefsBalanced, OpenFiles, Pinned
<1> QED BY <1>1, <1>2, <1>3 DEF IInv

LEMMA UnloadedStep ==
  ASSUME IInv, Unloaded
  PROVE  IInv'
<1> USE DEF Unloaded
<1>1. TypeOK'
  BY DEF IInv, TypeOK
<1>2. Resources'
  <2>1. cpa # "out" /\ ("adaptor" \in res' <=> "adaptor" \in res)
    BY DEF IInv, Resources, pardg5v_cleanup_module
  <2>2. res = cpa_cleanup_module \cup (IF "adaptor" \in res THEN cpa_adaptor_remove ELSE {})
                \cup pardg5v_cleanup_module
    BY DEF IInv, Resources
  <2>3. cpa_cleanup_module \cap pardg5v_cleanup_module = {}
        /\ cpa_adaptor_remove \cap pardg5v_cleanup_module = {}
    BY DEF cpa_cleanup_module, cpa_adaptor_remove, pardg5v_cleanup_module
  <2>4. res' = cpa_cleanup_module \cup (IF "adaptor" \in res THEN cpa_adaptor_remove ELSE {})
    BY <2>2, <2>3
  <2> QED BY <2>1, <2>4 DEF IInv, Resources
<1>3. Binding' /\ Nodes' /\ Released'
  BY PrmAssumption DEF IInv, Binding, Nodes, Released, HeldPlanes
<1>4. RefsBalanced' /\ OpenFiles'
  BY DEF IInv, RefsBalanced, OpenFiles
<1> QED BY <1>1, <1>2, <1>3, <1>4 DEF IInv

LEMMA ProbedStep ==
  ASSUME IInv, Probed
  PROVE  IInv'
<1> USE DEF Probed, loading
<1>1. HeldPlanes' = HeldPlanes /\ probing \in HeldPlanes
  BY DEF HeldPlanes
<1>2. Type[probing] \in IdTable /\ probing \in Planes
  BY <1>1, HeldTypes
<1>3. TypeOK'
  <2>1. cpList' \in [IdTable -> SUBSET (Numbers \X Planes)]
    BY DEF IInv, TypeOK
  <2> QED BY <1>2, <2>1 DEF IInv, TypeOK
<1>4. Resources' /\ Released'
  BY <1>1 DEF IInv, Resources, Released
<1>5. Binding'
  BY <1>1, <1>2, PrmAssumption DEF IInv, Binding, TypeOK
<1>6. Nodes'
  <2>1. \A c \in cdevs : c[2] # NoPlane
    BY PrmAssumption DEF IInv, TypeOK
  <2>2. ASSUME NEW t \in IdTable
        PROVE  cpList'[t] = {c \in cdevs : Type[c[2]] = t /\ c[2] # probing'}
    <3>1. cpList[t] = {c \in cdevs : Type[c[2]] = t /\ c[2] # probing}
      BY DEF IInv, Nodes
    <3>2. cpList'[t] = IF t = Type[probing] THEN cpList[t] \cup {c \in cdevs : c[2] = probing}
                                            ELSE cpList[t]
      BY DEF IInv, TypeOK
    <3> QED BY <2>1, <3>1, <3>2
  <2> QED BY <1>1, <2>2 DEF IInv, Nodes
<1>7. RefsBalanced'
  BY PrmAssumption DEF IInv, RefsBalanced
<1>8. OpenFiles'
  BY DEF IInv, OpenFiles
<1> QED BY <1>3, <1>4, <1>5, <1>6, <1>7, <1>8 DEF IInv

LEMMA CloseStep ==
  ASSUME NEW q \in Procs, IInv, Close(q)
  PROVE  IInv'
<1> USE DEF Close, loading
<1>1. TypeOK'
  BY DEF IInv, TypeOK
<1>2. Resources' /\ RefsBalanced'
  BY DEF IInv, Resources, RefsBalanced
<1>3. Binding' /\ Nodes' /\ Released'
  BY DEF IInv, Binding, Nodes, Released, HeldPlanes
<1>4. OpenFiles'
  BY DEF IInv, OpenFiles, TypeOK
<1> QED BY <1>1, <1>2, <1>3, <1>4 DEF IInv

LEMMA OpenStep ==
  ASSUME NEW q \in Procs, NEW c \in Numbers \X Planes, IInv, Open(q, c)
  PROVE  IInv'
<1> USE DEF Open, loading
<1>1. c[2] \in HeldPlanes /\ Type[c[2]] \in IdTable
  BY HeldTypes DEF IInv, Nodes
<1>2. PICK e \in CpOpen(Type[c[2]], c[1]) : file' = [file EXCEPT ![q] = e[2]]
  OBVIOUS
<1>3. e \in cdevs /\ e[2] # probing
  BY <1>1 DEF IInv, Nodes, CpOpen
<1>4. e[2] \in driver /\ e[2] \in Planes
  BY <1>3 DEF IInv, Nodes, HeldPlanes, TypeOK
<1>5. TypeOK'
  BY <1>2, <1>4 DEF IInv, TypeOK
<1>6. Resources' /\ RefsBalanced'
  BY DEF IInv, Resources, RefsBalanced
<1>7. Binding' /\ Nodes' /\ Released'
  BY DEF IInv, Binding, Nodes, Released, HeldPlanes
<1>8. OpenFiles'
  BY <1>2, <1>4 DEF IInv, OpenFiles, TypeOK
<1> QED BY <1>5, <1>6, <1>7, <1>8 DEF IInv

\* A probe that fails gives back the reference and everything it took.
LEMMA ProbeFailsStep ==
  ASSUME IInv, pardg5v \in {"coming", "in"}, todo' \in SUBSET Planes,
         probing = NoPlane, probing' = NoPlane, refs' = refs, devRes' = devRes, cdevs' = cdevs,
         cdevNr' \in {cdevNr, cdevNr + 1}, cdevNr' \in 0..NumberOfCpDevices,
         UNCHANGED <<loading, res, adaptors, bus, driver, cpList, file, torn>>
  PROVE  IInv'
<1> USE DEF loading
<1>1. TypeOK' /\ Resources'
  BY DEF IInv, TypeOK, Resources
<1>2. HeldPlanes' = HeldPlanes
  BY DEF HeldPlanes
<1>3. Binding' /\ Released'
  BY <1>2 DEF IInv, Binding, Released
<1>4. Nodes'
  <2>1. \A c \in cdevs : c[1] < cdevNr'
    <3>1. \A c \in cdevs : c[1] \in Int
      BY DEF IInv, TypeOK, Numbers
    <3> QED BY <3>1, PrmAssumption DEF IInv, Nodes, TypeOK
  <2> QED BY <1>2, <2>1 DEF IInv, Nodes
<1>5. RefsBalanced' /\ OpenFiles'
  BY DEF IInv, RefsBalanced, OpenFiles
<1> QED BY <1>1, <1>3, <1>4, <1>5 DEF IInv

\* A probe that succeeds has a number that no other node has.
LEMMA ProbeSucceedsStep ==
  ASSUME IInv, NEW p \in bus \ driver, pardg5v \in {"coming", "in"}, todo' \in SUBSET Planes,
         probing = NoPlane, probing' = p, get_control_plane_op(Type[p]) # {},
         cdevNr < NumberOfCpDevices, cdevNr' = cdevNr + 1,
         cdevs' = cdevs \cup {<<cdevNr, p>>},
         devRes' = devRes \cup CpFree[p], refs' = [refs EXCEPT ![p] = @ + 1],
         UNCHANGED <<loading, res, adaptors, bus, driver, cpList, file, torn>>
  PROVE  IInv'
<1> USE DEF loading
<1>1. /\ p \in Planes /\ p # NoPlane /\ NoPlane \notin driver
      /\ cdevNr \in Numbers /\ cdevNr' \in 0..NumberOfCpDevices /\ cdevNr' > cdevNr
  BY PrmAssumption DEF IInv, TypeOK, Numbers
<1>2. HeldPlanes = driver /\ HeldPlanes' = HeldPlanes \cup {p} /\ p \notin HeldPlanes
  BY <1>1 DEF HeldPlanes
<1>3. TypeOK'
  <2>1. refs' \in [Planes -> Nat]
    BY <1>1 DEF IInv, TypeOK
  <2> QED BY <1>1, <2>1 DEF IInv, TypeOK
<1>4. Resources' /\ OpenFiles'
  BY DEF IInv, Resources, OpenFiles
<1>5. Binding'
  BY <1>1, <1>2 DEF IInv, Binding
<1>6. Nodes'
  <2>1. \A c \in cdevs : c[1] \in Int /\ c[1] < cdevNr /\ c[2] \in HeldPlanes
    BY DEF IInv, TypeOK, Nodes, Numbers
  <2>2. \A c \in cdevs : c[1] # cdevNr /\ c[1] < cdevNr' /\ c[2] # p
    BY <1>1, <1>2, <2>1 DEF Numbers
  <2>3. \A c \in cdevs' : c[1] < cdevNr' /\ c[2] \in HeldPlanes'
    BY <1>1, <1>2, <2>1, <2>2
  <2>4. \A c, d \in cdevs' : c[1] = d[1] \/ c[2] = d[2] => c = d
    BY <2>2 DEF IInv, Nodes
  <2>5. \A q \in HeldPlanes' : \E c \in cdevs' : c[2] = q
    <3>1. \A q \in HeldPlanes : \E c \in cdevs : c[2] = q
      BY DEF IInv, Nodes
    <3>2. <<cdevNr, p>> \in cdevs' /\ <<cdevNr, p>>[2] = p
      OBVIOUS
    <3> QED BY <1>2, <3>1, <3>2
  <2>6. ASSUME NEW t \in IdTable
        PROVE  cpList'[t] = {c \in cdevs' : Type[c[2]] = t /\ c[2] # probing'}
    <3>1. cpList[t] = {c \in cdevs : Type[c[2]] = t /\ c[2] # probing}
      BY DEF IInv, Nodes
    <3>2. \A c \in cdevs : c[2] # probing
      BY <1>1, <1>2, <2>1
    <3> QED BY <2>2, <3>1, <3>2
  <2> QED BY <2>3, <2>4, <2>5, <2>6 DEF Nodes
<1>7. Released'
  <2>1. \A q \in Planes : q # p => CpFree[q] \cap CpFree[p] = {}
    BY <1>1 DEF CpFree
  <2>2. \A q \in Planes \ HeldPlanes : devRes \cap CpFree[q] = {}
    BY DEF IInv, Released
  <2>3. \A q \in Planes \ HeldPlanes' : devRes' \cap CpFree[q] = {}
    BY <1>2, <2>1, <2>2
  <2> QED BY <2>3 DEF Released
<1>8. RefsBalanced'
  <2>1. refs[p] = 1
    BY <1>1 DEF IInv, RefsBalanced
  <2>2. ASSUME NEW q \in Planes
        PROVE  refs'[q] = IF q = p THEN 2 ELSE refs[q]
    BY <1>1, <2>1 DEF IInv, TypeOK
  <2>3. ASSUME NEW q \in Planes
        PROVE  refs'[q] = (IF q \in bus' THEN 1 ELSE 0)
                            + (IF q \in driver' \cup {probing'} THEN 1 ELSE 0)
    BY <1>1, <2>2, PrmAssumption DEF IInv, RefsBalanced
  <2> QED BY <2>3 DEF RefsBalanced
<1> QED BY <1>3, <1>4, <1>5, <1>6, <1>7, <1>8 DEF IInv

LEMMA ProbeStep ==
  ASSUME NEW p \in Planes, IInv, Probe(p), pardg5v \in {"coming", "in"}, todo' \in SUBSET Planes
  PROVE  IInv'
<1>1. /\ probing = NoPlane /\ p \in bus \ driver
      /\ UNCHANGED <<loading, res, adaptors, bus, driver, cpList, file, torn>>
  BY DEF Probe
<1>2. refs \in [Planes -> Nat] /\ cdevNr \in 0..NumberOfCpDevices /\ NumberOfCpDevices \in Nat
  BY PrmAssumption DEF IInv, TypeOK
<1>3. [refs EXCEPT ![p] = PutOnError(@ + 1)] = refs
  BY <1>2 DEF PutOnError
<1>4. CASE NoOperations(p)
  BY <1>1, <1>2, <1>3, <1>4, ProbeFailsStep DEF NoOperations
<1>5. CASE Allocate(p)
  <2>1. PICK op \in get_control_plane_op(Type[p]) :
               \E k \in Outcomes(op.allocate[p]) : Allocate(p)!(op)!(k)
    BY <1>5, Zenon DEF Allocate
  <2>2. op.allocate[p] = CpDevice[p]
    BY Operations
  <2>3. PICK k \in Outcomes(CpDevice[p]) :
          /\ k > 2 => alloc_cp_devno # {}
          /\ devRes' = devRes \cup Outcome(CpDevice[p], k)
          /\ cdevNr' = IF k > 2 THEN NextCdevNr ELSE cdevNr
          /\ refs' = [refs EXCEPT ![p] = IF Succeeds(CpDevice[p], k) THEN @ + 1 ELSE PutOnError(@ + 1)]
          /\ probing' = IF Succeeds(CpDevice[p], k) THEN p ELSE NoPlane
          /\ cdevs' = IF Succeeds(CpDevice[p], k) THEN cdevs \cup (alloc_cp_devno \X {p}) ELSE cdevs
    BY <2>1, <2>2
  <2>4. devRes' = devRes \cup (IF Succeeds(CpDevice[p], k) THEN CpFree[p] ELSE {})
    BY <2>3, AllOrNothing, CpDeviceMirrored
  <2>5. k > 2 => cdevNr < NumberOfCpDevices /\ alloc_cp_devno = {cdevNr}
    BY <2>3 DEF alloc_cp_devno
  <2>6. cdevNr' \in {cdevNr, cdevNr + 1} /\ cdevNr' \in 0..NumberOfCpDevices
    BY <1>2, <2>3, <2>5 DEF NextCdevNr
  <2>7. CASE Succeeds(CpDevice[p], k)
    <3>1. k > 2
      BY <2>7, CpDeviceMirrored DEF Succeeds
    <3>2. cdevs' = cdevs \cup {<<cdevNr, p>>}
      BY <2>3, <2>5, <2>7, <3>1
    <3> QED BY <1>1, <2>1, <2>3, <2>4, <2>5, <2>7, <3>1, <3>2, ProbeSucceedsStep DEF NextCdevNr
  <2>8. CASE ~Succeeds(CpDevice[p], k)
    BY <1>1, <1>3, <2>3, <2>4, <2>6, <2>8, ProbeFailsStep
  <2> QED BY <2>7, <2>8
<1> QED BY <1>4, <1>5 DEF Probe

\* Taking a plane from the driver: the files that have it open are torn, and while
\* the module is unloaded there are none.
LEMMA RemoveStep ==
  ASSUME NEW p \in Planes, IInv, Remove(p),
         \/ pardg5v = "going" /\ p \in todo /\ todo' = todo \ {p}
         \/ pardg5v = "in" /\ probing = NoPlane /\ todo' = todo
  PROVE  IInv'
<1> USE DEF Remove, loading
<1>1. p \in HeldPlanes /\ HeldPlanes' = HeldPlanes \ {p} /\ p # probing /\ p # NoPlane
  BY PrmAssumption DEF IInv, HeldPlanes, Binding, TypeOK
<1>2. Type[p] \in IdTable
  BY <1>1, HeldTypes
<1>3. TypeOK'
  <2>1. refs[p] = 2
    BY <1>1 DEF IInv, RefsBalanced, Binding, HeldPlanes
  <2>2. refs' \in [Planes -> Nat]
    BY <2>1 DEF IInv, TypeOK
  <2>3. cpList' \in [IdTable -> SUBSET (Numbers \X Planes)]
    BY DEF IInv, TypeOK
  <2> QED BY <2>2, <2>3 DEF IInv, TypeOK
<1>4. Resources'
  BY DEF IInv, Resources
<1>5. Binding'
  BY <1>1 DEF IInv, Binding
<1>6. Nodes'
  <2>1. ASSUME NEW t \in IdTable
        PROVE  cpList'[t] = {c \in cdevs' : Type[c[2]] = t /\ c[2] # probing'}
    <3>1. cpList[t] = {c \in cdevs : Type[c[2]] = t /\ c[2] # probing}
      BY DEF IInv, Nodes
    <3>2. cpList'[t] = IF t = Type[p] THEN {e \in cpList[t] : e[2] # p} ELSE cpList[t]
      BY DEF IInv, TypeOK
    <3> QED BY <3>1, <3>2
  <2>2. \A q \in HeldPlanes' : \E c \in cdevs' : c[2] = q
    BY <1>1 DEF IInv, Nodes
  <2> QED BY <1>1, <2>1, <2>2 DEF IInv, Nodes
<1>7. Released'
  <2>1. devRes' = devRes \ CpFree[p]
    BY Operations
  <2> QED BY <1>1, <2>1 DEF IInv, Released
<1>8. RefsBalanced'
  BY <1>1 DEF IInv, RefsBalanced, TypeOK
<1>9. OpenFiles'
  BY DEF IInv, OpenFiles
<1> QED BY <1>3, <1>4, <1>5, <1>6, <1>7, <1>8, <1>9 DEF IInv

LEMMA NextStep == IInv /\ [Next]_vars => IInv'
<1> SUFFICES ASSUME IInv, [Next]_vars PROVE IInv'
  OBVIOUS
<1>1. CASE InsmodCpa \/ RmmodCpa \/ UnbindAdaptor \/ BindAdaptor \/ RemoveStale
  BY <1>1, InsmodCpaStep, RmmodCpaStep, UnbindAdaptorStep, BindAdaptorStep, RemoveStaleStep
<1>2. CASE InsmodPard \/ Loaded \/ RmmodPard \/ Unloaded
  BY <1>2, InsmodPardStep, LoadedStep, RmmodPardStep, UnloadedStep
<1>3. CASE Probed
  BY <1>3, ProbedStep
<1>4. CASE \E p \in Planes : Attach(p) \/ Bind(p)
  <2>1. PICK p \in Planes : Attach(p) \/ Bind(p)
    BY <1>4
  <2>2. Probe(p) /\ pardg5v \in {"coming", "in"} /\ todo' \in SUBSET Planes
    BY <2>1 DEF Attach, Bind, IInv, TypeOK
  <2> QED BY <2>2, ProbeStep
<1>5. CASE \E p \in Planes : Detach(p) \/ Unbind(p)
  BY <1>5, RemoveStep DEF Detach, Unbind
<1>6. CASE \E q \in Procs, c \in Numbers \X Planes : Open(q, c)
  BY <1>6, OpenStep
<1>7. CASE \E q \in Procs : Close(q)
  BY <1>7, CloseStep
<1>8. CASE UNCHANGED vars
  BY <1>8 DEF vars, IInv, TypeOK, Resources, Binding, Nodes, Released, RefsBalanced, OpenFiles,
              HeldPlanes
<1> QED
  BY <1>1, <1>2, <1>3, <1>4, <1>5, <1>6, <1>7, <1>8 DEF Next, OpenFails

LEMMA InvariantHolds == Spec => []IInv
BY InitIInv, NextStep, PTL DEF Spec

-----------------------------------------------------------------------------
(* The properties of the run MCPrmDrivers, for every machine.              *)

\* Every variable of the two modules keeps its type; in particular a device
\* number never leaves the chrdev region of NUMBER_OF_CP_DEVICES numbers
\* (alloc_cp_devno of pardg5v/init.c) and no reference count becomes negative.
THEOREM TypeCorrect == Spec => []TypeOK
<1>1. IInv => TypeOK
  BY DEF IInv
<1> QED BY <1>1, InvariantHolds, PTL

\* Whichever step of cpa_init_module, cpa_adaptor_probe, pardg5v_init_module
\* or a plane's allocation fails, the labels of its error path give back what was
\* taken, but for the entry in g_adaptor_list: modules that are out, an adaptor
\* and planes that are not bound hold nothing.
THEOREM Unwinding == Spec => []Unwound
<1>1. IInv => Unwound
  <2> SUFFICES ASSUME IInv PROVE Unwound
    OBVIOUS
  <2>1. "adaptor" \notin res => res \cap cpa_adaptor_remove = {} /\ bus = {}
    <3>1. /\ cpa_adaptor_remove \cap cpa_cleanup_module = {}
          /\ cpa_adaptor_remove \cap pardg5v_cleanup_module = {}
      BY DEF cpa_adaptor_remove, cpa_cleanup_module, pardg5v_cleanup_module
    <3> QED BY <3>1 DEF IInv, Resources
  <2>2. cpa = "out" => res = {} /\ bus = {}
    BY DEF IInv, Resources
  <2>3. pardg5v = "out" => res \subseteq cpa_adaptor_remove \cup cpa_cleanup_module
    BY DEF IInv, Resources
  <2>4. \A p \in Planes \ (driver \cup {probing}) : devRes \cap CpFree[p] = {}
    BY DEF IInv, Released, HeldPlanes
  <2> QED BY <2>1, <2>2, <2>3, <2>4 DEF Unwound
<1> QED BY <1>1, InvariantHolds, PTL

\* get_device and put_device of cpn_bus_probe, cpn_bus_remove and the
\* adaptor's own probe and remove balance, on every path.
THEOREM References == Spec => []RefsBalanced
<1>1. IInv => RefsBalanced
  BY DEF IInv
<1> QED BY <1>1, InvariantHolds, PTL

\* The list walk of sys_cp_open, ioh_cp_open and ich_cp_open finds the plane
\* that the node was made for, however planes were bound and unbound before.
THEOREM NodeRouting == Spec => []NodesReachTheirPlane
<1>1. IInv => NodesReachTheirPlane
  <2> SUFFICES ASSUME IInv, NEW c \in cdevs
               PROVE  /\ \A d \in cdevs : d[1] = c[1] => d = c
                      /\ c[2] # probing => CpOpen(Type[c[2]], c[1]) = {c}
    BY DEF NodesReachTheirPlane
  <2>1. \A d \in cdevs : d[1] = c[1] => d = c
    BY DEF IInv, Nodes
  <2>2. Type[c[2]] \in IdTable
    BY HeldTypes DEF IInv, Nodes
  <2> QED BY <2>1, <2>2 DEF IInv, Nodes, CpOpen
<1> QED BY <1>1, InvariantHolds, PTL

\* The module count that an open takes (.owner of the file operations) keeps the
\* code of the driver in place until release, and an open plane bound with its node
\* as long as nobody unbinds it or the adaptor.
THEOREM OpenStay == Spec => []OpenPlanesStay
<1>1. IInv => OpenPlanesStay
  <2> SUFFICES ASSUME IInv, NEW q \in Procs, file[q] # NoPlane
               PROVE  /\ pardg5v \in {"coming", "in"}
                      /\ q \notin torn => /\ file[q] \in bus \cap driver
                                         /\ \E n \in Numbers : <<n, file[q]>> \in cdevs
    BY DEF OpenPlanesStay
  <2>1. pardg5v \in {"coming", "in"} /\ (q \notin torn => file[q] \in driver)
    BY DEF IInv, OpenFiles
  <2>2. ASSUME q \notin torn
        PROVE  file[q] \in bus \cap driver /\ \E n \in Numbers : <<n, file[q]>> \in cdevs
    <3>1. file[q] \in driver /\ file[q] \in HeldPlanes
      BY <2>1, <2>2 DEF HeldPlanes
    <3>2. PICK c \in cdevs : c[2] = file[q]
      BY <3>1 DEF IInv, Nodes
    <3>3. c[1] \in Numbers /\ c = <<c[1], file[q]>>
      BY <3>2 DEF IInv, TypeOK
    <3> QED BY <3>1, <3>2, <3>3 DEF IInv, Binding
  <2> QED BY <2>1, <2>2
<1> QED BY <1>1, InvariantHolds, PTL

=============================================================================
