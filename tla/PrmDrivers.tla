----------------------------- MODULE PrmDrivers -----------------------------
(***************************************************************************)
(* The two PRM kernel modules: cpa, which binds the control plane adaptor  *)
(* on PCI and registers every control plane behind it on the "cpn" bus     *)
(* (cpa/init.c), and pardg5v, whose driver claims those planes and gives   *)
(* each a character device (pardg5v/init.c, ctrlplane.c, cpfops.c, sys.c,  *)
(* ioh.c, ich.c).  Every allocation may fail, and the goto labels undo     *)
(* what was taken.  Loading and unloading the modules, binding the adaptor *)
(* or a plane by hand and the processes that open the device nodes         *)
(* interleave.  What a file does with its plane (cpn_* register sequences) *)
(* is in CPNetwork.                                                        *)
(***************************************************************************)
EXTENDS Integers, Sequences, FiniteSets

CONSTANTS
    Machines,             \* the sets of control planes an adaptor may have
    Type,                 \* the class letter each plane answers with
    Procs,                \* the processes that open device nodes
    NumberOfCpDevices,    \* NUMBER_OF_CP_DEVICES
    MaxAdaptors,          \* bound: adaptors allocated between insmod and rmmod of cpa
    NoPlane

Planes == UNION Machines
IdTable == {"S", "H", "I", "C", "M", "B"}
Numbers == 0..(NumberOfCpDevices - 1)

ASSUME PrmAssumption == /\ Type \in [Planes -> STRING]
                        /\ NumberOfCpDevices \in Nat \ {0}
                        /\ NoPlane \notin Planes

VARIABLES
    planes,     \* the planes behind the adaptor of this machine
    cpa,        \* state of the module cpa
    pardg5v,    \* state of the module pardg5v
    res,        \* what the modules took from the kernel and hold
    adaptors,   \* g_adaptor_list: is the entry's memory still allocated
    devRes,     \* what each plane's device took: <<kind, plane>>
    bus,        \* adaptor->bus->devices: the registered planes
    refs,       \* reference count of each plane's struct device
    driver,     \* planes whose cp_dev->driver is set
    todo,       \* planes driver_register has still to offer to the driver
    probing,    \* the plane whose probe is between cdev_add and list_add_tail
    cdevs,      \* character devices that can be opened: <<number, plane>>
    cpList,     \* g_cp_list of sys.c, ioh.c, ich.c: <<number, plane>> by type
    cdevNr,     \* cp_cdev_nr
    file,       \* the plane in private_data of each process's open file
    torn        \* history: processes whose open plane was unbound under them

vars == <<planes, cpa, pardg5v, res, adaptors, devRes, bus, refs, driver, todo, probing,
          cdevs, cpList, cdevNr, file, torn>>
loading == <<planes, cpa, pardg5v>>

-----------------------------------------------------------------------------
(* A function that takes resources one by one: step k takes take[k] or     *)
(* fails and jumps to label goto[k]; control falls through the labels,     *)
(* label j giving back drop[j].                                            *)
BugUnwind(f, k) == UNION {f.drop[j] : j \in (f.goto[k] + 1)..Len(f.drop)}
Unwind(f, k) == UNION {f.drop[j] : j \in f.goto[k]..Len(f.drop)}

Outcome(f, k) == (UNION {f.take[i] : i \in 1..(k - 1)})
                    \ (IF k <= Len(f.take) THEN Unwind(f, k) ELSE {})
Outcomes(f) == 1..(Len(f.take) + 1)
Succeeds(f, k) == k = Len(f.take) + 1

cpa_init_module ==
    [take |-> <<{"bus_type"}, {"pci_driver"}>>,
     goto |-> <<2, 1>>,
     drop |-> <<{"bus_type"}, {}>>]

cpa_adaptor_probe ==
    [take |-> <<{"pci_enabled"}, {"regions"}, {"adaptor"}, {"cmd"}, {"data"}, {"cpn_bus"}, {}>>,
     goto |-> <<7, 6, 5, 4, 3, 2, 1>>,
     drop |-> <<{"cpn_bus"}, {"data"}, {"cmd"}, {"adaptor"}, {"regions"}, {"pci_enabled"}, {}>>]

(* The third step also lists the adaptor, which nothing undoes.            *)
Listed(list, a) == IF a > 3 THEN Append(list, Succeeds(cpa_adaptor_probe, a)) ELSE list

cpa_adaptor_remove == {"cpn_bus", "data", "cmd", "regions", "adaptor", "pci_enabled"}
cpa_cleanup_module == {"pci_driver", "bus_type"}

pardg5v_init_module ==
    [take |-> <<{"cpa_kset"}, {"cpdev_class"}, {"chrdev_region"}, {"cp_driver"}>>,
     goto |-> <<4, 3, 2, 1>>,
     drop |-> <<{"chrdev_region"}, {"cpdev_class"}, {"cpa_kset"}, {}>>]

pardg5v_cleanup_module == {"cp_driver", "cpdev_class", "chrdev_region", "cpa_kset"}

-----------------------------------------------------------------------------
(* The control plane operations of pardg5v.  The three files differ in     *)
(* their type letter and their own g_cp_list only; step 2 takes a device   *)
(* number, step 3 creates the sysfs device, step 4 adds the cdev.          *)
CpDevice == [p \in Planes |->
    [take |-> <<{<<"cp", p>>}, {}, {<<"sysdev", p>>}, {<<"cdev", p>>}>>,
     goto |-> <<4, 3, 2, 1>>,
     drop |-> <<{<<"sysdev", p>>}, {}, {<<"cp", p>>}, {}>>]]

CpFree == [p \in Planes |-> {<<"cdev", p>>, <<"sysdev", p>>, <<"cp", p>>}]

sys_cp_op == [type |-> "S", allocate |-> CpDevice, free |-> CpFree]
ioh_cp_op == [type |-> "H", allocate |-> CpDevice, free |-> CpFree]
ich_cp_op == [type |-> "I", allocate |-> CpDevice, free |-> CpFree]

control_plane_tbl == {sys_cp_op, ioh_cp_op, ich_cp_op}
get_control_plane_op(type) == {op \in control_plane_tbl : op.type = type}

alloc_cp_devno == IF cdevNr < NumberOfCpDevices THEN {cdevNr} ELSE {}
BugNextCdevNr == cdevNr
NextCdevNr == cdevNr + 1

(* sys_cp_open, ioh_cp_open, ich_cp_open: walk this type's list.           *)
CpOpen(type, number) == {e \in cpList[type] : e[1] = number}

-----------------------------------------------------------------------------
(* insmod and rmmod of cpa.  Registering the PCI driver probes the adaptor *)
(* before insmod returns; with no plane at all the probe returns an error  *)
(* code it never set.  rmmod needs pardg5v, which uses cpa's symbols, out. *)
Init ==
    /\ planes \in Machines
    /\ cpa = "out" /\ pardg5v = "out"
    /\ adaptors = << >> /\ torn = {}
    /\ res = {} /\ devRes = {} /\ bus = {} /\ driver = {} /\ todo = {} /\ cdevs = {}
    /\ refs = [p \in Planes |-> 0]
    /\ probing = NoPlane /\ cdevNr = 0
    /\ cpList = [t \in IdTable |-> {}]
    /\ file = [q \in Procs |-> NoPlane]

InsmodCpa == \E k \in Outcomes(cpa_init_module), a \in Outcomes(cpa_adaptor_probe) :
    LET live == Succeeds(cpa_init_module, k)
        bound == live /\ Succeeds(cpa_adaptor_probe, a)
    IN  /\ cpa = "out" /\ (live \/ a = 1)
        /\ cpa' = IF live THEN "in" ELSE "out"
        /\ res' = res \cup Outcome(cpa_init_module, k)
                      \cup (IF live THEN Outcome(cpa_adaptor_probe, a) ELSE {})
        /\ adaptors' = IF live THEN Listed(<< >>, a) ELSE << >>
        /\ bus' = IF bound THEN planes ELSE {}
        /\ refs' = [p \in Planes |-> IF p \in bus' THEN 1 ELSE 0]
        /\ UNCHANGED <<planes, pardg5v, devRes, driver, todo, probing, cdevs, cpList, cdevNr, file, torn>>

(* cpa_adaptor_remove walks the list for an entry of its PCI device, which *)
(* every adaptor was allocated for.  What it reads in an entry whose       *)
(* memory was freed is undefined: it may pass over it, or take it for its  *)
(* adaptor.                                                                *)
Finds(live) == \E i \in DOMAIN adaptors :
    adaptors[i] = live /\ \A j \in 1..(i - 1) : ~adaptors[j]

(* Every plane is unregistered, which takes it from the driver that holds  *)
(* it, and freed.  Waits for a probe, which holds the lock of its device.  *)
RemovePlanes ==
    /\ probing = NoPlane /\ Finds(TRUE)
    /\ bus' = {} /\ driver' = driver \ bus /\ todo' = todo \ bus
    /\ devRes' = devRes \ UNION {CpFree[p] : p \in driver}
    /\ cpList' = [t \in IdTable |-> {e \in cpList[t] : e[2] \notin driver}]
    /\ cdevs' = {c \in cdevs : c[2] \notin driver}
    /\ refs' = [p \in Planes |-> refs[p] - (IF p \in bus THEN 1 ELSE 0)
                                        - (IF p \in driver THEN 1 ELSE 0)]
    /\ torn' = torn \cup {q \in Procs : file[q] \in driver}

(* The module's data, g_adaptor_list among them, goes with it.             *)
RmmodCpa ==
    /\ cpa = "in" /\ pardg5v = "out"
    /\ cpa' = "out"
    /\ adaptors' = << >>
    /\ IF "adaptor" \in res
       THEN RemovePlanes /\ res' = (res \ cpa_cleanup_module) \ cpa_adaptor_remove
       ELSE /\ res' = res \ cpa_cleanup_module
            /\ UNCHANGED <<devRes, bus, refs, driver, todo, cdevs, cpList, torn>>
    /\ UNCHANGED <<planes, pardg5v, probing, cdevNr, file>>

(* The adaptor is taken from cpa, and given to it again, through sysfs.    *)
(* To bound the model it is given again only while pardg5v is out.  Its    *)
(* entry in the list stays when its memory goes.                           *)
UnbindAdaptor ==
    /\ cpa = "in" /\ "adaptor" \in res
    /\ RemovePlanes
    /\ res' = res \ cpa_adaptor_remove
    /\ adaptors' = [adaptors EXCEPT ![Len(adaptors)] = FALSE]
    /\ UNCHANGED <<planes, cpa, pardg5v, probing, cdevNr, file>>

BindAdaptor == \E a \in Outcomes(cpa_adaptor_probe) :
    /\ cpa = "in" /\ pardg5v = "out" /\ "adaptor" \notin res /\ Len(adaptors) < MaxAdaptors
    /\ res' = res \cup Outcome(cpa_adaptor_probe, a)
    /\ adaptors' = Listed(adaptors, a)
    /\ bus' = IF Succeeds(cpa_adaptor_probe, a) THEN planes ELSE {}
    /\ refs' = [p \in Planes |-> IF p \in bus' THEN 1 ELSE 0]
    /\ UNCHANGED <<planes, cpa, pardg5v, devRes, driver, todo, probing, cdevs, cpList, cdevNr, file, torn>>

(* rmmod or unbinding takes a freed entry for the adaptor: the kernel      *)
(* stops the process (an oops), and cpa stays as it is.                    *)
RemoveStale ==
    /\ cpa = "in" /\ "adaptor" \in res /\ probing = NoPlane /\ Finds(FALSE)
    /\ cpa' = "oops"
    /\ UNCHANGED <<planes, pardg5v, res, adaptors, devRes, bus, refs, driver, todo, probing,
                   cdevs, cpList, cdevNr, file, torn>>

(* insmod of pardg5v: its static counter starts at 0, and registering the  *)
(* driver offers it every plane on the bus.                                *)
InsmodPard == \E k \in Outcomes(pardg5v_init_module) :
    LET ok == Succeeds(pardg5v_init_module, k)
    IN  /\ cpa # "out" /\ pardg5v = "out"
        /\ pardg5v' = IF ok THEN "coming" ELSE "out"
        /\ todo' = IF ok THEN bus ELSE {}
        /\ res' = res \cup Outcome(pardg5v_init_module, k)
        /\ cdevNr' = 0
        /\ UNCHANGED <<planes, cpa, adaptors, devRes, bus, refs, driver, probing, cdevs, cpList, file, torn>>

Loaded ==
    /\ pardg5v = "coming" /\ todo = {} /\ probing = NoPlane
    /\ pardg5v' = "in"
    /\ UNCHANGED <<planes, cpa, res, adaptors, devRes, bus, refs, driver, todo, probing, cdevs, cpList, cdevNr, file, torn>>

(* rmmod of pardg5v: refused while a file is open, since every open pinned *)
(* the module (.owner = THIS_MODULE); no open succeeds once it has begun.  *)
BugPinned == FALSE
Pinned == \E q \in Procs : file[q] # NoPlane
RmmodPard ==
    /\ pardg5v = "in" /\ probing = NoPlane /\ ~Pinned
    /\ pardg5v' = "going"
    /\ todo' = driver
    /\ UNCHANGED <<planes, cpa, res, adaptors, devRes, bus, refs, driver, probing, cdevs, cpList, cdevNr, file, torn>>

Unloaded ==
    /\ pardg5v = "going" /\ todo = {}
    /\ pardg5v' = "out"
    /\ res' = res \ pardg5v_cleanup_module
    /\ UNCHANGED <<planes, cpa, adaptors, devRes, bus, refs, driver, todo, probing, cdevs, cpList, cdevNr, file, torn>>

-----------------------------------------------------------------------------
(* cpn_bus_probe up to cdev_add.  The plane is held before the driver's    *)
(* probe and released when that fails; a type the bus matches but pardg5v  *)
(* has no operations for fails.                                            *)
BugPutOnError(n) == n
PutOnError(n) == n - 1

NoOperations(p) ==
    /\ get_control_plane_op(Type[p]) = {}
    /\ refs' = [refs EXCEPT ![p] = PutOnError(@ + 1)]
    /\ UNCHANGED <<devRes, probing, cdevs, cdevNr>>

Allocate(p) == \E op \in get_control_plane_op(Type[p]) : \E k \in Outcomes(op.allocate[p]) :
    LET ok == Succeeds(op.allocate[p], k)
    IN  /\ k = 2 => alloc_cp_devno = {}
        /\ k > 2 => alloc_cp_devno # {}
        /\ devRes' = devRes \cup Outcome(op.allocate[p], k)
        /\ cdevNr' = IF k > 2 THEN NextCdevNr ELSE cdevNr
        /\ refs' = [refs EXCEPT ![p] = IF ok THEN @ + 1 ELSE PutOnError(@ + 1)]
        /\ probing' = IF ok THEN p ELSE NoPlane
        /\ cdevs' = IF ok THEN cdevs \cup (alloc_cp_devno \X {p}) ELSE cdevs

Probe(p) ==
    /\ probing = NoPlane /\ p \in bus \ driver /\ Type[p] \in IdTable
    /\ NoOperations(p) \/ Allocate(p)
    /\ UNCHANGED <<loading, res, adaptors, bus, driver, cpList, file, torn>>

(* Offered by driver_register, or bound by hand through sysfs.             *)
Attach(p) == pardg5v = "coming" /\ p \in todo /\ todo' = todo \ {p} /\ Probe(p)
Bind(p) == pardg5v = "in" /\ UNCHANGED todo /\ Probe(p)

(* The end of the probe: the device is listed and the driver recorded.     *)
Probed ==
    /\ probing # NoPlane
    /\ cpList' = [cpList EXCEPT ![Type[probing]] = @ \cup {c \in cdevs : c[2] = probing}]
    /\ driver' = driver \cup {probing}
    /\ probing' = NoPlane
    /\ UNCHANGED <<loading, res, adaptors, devRes, bus, refs, todo, cdevs, cdevNr, file, torn>>

(* cpn_bus_remove: sys_cp_remove takes the device off its list and frees   *)
(* it, and the reference of the probe is given back.                       *)
Remove(p) ==
    /\ p \in driver
    /\ \E op \in get_control_plane_op(Type[p]) : devRes' = devRes \ op.free[p]
    /\ cpList' = [cpList EXCEPT ![Type[p]] = {e \in @ : e[2] # p}]
    /\ cdevs' = {c \in cdevs : c[2] # p}
    /\ driver' = driver \ {p}
    /\ refs' = [refs EXCEPT ![p] = @ - 1]
    /\ torn' = torn \cup {q \in Procs : file[q] = p}
    /\ UNCHANGED <<loading, res, adaptors, bus, probing, cdevNr, file>>

Detach(p) == pardg5v = "going" /\ p \in todo /\ todo' = todo \ {p} /\ Remove(p)

(* Unbinding by hand through sysfs, whether or not the plane is open.      *)
Unbind(p) == pardg5v = "in" /\ probing = NoPlane /\ UNCHANGED todo /\ Remove(p)

-----------------------------------------------------------------------------
(* A process opens a device node: the module is pinned, then the list of   *)
(* the node's type is searched for its number; a miss is -ENODEV.          *)
Open(q, c) ==
    /\ c \in cdevs /\ file[q] = NoPlane
    /\ pardg5v \in {"coming", "in"}
    /\ \E e \in CpOpen(Type[c[2]], c[1]) : file' = [file EXCEPT ![q] = e[2]]
    /\ UNCHANGED <<loading, res, adaptors, devRes, bus, refs, driver, todo, probing, cdevs, cpList, cdevNr, torn>>

OpenFails(q, c) ==
    /\ c \in cdevs /\ file[q] = NoPlane
    /\ CpOpen(Type[c[2]], c[1]) = {}
    /\ UNCHANGED vars

Close(q) ==
    /\ file[q] # NoPlane
    /\ file' = [file EXCEPT ![q] = NoPlane]
    /\ torn' = torn \ {q}
    /\ UNCHANGED <<loading, res, adaptors, devRes, bus, refs, driver, todo, probing, cdevs, cpList, cdevNr>>

Next == \/ InsmodCpa \/ RmmodCpa \/ UnbindAdaptor \/ BindAdaptor \/ RemoveStale
        \/ InsmodPard \/ Loaded \/ RmmodPard \/ Unloaded
        \/ Probed
        \/ \E p \in Planes : Attach(p) \/ Bind(p) \/ Detach(p) \/ Unbind(p)
        \/ \E q \in Procs, c \in Numbers \X Planes : Open(q, c) \/ OpenFails(q, c)
        \/ \E q \in Procs : Close(q)

Spec == Init /\ [][Next]_vars

-----------------------------------------------------------------------------
(* Whatever step of a load, a probe or a bind failed, and in whatever      *)
(* order modules and the adaptor come and go, a module that is not loaded, *)
(* an adaptor and a plane that are not bound hold no kernel resource: the  *)
(* labels undo what was taken, the entry in g_adaptor_list excepted.       *)
Unwound ==
    /\ cpa = "out" => res = {} /\ bus = {}
    /\ "adaptor" \notin res => res \cap cpa_adaptor_remove = {} /\ bus = {}
    /\ pardg5v = "out" => res \subseteq cpa_adaptor_remove \cup cpa_cleanup_module
    /\ \A p \in Planes \ (driver \cup {probing}) : devRes \cap CpFree[p] = {}

(* The list walk of cpa_adaptor_remove gets the adaptor of its PCI device, *)
(* as its comment says, not memory that was freed.  Does not hold: neither *)
(* the labels of the probe nor the remove take an adaptor off the list.    *)
GetsItsAdaptor == cpa # "oops"

(* The reference count of a plane's device is one for the bus plus one for *)
(* the driver that holds it, and zero when the plane's memory is freed.    *)
RefsBalanced == \A p \in Planes :
    refs[p] = (IF p \in bus THEN 1 ELSE 0) + (IF p \in driver \cup {probing} THEN 1 ELSE 0)

(* A device node leads to the plane it was made for: once its probe is     *)
(* over, the open function of its type finds exactly that plane under its  *)
(* number, and no other node has the number, however often planes were     *)
(* unbound and bound again.                                                *)
NodesReachTheirPlane == \A c \in cdevs :
    /\ \A d \in cdevs : d[1] = c[1] => d = c
    /\ c[2] # probing => CpOpen(Type[c[2]], c[1]) = {c}

(* A plane that a process has open stays bound, with its character device, *)
(* until the process closes it or an administrator unbinds the plane or    *)
(* the adaptor; the driver's code stays in place in any case, since every  *)
(* open pins the module.                                                   *)
OpenPlanesStay == \A q \in Procs : file[q] # NoPlane =>
    /\ pardg5v \in {"coming", "in"}
    /\ q \notin torn => /\ file[q] \in bus \cap driver
                       /\ \E n \in Numbers : <<n, file[q]>> \in cdevs

(* The remove functions are "called when driver unload", which open files  *)
(* prevent: no plane is taken away under a process.  Does not hold:        *)
(* unbinding calls them too, and they do not look for open files.          *)
RemovedOnlyAtUnload == torn = {}
=============================================================================
