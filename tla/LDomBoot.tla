------------------------------ MODULE LDomBoot ------------------------------
(***************************************************************************)
(* Booting logical domains.  The system control plane (PARDg5VSystemCP)    *)
(* keeps a parameter table and a configuration memory; biosloader fills    *)
(* them word by word over the control plane network and sends 'B', on      *)
(* which PARDg5VSystem tags the domain's CPU, writes the kernel and the    *)
(* configuration through one shared port proxy and starts the CPU.         *)
(* LDoms adds the ICH, the tool that sets it up and the running guests.    *)
(*                                                                         *)
(* A segment's words and the kernel's sections are one value each: only    *)
(* whose memory they land in and whether they were loaded matters.  The    *)
(* stores and retrievals of the network are the atomic ones CPNetwork      *)
(* is shown to provide.                                                    *)
(***************************************************************************)
EXTENDS Integers, Sequences, FiniteSets

CONSTANTS
    CPUs,           \* thread contexts; CPU i is the one in mask 1 << i
    SysRows,        \* param_table_entries of the system control plane
    Segments        \* the names of biosloader's segments, in their order

NoDSid == -1        \* no domain: DSid 0xFFFF, in the TLBs 0xCCCC

\* kickstart and biosloader know the domains 0 to 3; a row has four segments.
ASSUME BootAssumption == /\ CPUs \subseteq 0..3 /\ SysRows \in Nat \ {0}
                         /\ Segments \in Seq(STRING) /\ Len(Segments) \in 1..4

VARIABLES
    sysTable,       \* the parameter table, a function of the row
    configMem,      \* the segments that configuration memory holds
    loader,         \* the running biosloader
    cpu,            \* each CPU: its tags and whether it runs
    proxyDSid,      \* the DSid of physProxy
    mem             \* the parts written into each domain's memory, and whether
                    \* they had content

bootVars == <<sysTable, configMem, loader, cpu, proxyDSid, mem>>

LDomIds == CPUs
NoSegment == [base |-> FALSE, range |-> FALSE]
EmptyRow == [valid |-> FALSE, DSid |-> 0, cpuMask |-> {}, segs |-> [s \in DOMAIN Segments |-> NoSegment]]
NoLoader == [pc |-> "off", DSid |-> NoDSid, row |-> 0, k |-> 0]

BootInit ==
    /\ sysTable = [r \in 0..(SysRows - 1) |-> EmptyRow]
    /\ configMem = {}
    /\ loader = NoLoader
    /\ cpu = [c \in CPUs |-> [itb |-> NoDSid, dtb |-> NoDSid, apic |-> NoDSid, active |-> FALSE]]
    /\ proxyDSid = NoDSid
    /\ mem = [d \in LDomIds \cup {NoDSid} |-> {}]

-----------------------------------------------------------------------------
(* getCpuMask and getSegment: the first valid row of the domain.           *)
RowsOf(d) == {r \in DOMAIN sysTable : sysTable[r].valid /\ sysTable[r].DSid = d}
RowOf(d) == CHOOSE r \in RowsOf(d) : \A q \in RowsOf(d) : r <= q

(* The boot image: the kernel's sections, the command line and the tables  *)
(* of initBSPState; then the segments with a size, out of configuration    *)
(* memory.  writeOutSegment sets the proxy's DSid once more.               *)
Image == {"kernel", "cmdline", "gdt", "pml4", "pdpt", "pdt"} \X {TRUE}
ConfigData(d) == {<<Segments[s], Segments[s] \in configMem>> :
                     s \in {t \in DOMAIN Segments : sysTable[RowOf(d)].segs[t].range}}

\* physProxy.updateDSid(DSid), before the kernel is loaded.
BugUpdateProxy(d) == proxyDSid
UpdateProxy(d) == d

WriteBlob(m, d, parts) == [m EXCEPT ![d] = @ \cup parts]
UpdateTags(c, d) == [cpu EXCEPT ![c] = [itb |-> d, dtb |-> d, apic |-> d, active |-> TRUE]]

(* startupLDomain.  A mask that does not name exactly one CPU is a panic;  *)
(* a domain without a row is only warned about.                            *)
StartupLDomain(d) ==
    IF RowsOf(d) = {} THEN UNCHANGED <<cpu, proxyDSid, mem>>
    ELSE LET cpus == sysTable[RowOf(d)].cpuMask \cap CPUs
         IN  /\ Cardinality(cpus) = 1
             /\ \E c \in cpus : cpu' = UpdateTags(c, d)
             /\ mem' = WriteBlob(WriteBlob(mem, UpdateProxy(d), Image), d, ConfigData(d))
             /\ proxyDSid' = IF ConfigData(d) = {} THEN UpdateProxy(d) ELSE d

(* handleCommand: 'K' does nothing but warn, other commands are refused.   *)
HandleCommand(cmd, d) ==
    IF cmd = "B" THEN StartupLDomain(d) ELSE UNCHANGED <<cpu, proxyDSid, mem>>

-----------------------------------------------------------------------------
(* biosloader: the first row without the valid bit, or -ENOMEM at the end  *)
(* of the table; the configuration memory, always from offset 0; the two   *)
(* words of each segment, the CPU mask, DSid and valid bit last; the boot  *)
(* command.                                                                *)
SysStore(r, row) == sysTable' = [sysTable EXCEPT ![r] = row]

LoaderStart(d) ==
    /\ loader.pc = "off" /\ d < 4
    /\ LET free == {r \in DOMAIN sysTable : ~sysTable[r].valid}
       IN  loader' = IF free = {} THEN NoLoader
                     ELSE [pc |-> "mem", DSid |-> d, k |-> 1,
                           row |-> CHOOSE r \in free : \A q \in free : r <= q]
    /\ UNCHANGED <<sysTable, configMem, cpu, proxyDSid, mem>>

LoaderMemory ==
    /\ loader.pc = "mem"
    /\ configMem' = configMem \cup {Segments[loader.k]}
    /\ loader' = IF loader.k < Len(Segments) THEN [loader EXCEPT !.k = @ + 1]
                 ELSE [loader EXCEPT !.pc = "base", !.k = 1]
    /\ UNCHANGED <<sysTable, cpu, proxyDSid, mem>>

LoaderSegment ==
    /\ loader.pc \in {"base", "range"}
    /\ SysStore(loader.row, [sysTable[loader.row] EXCEPT !.segs[loader.k][loader.pc] = TRUE])
    /\ loader' = IF loader.pc = "base" THEN [loader EXCEPT !.pc = "range"]
                 ELSE IF loader.k < Len(Segments) THEN [loader EXCEPT !.pc = "base", !.k = @ + 1]
                 ELSE [loader EXCEPT !.pc = "mask"]
    /\ UNCHANGED <<configMem, cpu, proxyDSid, mem>>

LoaderMask ==
    /\ loader.pc = "mask"
    /\ SysStore(loader.row, [sysTable[loader.row] EXCEPT !.cpuMask = {loader.DSid}])
    /\ loader' = [loader EXCEPT !.pc = "valid"]
    /\ UNCHANGED <<configMem, cpu, proxyDSid, mem>>

LoaderValid ==
    /\ loader.pc = "valid"
    /\ SysStore(loader.row, [sysTable[loader.row] EXCEPT !.valid = TRUE, !.DSid = loader.DSid])
    /\ loader' = [loader EXCEPT !.pc = "boot"]
    /\ UNCHANGED <<configMem, cpu, proxyDSid, mem>>

LoaderBoot ==
    /\ loader.pc = "boot"
    /\ HandleCommand("B", loader.DSid)
    /\ loader' = NoLoader
    /\ UNCHANGED <<sysTable, configMem>>
=============================================================================
