---------------------------- MODULE LDoms_proofs ----------------------------
(***************************************************************************)
(* Proofs about LDoms, in four layers, each resting on the one before:     *)
(* biosloader and the boot command; the ich tool and the ICH's table; the  *)
(* guests and their redirection entries, with the interrupts they lead to; *)
(* the serial ports and the drivers.                                       *)
(***************************************************************************)
EXTENDS LDoms, FiniteSetTheorems, WellFoundedInduction, TLAPS

-----------------------------------------------------------------------------
(* The first layer: what biosloader has stored at each of its steps.       *)
DSids == LDomIds \cup {NoDSid}
SysRow == [valid : BOOLEAN, DSid : {0} \cup LDomIds, cpuMask : SUBSET CPUs,
           segs : [DOMAIN Segments -> [base : BOOLEAN, range : BOOLEAN]]]
LoaderSteps == {"off", "mem", "base", "range", "mask", "valid", "boot"}

Parts == {"kernel", "cmdline", "gdt", "pml4", "pdpt", "pdt"} \cup {Segments[s] : s \in DOMAIN Segments}
LoaderState == [pc : LoaderSteps, DSid : DSids, row : 0..(SysRows - 1), k : 0..Len(Segments)]

BootTypes ==
    /\ sysTable \in [0..(SysRows - 1) -> SysRow]
    /\ configMem \subseteq Parts
    /\ loader \in LoaderState
    /\ cpu \in [CPUs -> [itb : DSids, dtb : DSids, apic : DSids, active : BOOLEAN]]
    /\ proxyDSid \in DSids
    /\ mem \in [DSids -> SUBSET (Parts \X BOOLEAN)]

\* The loader works for a domain, on a row that is not valid before the last store.
Loading ==
    /\ loader.pc # "off" => loader.DSid \in LDomIds
    /\ loader.pc \in {"mem", "base", "range"} => loader.k \in 1..Len(Segments)
    /\ loader.pc \in LoaderSteps \ {"off", "boot"} => ~sysTable[loader.row].valid

\* Configuration memory is filled before the row, and stays filled.
Copied ==
    \A s \in DOMAIN Segments :
        \/ loader.pc = "mem" /\ s < loader.k
        \/ loader.pc \in {"base", "range", "mask", "valid", "boot"}
        => Segments[s] \in configMem

\* The row is filled word by word.
Stored ==
    /\ \A s \in DOMAIN Segments :
          \/ loader.pc \in {"base", "range"} /\ s < loader.k
          \/ loader.pc \in {"mask", "valid"}
          => sysTable[loader.row].segs[s].range
    /\ loader.pc = "valid" => sysTable[loader.row].cpuMask = {loader.DSid}
    /\ loader.pc = "boot" => sysTable[loader.row].valid /\ sysTable[loader.row].DSid = loader.DSid

\* A valid row is whole: its mask is the CPU of its domain, all segments have a size.
RowsWhole ==
    \A r \in DOMAIN sysTable : sysTable[r].valid =>
        /\ sysTable[r].DSid \in LDomIds
        /\ sysTable[r].cpuMask = {sysTable[r].DSid}
        /\ \A s \in DOMAIN Segments : sysTable[r].segs[s].range

\* Everything that a boot writes into a domain's memory.
WholeImage == Image \cup {<<Segments[s], TRUE>> : s \in DOMAIN Segments}

\* A running CPU is that of the domain with its number.
Running ==
    \A c \in CPUs : cpu[c].active =>
        /\ cpu[c].itb = c /\ cpu[c].dtb = c /\ cpu[c].apic = c
        /\ WholeImage \subseteq mem[c]

BootInv == BootTypes /\ Loading /\ Copied /\ Stored /\ RowsWhole /\ Running

-----------------------------------------------------------------------------
(* The second layer: the ICH's table and the ich tool.                     *)
Windows == {"COM", "CMOS", "PIT", "APIC"}
IdeLines == {IdeLine(d) : d \in LDomIds}
ToolSteps == {"off", "assign", "words", "irqmap", "irqwrite", "boot"}

IchRow == [valid : BOOLEAN, DSid : DSids, selected : Nat \cup {NoDSid},
           regbase : SUBSET Windows, intlines : [Lines -> LogicalLines \cup {NoLine}]]

ToolState == [pc : ToolSteps, DSid : DSids, row : 0..(IchRows - 1), k : 0..17, buf : IdeLines \cup {NoLine}]

IchTypes ==
    /\ started \in 0..Len(Kickstarts)
    /\ tool \in ToolState
    /\ tool.pc # "off" => tool.DSid \in LDomIds
    /\ tool.pc = "words" => tool.k \in 1..17
    /\ ichTable \in [0..(IchRows - 1) -> IchRow]

\* The tool is filling row r.
Filling(r) == tool.pc = "words" /\ tool.row = r

\* A row with a DSid is valid and whole; lines from 10 on are the disks'.
WholeRow(r) ==
    /\ ichTable[r].DSid \in LDomIds /\ ichTable[r].selected = r /\ r < Components
    /\ ichTable[r].regbase = Windows
    /\ \A l \in 0..9 : ichTable[r].intlines[l] = AssignedLine(r, l)
    /\ \A l \in Lines \ (0..9) : ichTable[r].intlines[l] \in IdeLines \cup {NoLine}

\* A row that is not valid has no DSid, and only what the tool has stored.
PartRow(r) ==
    /\ ichTable[r].DSid = NoDSid /\ ichTable[r].selected = NoDSid
    /\ Filling(r) => /\ r < Components
                     /\ \A q \in DOMAIN ichTable : ichTable[q].valid => ichTable[q].DSid # tool.DSid
                     /\ \A k \in DOMAIN Regbase : k < tool.k => Regbase[k] \in ichTable[r].regbase
                     /\ \A l \in Lines : l < 2 * (tool.k - 5) =>
                            ichTable[r].intlines[l] = AssignedLine(r, l)

Rows == \A r \in DOMAIN ichTable : IF ichTable[r].valid THEN WholeRow(r) ELSE PartRow(r)

\* Rows are taken in order.
InOrder ==
    \A r, q \in DOMAIN ichTable : q < r /\ (ichTable[r].valid \/ Filling(r)) => ichTable[q].valid

OneRowEach ==
    \A r, q \in DOMAIN ichTable :
        ichTable[r].valid /\ ichTable[q].valid /\ ichTable[r].DSid = ichTable[q].DSid => r = q

\* A domain whose assignment is over has a row, or the table is full for good.
Assigned(d) ==
    \/ tool.pc \in {"irqmap", "irqwrite", "boot"} /\ tool.DSid = d
    \/ loader.pc # "off" /\ loader.DSid = d
    \/ cpu[d].active
HasRow(d) == \E r \in DOMAIN ichTable : ichTable[r].valid /\ ichTable[r].DSid = d
Served == \A d \in LDomIds : Assigned(d) => HasRow(d) \/ \A r \in DOMAIN ichTable : ichTable[r].valid

IchInv ==
    /\ IchTypes /\ Rows /\ InOrder /\ OneRowEach /\ Served
    /\ tool.pc = "words" => ~ichTable[tool.row].valid
    /\ tool.pc = "irqwrite" => ichTable[tool.row].valid

-----------------------------------------------------------------------------
(* The third layer: guests, redirection entries and interrupts.            *)
DriverSteps == {"off", "boot", "found", "quiet", "flushed", "cleared", "idle", "baud",
                "isr", "rx", "tx", "sent"}
Entry == [mask : BOOLEAN, logical : BOOLEAN, dest : {0, 1}]
Programmed == [mask |-> FALSE, logical |-> TRUE, dest |-> 1]

ApicTypes ==
    /\ regSel \in [LDomIds -> (LogicalLines \cup {NoLine}) \X {"top", "bottom"}]
    /\ redir \in [LDomIds -> [LogicalLines -> Entry]]
    /\ guest \in [CPUs -> [pc : 0..(4 * Len(ProgramLines)), drv : DriverSteps]]
    /\ irq \in [CPUs -> SUBSET (LDomIds \X LogicalLines)]
    /\ \A c \in CPUs : guest[c].drv # "off" => cpu[c].active

\* An entry is as it was at power on, has a new destination, or is programmed.
\* Only line 4 is open from the start.
Entries ==
    \A d \in LDomIds, l \in LogicalLines :
        \/ redir[d][l] = Programmed
        \/ ~redir[d][l].logical /\ (redir[d][l].mask <=> l # 4)

\* The write that guest c does next, and how far it has come.
NextLine(c) == ProgramLines[(guest[c].pc \div 4) + 1]
NextHalf(c) == IF (guest[c].pc \div 2) % 2 = 0 THEN "top" ELSE "bottom"

Programs(c) ==
    /\ \A k \in DOMAIN ProgramLines : 4 * k <= guest[c].pc => redir[c][ProgramLines[k]] = Programmed
    /\ guest[c].pc % 2 = 1 => regSel[c] = <<NextLine(c), NextHalf(c)>>
    /\ guest[c].pc % 4 \in {2, 3} => redir[c][NextLine(c)].dest = 1

\* A driver that has found its port had programmed all entries.
Driving(c) == guest[c].drv \notin {"off", "boot"} => c \in SerialUsers /\ redir[c][4] = Programmed

Guests == \A c \in CPUs : guest[c].drv # "off" /\ HasRow(c) => Programs(c) /\ Driving(c)

\* A port that can interrupt belongs to a domain whose serial line is programmed.
Enabled ==
    \A i \in 0..(Components - 1) : uart[i].ier # {} =>
        /\ i \in DOMAIN ichTable /\ ichTable[i].valid
        /\ redir[ichTable[i].DSid][4] = Programmed

Home == \A c \in CPUs : \A t \in irq[c] : t[1] = c /\ cpu[c].active

ApicInv == ApicTypes /\ Entries /\ Guests /\ Enabled /\ Home

-----------------------------------------------------------------------------
(* The fourth layer: serial ports.                                         *)
Bits == {"RX", "TX"}
UartState == [ier : SUBSET Bits, dlab : BOOLEAN, status : SUBSET Bits, events : SUBSET Bits,
              data : Nat, pin : BOOLEAN, edges : Nat]

\* Only enabled interrupts are pending or scheduled, and characters that may
\* interrupt have done so or will.
Consistent(u) ==
    /\ u.status \cup u.events \subseteq u.ier
    /\ u.data > 0 /\ "RX" \in u.ier => "RX" \in u.status \cup u.events

Ports ==
    /\ uart \in [0..(Components - 1) -> UartState]
    /\ \A i \in 0..(Components - 1) : Consistent(uart[i]) /\ uart[i].edges = 0

\* What a driver in state drv, on port u, relies on, and when it waits to be told.
Sees(drv, u) ==
    /\ drv \notin {"boot", "baud"} => ~u.dlab
    /\ drv \in {"quiet", "flushed", "cleared"} => u.ier = {}
    /\ drv \in {"flushed", "cleared"} => ~u.pin
    /\ drv \in {"idle", "baud", "isr", "rx", "sent"} /\ u.pin => u.status # {}
Waits(drv, u) == drv \in {"idle", "baud"} /\ u.status # {}

\* Row r, and with it port r, is the domain's of CPU c.
RowIs(c, r) == r \in DOMAIN ichTable /\ ichTable[r].valid /\ ichTable[r].DSid = c

Drivers ==
    \A c \in CPUs : \A r \in 0..(Components - 1) :
        guest[c].drv # "off" /\ c \in SerialUsers /\ RowIs(c, r) /\ r \notin declined =>
            /\ Sees(guest[c].drv, uart[r])
            /\ Waits(guest[c].drv, uart[r]) => <<c, 4>> \in irq[c]

IInv == BootInv /\ IchInv /\ ApicInv /\ Ports

-----------------------------------------------------------------------------
(* The first row of a set of rows: what all the searches of the tables     *)
(* return.                                                                 *)
LEMMA FirstIsLeast ==
    ASSUME NEW S, S \subseteq Nat, S # {}
    PROVE  /\ (CHOOSE r \in S : \A q \in S : r <= q) \in S
           /\ \A p \in S : (CHOOSE r \in S : \A q \in S : r <= q) <= p
<1>1. PICK m \in S : \A q \in S : <<q, m>> \notin OpToRel(<, Nat)
  BY WFMin, NatLessThanWellFounded
<1>2. \A q \in Nat, p \in Nat : q < p => <<q, p>> \in OpToRel(<, Nat)
  BY DEF OpToRel
<1>3. \A q \in S : m <= q
  <2> TAKE q \in S
  <2>1. ~(q < m)
    BY <1>1, <1>2, Zenon
  <2>2. QED
    BY <2>1
<1>4. QED
  BY <1>3, Zenon

-----------------------------------------------------------------------------
(* What the assumptions on the constants say, for the provers.             *)
LEMMA BootConstants ==
    /\ SysRows \in Nat /\ SysRows > 0
    /\ Len(Segments) \in Nat /\ Len(Segments) > 0 /\ DOMAIN Segments = 1..Len(Segments)
    /\ \A s \in DOMAIN Segments : Segments[s] \in Parts
    /\ LDomIds = CPUs /\ CPUs \subseteq 0..3 /\ NoDSid \notin CPUs
BY BootAssumption DEF LDomIds, NoDSid, Parts

-----------------------------------------------------------------------------
(* The first layer is preserved.                                           *)
LEMMA BootFrame == BootInv /\ UNCHANGED bootVars => BootInv'
BY DEF BootInv, bootVars, BootTypes, Loading, Copied, Stored, RowsWhole, Running

LEMMA BootInitially == Init => BootInv
<1> SUFFICES ASSUME Init PROVE BootInv
  OBVIOUS
<1> USE BootConstants DEF Init, BootInit
<1>1. EmptyRow \in SysRow /\ ~EmptyRow.valid
  BY DEF EmptyRow, SysRow, NoSegment
<1>2. NoLoader \in LoaderState /\ NoLoader.pc = "off"
  BY DEF NoLoader, LoaderState, LoaderSteps, DSids
<1>3. BootTypes
  BY <1>1, <1>2 DEF BootTypes, DSids
<1>4. QED
  BY <1>1, <1>2, <1>3 DEF BootInv, Loading, Copied, Stored, RowsWhole, Running, LoaderSteps

LEMMA LoaderStartKeeps ==
    ASSUME BootInv, NEW d \in LDomIds, LoaderStart(d)
    PROVE  BootInv'
<1> DEFINE free == {r \in DOMAIN sysTable : ~sysTable[r].valid}
           first == CHOOSE r \in free : \A q \in free : r <= q
<1> USE DEF BootInv
<1>1. free \subseteq 0..(SysRows - 1) /\ free \subseteq Nat
  BY BootConstants DEF BootTypes
<1>2. CASE free = {}
  <2>1. loader' = NoLoader /\ UNCHANGED <<sysTable, configMem, cpu, proxyDSid, mem>>
    BY <1>2 DEF LoaderStart
  <2>2. QED
    BY <2>1, BootConstants DEF BootTypes, LoaderState, Loading, Copied, Stored, RowsWhole, Running, NoLoader, LoaderSteps, DSids, LDomIds
<1>3. CASE free # {}
  <2>1. first \in free
    BY <1>1, <1>3, FirstIsLeast, Zenon
  <2>2. /\ loader' = [pc |-> "mem", DSid |-> d, k |-> 1, row |-> first]
        /\ UNCHANGED <<sysTable, configMem, cpu, proxyDSid, mem>>
    BY <1>3 DEF LoaderStart
  <2> HIDE DEF first
  <2>3. first \in 0..(SysRows - 1) /\ ~sysTable[first].valid
    BY <1>1, <2>1
  <2>4. loader' \in LoaderState
    BY <2>2, <2>3, BootConstants DEF LoaderState, LoaderSteps, DSids
  <2>5. BootTypes'
    BY <2>2, <2>4 DEF BootTypes
  <2>6. loader'.pc = "mem" /\ loader'.DSid \in LDomIds /\ loader'.k = 1 /\ loader'.row = first
    BY <2>2
  <2>7. Loading' /\ Copied' /\ Stored'
    BY <2>2, <2>3, <2>6, BootConstants DEF Loading, Copied, Stored, LoaderSteps
  <2>8. RowsWhole' /\ Running'
    BY <2>2 DEF RowsWhole, Running
  <2>9. QED
    BY <2>5, <2>7, <2>8
<1>4. QED
  BY <1>2, <1>3

LEMMA LoaderMoves ==
    ASSUME NEW lo \in LoaderState, NEW next, NEW step \in LoaderSteps, NEW j \in 0..Len(Segments),
           \/ next = [lo EXCEPT !.pc = step]
           \/ next = [lo EXCEPT !.k = j]
           \/ next = [lo EXCEPT !.pc = step, !.k = j]
    PROVE  next \in LoaderState
BY DEF LoaderState

LEMMA LoaderMemoryKeeps == BootInv /\ LoaderMemory => BootInv'
<1> SUFFICES ASSUME BootInv, LoaderMemory PROVE BootInv'
  OBVIOUS
<1> USE BootConstants DEF BootInv, LoaderMemory
<1>1. BootTypes'
  <2>1. loader \in LoaderState /\ loader.k \in 1..Len(Segments) /\ Segments[loader.k] \in Parts
    BY DEF BootTypes, Loading
  <2>2. loader' \in LoaderState
    <3>1. \/ loader' = [loader EXCEPT !.k = loader.k + 1] /\ loader.k + 1 \in 0..Len(Segments)
          \/ loader' = [loader EXCEPT !.pc = "base", !.k = 1] /\ 1 \in 0..Len(Segments)
      BY <2>1
    <3>2. "base" \in LoaderSteps
      BY DEF LoaderSteps
    <3>3. QED
      BY ONLY <2>1, <3>1, <3>2, LoaderMoves
  <2>3. QED
    BY <2>1, <2>2 DEF BootTypes
<1>2. Loading' /\ Stored'
  BY DEF BootTypes, Loading, Stored, LoaderSteps
<1>3. Copied'
  BY DEF BootTypes, LoaderState, Loading, Copied, LoaderSteps
<1>4. RowsWhole' /\ Running'
  BY DEF RowsWhole, Running
<1>5. QED
  BY <1>1, <1>2, <1>3, <1>4

LEMMA LoaderSegmentKeeps == BootInv /\ LoaderSegment => BootInv'
<1> SUFFICES ASSUME BootInv, LoaderSegment PROVE BootInv'
  OBVIOUS
<1> USE BootConstants DEF BootInv
<1> DEFINE old == sysTable[loader.row]
           new == [old EXCEPT !.segs[loader.k][loader.pc] = TRUE]
<1>1. /\ loader.row \in 0..(SysRows - 1) /\ loader.k \in DOMAIN Segments /\ loader.pc \in {"base", "range"}
      /\ old \in SysRow /\ ~old.valid
  BY DEF LoaderSegment, BootTypes, LoaderState, Loading, LoaderSteps
<1>2. new \in SysRow /\ new.valid = old.valid
  <2>1. old.segs[loader.k] \in [base : BOOLEAN, range : BOOLEAN]
    BY <1>1 DEF SysRow
  <2>2. [old.segs[loader.k] EXCEPT ![loader.pc] = TRUE] \in [base : BOOLEAN, range : BOOLEAN]
    BY <1>1, <2>1
  <2>3. QED
    BY <1>1, <2>2 DEF SysRow
<1>3. \A s \in DOMAIN Segments : old.segs[s].range \/ (s = loader.k /\ loader.pc = "range") => new.segs[s].range
  BY <1>1 DEF SysRow
<1>4. sysTable' = [sysTable EXCEPT ![loader.row] = new]
  BY DEF LoaderSegment, SysStore
<1> HIDE DEF new
<1>5. sysTable'[loader.row] = new /\ \A r \in DOMAIN sysTable : r # loader.row => sysTable'[r] = sysTable[r]
  BY <1>1, <1>4 DEF BootTypes
<1>6. DOMAIN sysTable' = DOMAIN sysTable /\ DOMAIN sysTable = 0..(SysRows - 1)
  BY <1>4 DEF BootTypes
<1>7. BootTypes'
  <2>1. loader' \in LoaderState
    <3>1. loader \in LoaderState /\ loader.k \in 1..Len(Segments)
      BY <1>1 DEF BootTypes
    <3>2. \/ loader' = [loader EXCEPT !.pc = "range"]
          \/ loader' = [loader EXCEPT !.pc = "base", !.k = loader.k + 1] /\ loader.k + 1 \in 0..Len(Segments)
          \/ loader' = [loader EXCEPT !.pc = "mask"]
      BY <3>1 DEF LoaderSegment
    <3>3. {"range", "base", "mask"} \subseteq LoaderSteps /\ loader.k \in 0..Len(Segments)
      BY <3>1 DEF LoaderSteps
    <3>4. CASE loader' = [loader EXCEPT !.pc = "range"]
      BY ONLY <3>1, <3>3, <3>4, LoaderMoves
    <3>5. CASE loader' = [loader EXCEPT !.pc = "mask"]
      BY ONLY <3>1, <3>3, <3>5, LoaderMoves
    <3>6. CASE loader' = [loader EXCEPT !.pc = "base", !.k = loader.k + 1] /\ loader.k + 1 \in 0..Len(Segments)
      BY ONLY <3>1, <3>3, <3>6, LoaderMoves
    <3>7. QED
      BY <3>2, <3>4, <3>5, <3>6
  <2>2. QED
    BY <1>1, <1>2, <1>4, <2>1 DEF BootTypes, LoaderSegment
<1>8. loader'.row = loader.row /\ loader'.DSid = loader.DSid
  BY DEF LoaderSegment, BootTypes
<1>9. Loading' /\ Copied'
  BY <1>1, <1>2, <1>5, <1>8 DEF BootTypes, LoaderState, Loading, Copied, LoaderSegment, LoaderSteps
<1>10. Stored'
  BY <1>1, <1>3, <1>5, <1>8 DEF BootTypes, Stored, LoaderSegment, LoaderSteps
<1>11. RowsWhole'
  BY <1>1, <1>2, <1>5, <1>6 DEF RowsWhole
<1>12. Running'
  BY DEF Running, LoaderSegment
<1>13. QED
  BY <1>7, <1>9, <1>10, <1>11, <1>12

LEMMA LoaderMaskKeeps == BootInv /\ LoaderMask => BootInv'
<1> SUFFICES ASSUME BootInv, LoaderMask PROVE BootInv'
  OBVIOUS
<1> USE BootConstants DEF BootInv, LoaderMask, SysStore
<1>1. BootTypes'
  <2>1. loader' \in LoaderState
    BY DEF BootTypes, LoaderState, LoaderSteps
  <2>2. /\ loader.row \in 0..(SysRows - 1) /\ loader.DSid \in CPUs
        /\ sysTable[loader.row] \in SysRow
    BY DEF BootTypes, Loading, LoaderState, LDomIds
  <2>3. sysTable'[loader.row] \in SysRow
    BY <2>2 DEF BootTypes, SysRow, LDomIds
  <2>4. QED
    BY <2>1, <2>2, <2>3 DEF BootTypes
<1>2. Loading' /\ Copied'
  BY DEF BootTypes, LoaderState, Loading, Copied, LoaderSteps, SysRow
<1>3. Stored'
  <2>1. loader.row \in DOMAIN sysTable /\ sysTable[loader.row] \in SysRow
    BY DEF BootTypes, LoaderState
  <2>2. QED
    BY <2>1 DEF BootTypes, LoaderState, Stored, LoaderSteps, SysRow
<1>4. RowsWhole'
  BY DEF BootTypes, Loading, RowsWhole, LoaderSteps, SysRow
<1>5. Running'
  BY DEF Running
<1>6. QED
  BY <1>1, <1>2, <1>3, <1>4, <1>5

LEMMA LoaderValidKeeps == BootInv /\ LoaderValid => BootInv'
<1> SUFFICES ASSUME BootInv, LoaderValid PROVE BootInv'
  OBVIOUS
<1> USE BootConstants DEF BootInv, LoaderValid, SysStore
<1>1. BootTypes'
  <2>1. loader' \in LoaderState
    BY DEF BootTypes, LoaderState, LoaderSteps
  <2>2. /\ loader.row \in 0..(SysRows - 1) /\ loader.DSid \in CPUs
        /\ sysTable[loader.row] \in SysRow
    BY DEF BootTypes, Loading, LoaderState, LDomIds
  <2>3. sysTable'[loader.row] \in SysRow
    BY <2>2 DEF BootTypes, SysRow, LDomIds
  <2>4. QED
    BY <2>1, <2>2, <2>3 DEF BootTypes
<1>2. Loading' /\ Copied'
  BY DEF BootTypes, LoaderState, Loading, Copied, LoaderSteps, SysRow
<1>3. Stored'
  <2>1. loader.row \in DOMAIN sysTable /\ sysTable[loader.row] \in SysRow
    BY DEF BootTypes, LoaderState
  <2>2. QED
    BY <2>1 DEF BootTypes, LoaderState, Stored, LoaderSteps, SysRow
<1>4. RowsWhole'
  BY DEF BootTypes, Loading, Stored, RowsWhole, LoaderSteps, SysRow
<1>5. Running'
  BY DEF Running
<1>6. QED
  BY <1>1, <1>2, <1>3, <1>4, <1>5

\* The row the boot command finds is the first of the domain, and it is whole:
\* the domain's own CPU is started, from an image that is all there.
LEMMA BootStarts ==
    ASSUME BootInv, LoaderBoot
    PROVE  LET d == loader.DSid IN
           /\ d \in CPUs /\ RowsOf(d) # {} /\ sysTable[RowOf(d)].cpuMask = {d}
           /\ cpu' = UpdateTags(d, d)
           /\ mem' = WriteBlob(WriteBlob(mem, d, Image), d, {<<Segments[s], TRUE>> : s \in DOMAIN Segments})
           /\ proxyDSid' = d
<1> DEFINE d == loader.DSid
           row == sysTable[RowOf(d)]
<1> USE BootConstants DEF BootInv
<1>1. /\ d \in CPUs /\ loader.row \in RowsOf(d) /\ RowsOf(d) \subseteq DOMAIN sysTable
      /\ DOMAIN sysTable \subseteq Nat
  BY DEF LoaderBoot, BootTypes, LoaderState, Loading, Stored, RowsOf
<1>2. RowOf(d) \in RowsOf(d)
  <2>1. RowsOf(d) \subseteq Nat /\ RowsOf(d) # {}
    BY <1>1
  <2>2. QED
    BY <2>1, FirstIsLeast, Zenon DEF RowOf
<1>3. row.valid /\ row.cpuMask = {d} /\ \A s \in DOMAIN Segments : row.segs[s].range
  BY <1>1, <1>2 DEF RowsOf, RowsWhole
<1>4. \A s \in DOMAIN Segments : Segments[s] \in configMem
  BY DEF LoaderBoot, Copied
<1>5. ConfigData(d) = {<<Segments[s], TRUE>> : s \in DOMAIN Segments}
  <2>1. {t \in DOMAIN Segments : row.segs[t].range} = DOMAIN Segments
    BY <1>3
  <2>2. \A s \in DOMAIN Segments : (Segments[s] \in configMem) = TRUE
    BY <1>4
  <2>3. QED
    BY <2>1, <2>2, Zenon DEF ConfigData
<1>6. row.cpuMask \cap CPUs = {d}
  BY <1>1, <1>3
<1>7. /\ \E c \in row.cpuMask \cap CPUs : cpu' = UpdateTags(c, d)
      /\ mem' = WriteBlob(WriteBlob(mem, UpdateProxy(d), Image), d, ConfigData(d))
      /\ proxyDSid' = IF ConfigData(d) = {} THEN UpdateProxy(d) ELSE d
  BY <1>1 DEF LoaderBoot, HandleCommand, StartupLDomain
<1>8. QED
  BY <1>1, <1>3, <1>5, <1>6, <1>7 DEF UpdateProxy

LEMMA LoaderBootKeeps == BootInv /\ LoaderBoot => BootInv'
<1> SUFFICES ASSUME BootInv, LoaderBoot PROVE BootInv'
  OBVIOUS
<1> DEFINE d == loader.DSid
           config == {<<Segments[s], TRUE>> : s \in DOMAIN Segments}
<1> USE BootConstants DEF BootInv
<1>1. /\ d \in CPUs /\ cpu' = UpdateTags(d, d) /\ proxyDSid' = d
      /\ mem' = WriteBlob(WriteBlob(mem, d, Image), d, config)
  BY BootStarts
<1>2. loader' = NoLoader /\ UNCHANGED <<sysTable, configMem>>
  BY DEF LoaderBoot
<1>3. Image \subseteq Parts \X BOOLEAN /\ config \subseteq Parts \X BOOLEAN
  <2>1. {"kernel", "cmdline", "gdt", "pml4", "pdpt", "pdt"} \subseteq Parts
    BY DEF Parts
  <2>2. \A A : A \subseteq Parts => A \X {TRUE} \subseteq Parts \X BOOLEAN
    BY Zenon
  <2>3. \A s \in DOMAIN Segments : <<Segments[s], TRUE>> \in Parts \X BOOLEAN
    BY DEF Parts
  <2>4. Image \subseteq Parts \X BOOLEAN
    BY <2>1, <2>2 DEF Image
  <2>5. QED
    BY <2>3, <2>4
<1> HIDE DEF config
<1>4. mem' = [mem EXCEPT ![d] = mem[d] \cup Image \cup config]
  <2>1. d \in DSids /\ mem \in [DSids -> SUBSET (Parts \X BOOLEAN)]
    BY <1>1 DEF BootTypes, DSids
  <2>2. \A m \in [DSids -> SUBSET (Parts \X BOOLEAN)] : \A A, B :
           [[m EXCEPT ![d] = m[d] \cup A] EXCEPT ![d] = @ \cup B] = [m EXCEPT ![d] = m[d] \cup A \cup B]
    BY <2>1
  <2>3. QED
    BY <1>1, <2>1, <2>2 DEF WriteBlob
<1>5. NoLoader \in LoaderState /\ NoLoader.pc = "off"
  BY DEF NoLoader, LoaderState, LoaderSteps, DSids
<1>6. BootTypes'
  <2>1. cpu' \in [CPUs -> [itb : DSids, dtb : DSids, apic : DSids, active : BOOLEAN]]
    BY <1>1 DEF UpdateTags, BootTypes, DSids
  <2>2. mem' \in [DSids -> SUBSET (Parts \X BOOLEAN)]
    BY <1>3, <1>4 DEF BootTypes
  <2>3. QED
    BY <1>1, <1>2, <1>5, <2>1, <2>2 DEF BootTypes, DSids
<1>7. Loading' /\ Copied' /\ Stored' /\ RowsWhole'
  BY <1>2, <1>5 DEF Loading, Copied, Stored, RowsWhole, LoaderSteps
<1>8. Running'
  <2> SUFFICES ASSUME NEW c \in CPUs, cpu'[c].active
               PROVE  /\ cpu'[c].itb = c /\ cpu'[c].dtb = c /\ cpu'[c].apic = c
                      /\ WholeImage \subseteq mem'[c]
    BY DEF Running
  <2>1. mem[c] \subseteq mem'[c]
    BY <1>1, <1>4 DEF BootTypes, DSids
  <2>2. CASE c # d
    BY <1>1, <2>1, <2>2 DEF UpdateTags, BootTypes, Running
  <2>3. CASE c = d
    <3>1. Image \subseteq mem'[d] /\ config \subseteq mem'[d]
      BY <1>1, <1>4 DEF BootTypes, DSids
    <3>2. WholeImage = Image \cup config
      BY DEF WholeImage, config
    <3>3. QED
      BY <1>1, <2>3, <3>1, <3>2 DEF UpdateTags, BootTypes
  <2>4. QED
    BY <2>2, <2>3
<1>9. QED
  BY <1>6, <1>7, <1>8

-----------------------------------------------------------------------------
(* The second layer is preserved.                                          *)
LEMMA IchConstants ==
    /\ IchRows \in Nat /\ IchRows > 0
    /\ Len(Kickstarts) \in Nat /\ \A n \in 1..Len(Kickstarts) : Kickstarts[n] \in LDomIds
    /\ LDomIds \subseteq 0..3 /\ DSids = LDomIds \cup {-1} /\ NoDSid = -1 /\ NoLine = -1
    /\ Lines = 0..23 /\ Components = 4
    /\ \A d \in LDomIds : IdeLine(d) \in IdeLines
    /\ IdeLines \subseteq 10..13 /\ IdeLines \subseteq LogicalLines
    /\ {2, 4, 8} \subseteq LogicalLines /\ LogicalLines \subseteq Nat
<1>1. IchRows \in Nat /\ IchRows > 0 /\ Kickstarts \in Seq(LDomIds)
  BY LDomsAssumption
<1>2. Len(Kickstarts) \in Nat /\ \A n \in 1..Len(Kickstarts) : Kickstarts[n] \in LDomIds
  BY <1>1
<1>3. LDomIds \subseteq 0..3 /\ DSids = LDomIds \cup {-1} /\ NoDSid = -1 /\ NoLine = -1
  BY BootAssumption DEF LDomIds, DSids, NoDSid, NoLine
<1>4. Lines = 0..23 /\ Components = 4
  BY DEF Lines, TableSize, Components
<1>5. /\ \A d \in LDomIds : IdeLine(d) \in IdeLines
      /\ IdeLines \subseteq 10..13 /\ IdeLines \subseteq LogicalLines
      /\ {2, 4, 8} \subseteq LogicalLines /\ LogicalLines \subseteq Nat
  BY <1>3 DEF IdeLines, IdeLine, LogicalLines
<1>6. QED
  BY <1>1, <1>2, <1>3, <1>4, <1>5

LEMMA IchFrame == IchInv /\ UNCHANGED <<toolVars, loader, cpu>> => IchInv'
BY DEF toolVars, IchInv, IchTypes, Rows, WholeRow, PartRow, Filling, InOrder, OneRowEach, Served, Assigned, HasRow

LEMMA IchInitially == Init => IchInv
<1> SUFFICES ASSUME Init PROVE IchInv
  OBVIOUS
<1> USE IchConstants, BootConstants DEF Init, BootInit
<1>1. EmptyIchRow \in IchRow /\ ~EmptyIchRow.valid /\ EmptyIchRow.DSid = NoDSid /\ EmptyIchRow.selected = NoDSid
  BY DEF EmptyIchRow, IchRow
<1>2. NoTool \in ToolState /\ NoTool.pc = "off"
  BY DEF NoTool, ToolState, ToolSteps
<1>3. IchTypes
  BY <1>1, <1>2 DEF IchTypes
<1>4. Rows /\ InOrder /\ OneRowEach
  BY <1>1, <1>2 DEF Rows, PartRow, Filling, InOrder, OneRowEach
<1>5. Served
  BY <1>2 DEF Served, Assigned, NoLoader
<1>6. QED
  BY <1>2, <1>3, <1>4, <1>5 DEF IchInv

\* Rows are never given back, so that what a domain was granted stays.
TableGrows ==
    /\ DOMAIN ichTable' = DOMAIN ichTable
    /\ \A r \in DOMAIN ichTable : ichTable[r].valid =>
          ichTable'[r].valid /\ ichTable'[r].DSid = ichTable[r].DSid

LEMMA ServedStays ==
    ASSUME Served, TableGrows,
           \A d \in LDomIds : Assigned(d)' => \/ Assigned(d) \/ HasRow(d)'
                                             \/ \A r \in DOMAIN ichTable' : ichTable'[r].valid
    PROVE  Served'
BY DEF Served, TableGrows, HasRow

LEMMA KickstartKeeps == IchInv /\ Kickstart => IchInv'
<1> SUFFICES ASSUME IchInv, Kickstart PROVE IchInv'
  OBVIOUS
<1> USE IchConstants DEF IchInv, Kickstart
<1>1. tool'.pc = "assign" /\ tool'.DSid \in LDomIds /\ tool' \in ToolState /\ UNCHANGED <<ichTable, loader, cpu>>
  <2>1. Kickstarts[started + 1] \in LDomIds
    BY DEF IchTypes
  <2>2. tool' = [pc |-> "assign", DSid |-> Kickstarts[started + 1], row |-> 0, k |-> 0, buf |-> NoLine]
    BY DEF NoTool
  <2>3. tool' \in ToolState
    BY ONLY <2>1, <2>2, IchConstants DEF ToolState, ToolSteps
  <2>4. QED
    BY <2>1, <2>2, <2>3 DEF bootVars
<1>2. IchTypes'
  BY <1>1 DEF IchTypes
<1>3. Rows' /\ InOrder' /\ OneRowEach'
  BY <1>1 DEF Rows, WholeRow, PartRow, Filling, InOrder, OneRowEach
<1>4. Served'
  BY <1>1 DEF Served, Assigned, HasRow
<1>5. QED
  BY <1>1, <1>2, <1>3, <1>4

\* The tool's search: all rows before the one it stops at are other domains',
\* and there are not more domains than component sets.
LEMMA SearchStops ==
    ASSUME IchInv, tool.DSid \in LDomIds,
           NEW stop, stop = {r \in DOMAIN ichTable : ~ichTable[r].valid \/ ichTable[r].DSid = tool.DSid},
           stop # {}
    PROVE  /\ FirstRow(stop) \in DOMAIN ichTable
           /\ ichTable[FirstRow(stop)].valid => HasRow(tool.DSid)
           /\ ~ichTable[FirstRow(stop)].valid =>
                 /\ FirstRow(stop) < Components
                 /\ \A q \in DOMAIN ichTable : ichTable[q].valid <=> q < FirstRow(stop)
                 /\ \A q \in DOMAIN ichTable : ichTable[q].valid => ichTable[q].DSid # tool.DSid
<1> DEFINE first == FirstRow(stop)
<1> USE IchConstants DEF IchInv
<1>1. DOMAIN ichTable = 0..(IchRows - 1) /\ stop \subseteq DOMAIN ichTable /\ stop \subseteq Nat
  BY DEF IchTypes
<1>2. first \in stop /\ \A q \in stop : first <= q
  BY <1>1, FirstIsLeast, Zenon DEF FirstRow
<1> HIDE DEF first
<1>3. \A q \in DOMAIN ichTable : q < first => ichTable[q].valid /\ ichTable[q].DSid # tool.DSid
  BY <1>1, <1>2
<1>4. ASSUME ~ichTable[first].valid
      PROVE  /\ first < Components
             /\ \A q \in DOMAIN ichTable : ichTable[q].valid <=> q < first
  <2>1. \A q \in DOMAIN ichTable : ichTable[q].valid => q < first
    BY <1>1, <1>2, <1>4 DEF InOrder
  <2>2. \A q \in DOMAIN ichTable : ichTable[q].valid => ichTable[q].DSid \in 0..3
    BY DEF Rows, WholeRow
  <2>3. first < 4
    <3> SUFFICES ASSUME first >= 4 PROVE FALSE
      BY <1>1, <1>2
    <3>1. {0, 1, 2, 3} \subseteq DOMAIN ichTable
      BY <1>1, <1>2
    <3>2. \A q \in {0, 1, 2, 3} : ichTable[q].valid /\ ichTable[q].DSid \in 0..3 /\ ichTable[q].DSid # tool.DSid
      BY <1>1, <1>2, <1>3, <2>2, <3>1
    <3>3. \A q, p \in {0, 1, 2, 3} : ichTable[q].DSid = ichTable[p].DSid => q = p
      BY <3>1, <3>2 DEF OneRowEach
    <3>4. tool.DSid \in 0..3
      OBVIOUS
    <3>5. QED
      BY ONLY <3>2, <3>3, <3>4, SMTT(60)
  <2>4. QED
    BY <1>3, <2>1, <2>3
<1>5. ichTable[first].valid => HasRow(tool.DSid)
  BY <1>1, <1>2 DEF HasRow
<1>6. QED
  BY <1>1, <1>2, <1>3, <1>4, <1>5 DEF first

LEMMA IchAssignKeeps == IchInv /\ IchAssign => IchInv'
<1> SUFFICES ASSUME IchInv, IchAssign PROVE IchInv'
  OBVIOUS
<1> DEFINE stop == {r \in DOMAIN ichTable : ~ichTable[r].valid \/ ichTable[r].DSid = tool.DSid}
           first == FirstRow(stop)
<1> USE IchConstants DEF IchInv
<1>1. /\ tool.pc = "assign" /\ tool.DSid \in LDomIds /\ tool \in ToolState
      /\ UNCHANGED <<ichTable, loader, cpu, started>>
  BY DEF IchAssign, IchTypes, bootVars
<1>2. CASE stop = {} \/ ichTable[first].valid
  <2>1. tool' = [tool EXCEPT !.pc = "irqmap"]
    BY <1>2 DEF IchAssign
  <2>2. (\A r \in DOMAIN ichTable : ichTable[r].valid) \/ HasRow(tool.DSid)
    <3>1. CASE stop = {}
      BY <3>1
    <3>2. CASE stop # {}
      BY <1>1, <1>2, <3>2, SearchStops
    <3>3. QED
      BY <3>1, <3>2
  <2> HIDE DEF stop, first
  <2>3. tool'.pc = "irqmap" /\ tool'.DSid = tool.DSid /\ tool' \in ToolState
    BY <1>1, <2>1 DEF ToolState, ToolSteps
  <2>4. IchTypes'
    BY <1>1, <2>3 DEF IchTypes
  <2>5. Rows' /\ InOrder' /\ OneRowEach'
    BY <1>1, <2>3 DEF Rows, WholeRow, PartRow, Filling, InOrder, OneRowEach
  <2>6. Served'
    BY <1>1, <2>2, <2>3 DEF Served, Assigned, HasRow
  <2>7. QED
    BY <2>3, <2>4, <2>5, <2>6
<1>3. CASE stop # {} /\ ~ichTable[first].valid
  <2>1. tool' = [tool EXCEPT !.pc = "words", !.row = first, !.k = 1]
    BY <1>3 DEF IchAssign
  <2>2. /\ first \in DOMAIN ichTable /\ first < Components
        /\ \A q \in DOMAIN ichTable : ichTable[q].valid <=> q < first
        /\ \A q \in DOMAIN ichTable : ichTable[q].valid => ichTable[q].DSid # tool.DSid
    BY <1>1, <1>3, SearchStops
  <2> HIDE DEF stop, first
  <2>3. /\ tool'.pc = "words" /\ tool'.DSid = tool.DSid /\ tool'.row = first /\ tool'.k = 1
        /\ tool' \in ToolState
    <3>1. first \in 0..(IchRows - 1)
      BY <2>2 DEF IchTypes
    <3>2. tool' = [pc |-> "words", DSid |-> tool.DSid, row |-> first, k |-> 1, buf |-> tool.buf]
      BY ONLY <1>1, <2>1 DEF ToolState
    <3>3. tool.DSid \in DSids /\ tool.buf \in IdeLines \cup {NoLine}
      BY ONLY <1>1 DEF ToolState
    <3>4. tool' \in ToolState
      BY ONLY <3>1, <3>2, <3>3 DEF ToolState, ToolSteps
    <3>5. QED
      BY <1>1, <2>1, <3>4 DEF ToolState
  <2>4. IchTypes'
    BY <1>1, <2>3 DEF IchTypes
  <2>5. Rows'
    <3> SUFFICES ASSUME NEW r \in DOMAIN ichTable
                 PROVE  IF ichTable[r].valid THEN WholeRow(r)' ELSE PartRow(r)'
      BY <1>1 DEF Rows
    <3>1. CASE ichTable[r].valid
      BY <1>1, <3>1 DEF Rows, WholeRow
    <3>2. CASE ~ichTable[r].valid
      <4>1. \A l \in Lines : ~(l < 2 * (1 - 5))
        OBVIOUS
      <4>2. \A j \in DOMAIN Regbase : ~(j < 1)
        BY DEF Regbase
      <4>3. QED
        BY <1>1, <2>2, <2>3, <3>2, <4>1, <4>2 DEF Rows, PartRow, Filling
    <3>3. QED
      BY <3>1, <3>2
  <2>6. InOrder' /\ OneRowEach'
    BY <1>1, <2>2, <2>3 DEF InOrder, OneRowEach, Filling
  <2>7. Served'
    BY <1>1, <2>3 DEF Served, Assigned, HasRow
  <2>8. ~ichTable'[tool'.row].valid
    BY <1>1, <2>2, <2>3 DEF IchTypes
  <2>9. QED
    BY <2>3, <2>4, <2>5, <2>6, <2>7, <2>8
<1>4. QED
  BY <1>2, <1>3

\* One more word of the row: a register window, two lines, or the publication.
WordEffect(old, new, w) ==
    /\ new \in IchRow
    /\ w = 0 => /\ new.valid /\ new.DSid = tool.DSid /\ new.selected = tool.row
                /\ new.regbase = old.regbase /\ new.intlines = old.intlines
    /\ w # 0 => new.valid = old.valid /\ new.DSid = old.DSid /\ new.selected = old.selected
    /\ w \in 1..4 => new.regbase = old.regbase \cup {Regbase[w]} /\ new.intlines = old.intlines
    /\ w \in 5..16 => /\ new.regbase = old.regbase
                      /\ new.intlines = [l \in Lines |-> IF l \in PairOf(w) THEN AssignedLine(tool.row, l)
                                                         ELSE old.intlines[l]]

LEMMA WordStored ==
    ASSUME IchInv, IchAssignWord
    PROVE  /\ IchWords[tool.k] = IF tool.k = 17 THEN 0 ELSE tool.k
           /\ WordEffect(ichTable[tool.row], ichTable'[tool.row], IchWords[tool.k])
           /\ ichTable' = [ichTable EXCEPT ![tool.row] = ichTable'[tool.row]]
<1> DEFINE old == ichTable[tool.row]
           new == ichTable'[tool.row]
           w == IchWords[tool.k]
           lines == [l \in Lines |-> IF l \in PairOf(w) THEN AssignedLine(tool.row, l) ELSE old.intlines[l]]
           row == IF w = 0 THEN [old EXCEPT !.valid = TRUE, !.DSid = tool.DSid, !.selected = tool.row]
                  ELSE IF w \in DOMAIN Regbase THEN [old EXCEPT !.regbase = old.regbase \cup {Regbase[w]}]
                  ELSE [old EXCEPT !.intlines = lines]
<1>1. /\ tool.pc = "words" /\ tool.k \in 1..17 /\ tool.row \in DOMAIN ichTable /\ tool.row \in Nat
      /\ tool.DSid \in LDomIds /\ old \in IchRow
  BY IchConstants DEF IchInv, IchAssignWord, IchTypes, ToolState
<1>2. w = IF tool.k = 17 THEN 0 ELSE tool.k
  BY <1>1 DEF IchWords
<1>3. ichTable' = [ichTable EXCEPT ![tool.row] = row]
  BY DEF IchAssignWord, StoreWord
<1> HIDE DEF row
<1>4. new = row /\ ichTable' = [ichTable EXCEPT ![tool.row] = new]
  BY <1>1, <1>3 DEF IchInv, IchTypes
<1>5. w \in 0..16 /\ DOMAIN Regbase = 1..4
  BY <1>1, <1>2 DEF Regbase
<1> HIDE DEF w, old, new
<1>6. ASSUME w = 0 PROVE WordEffect(old, new, w)
  <2>1. new = [old EXCEPT !.valid = TRUE, !.DSid = tool.DSid, !.selected = tool.row]
    BY <1>4, <1>6 DEF row
  <2>2. new = [valid |-> TRUE, DSid |-> tool.DSid, selected |-> tool.row, regbase |-> old.regbase, intlines |-> old.intlines]
    BY ONLY <1>1, <2>1 DEF IchRow
  <2>3. new \in IchRow
    BY <1>1, <2>2, IchConstants DEF IchRow
  <2>4. QED
    BY <1>6, <2>2, <2>3 DEF WordEffect
<1>7. ASSUME w \in 1..4 PROVE WordEffect(old, new, w)
  <2>1. Regbase[w] \in Windows
    BY <1>7 DEF Regbase, Windows
  <2>2. new = [old EXCEPT !.regbase = old.regbase \cup {Regbase[w]}]
    BY <1>4, <1>5, <1>7 DEF row
  <2>3. new \in IchRow
    BY ONLY <1>1, <2>1, <2>2 DEF IchRow
  <2>4. QED
    BY <1>1, <1>7, <2>2, <2>3 DEF WordEffect, IchRow
<1>8. ASSUME w \in 5..16 PROVE WordEffect(old, new, w)
  <2>1. lines \in [Lines -> LogicalLines \cup {NoLine}]
    BY <1>1, IchConstants DEF IchRow, AssignedLine
  <2>2. new = [old EXCEPT !.intlines = lines]
    BY <1>4, <1>5, <1>8 DEF row
  <2> HIDE DEF lines
  <2>3. new \in IchRow
    BY ONLY <1>1, <2>1, <2>2 DEF IchRow
  <2>4. /\ new.valid = old.valid /\ new.DSid = old.DSid /\ new.selected = old.selected
        /\ new.regbase = old.regbase /\ new.intlines = lines
    BY <1>1, <2>2 DEF IchRow
  <2>5. QED
    BY <1>8, <2>3, <2>4 DEF WordEffect, lines
<1>9. WordEffect(old, new, w)
  BY <1>5, <1>6, <1>7, <1>8
<1>10. QED
  BY <1>2, <1>4, <1>9 DEF old, new, w

LEMMA IchAssignWordKeeps == IchInv /\ IchAssignWord => IchInv'
<1> SUFFICES ASSUME IchInv, IchAssignWord PROVE IchInv'
  OBVIOUS
<1> DEFINE old == ichTable[tool.row]
           new == ichTable'[tool.row]
           w == IchWords[tool.k]
           d == tool.DSid
           row == tool.row
           k == tool.k
<1>1. /\ tool.pc = "words" /\ k \in 1..17 /\ row \in DOMAIN ichTable /\ row \in Nat
      /\ d \in LDomIds /\ tool \in ToolState /\ old \in IchRow
      /\ UNCHANGED <<loader, cpu, started>>
  BY IchConstants DEF IchInv, IchAssignWord, IchTypes, ToolState, bootVars
<1>2. w = (IF k = 17 THEN 0 ELSE k) /\ WordEffect(old, new, w)
  BY WordStored
<1>3. ~old.valid /\ PartRow(row)
  BY <1>1 DEF IchInv, Rows
<1>4. /\ old.DSid = NoDSid /\ old.selected = NoDSid /\ row < Components
      /\ \A q \in DOMAIN ichTable : ichTable[q].valid => ichTable[q].DSid # d
      /\ \A j \in DOMAIN Regbase : j < k => Regbase[j] \in old.regbase
      /\ \A l \in Lines : l < 2 * (k - 5) => old.intlines[l] = AssignedLine(row, l)
  BY <1>1, <1>3 DEF PartRow, Filling
<1>5. /\ DOMAIN ichTable' = DOMAIN ichTable
      /\ \A r \in DOMAIN ichTable : r # row => ichTable'[r] = ichTable[r]
  BY WordStored DEF IchInv, IchTypes
<1>6. ichTable' \in [0..(IchRows - 1) -> IchRow]
  BY <1>2, <1>5, WordStored DEF IchInv, IchTypes, WordEffect
<1>7. TableGrows
  BY <1>3, <1>5 DEF TableGrows
<1>8. CASE k < 17
  <2>1. tool' = [tool EXCEPT !.k = k + 1] /\ w = k
    BY <1>1, <1>2, <1>8 DEF IchAssignWord, IchWords
  <2> HIDE DEF old, new, w, k, row, d
  <2>2. /\ tool'.pc = "words" /\ tool'.k = k + 1 /\ tool'.row = row /\ tool'.DSid = d /\ tool' \in ToolState
    BY <1>1, <1>8, <2>1 DEF ToolState, row, d
  <2>3. IchTypes'
    BY <1>1, <1>6, <1>8, <2>2 DEF IchInv, IchTypes
  <2>4. /\ ~new.valid /\ new.DSid = NoDSid /\ new.selected = NoDSid
    BY <1>1, <1>2, <1>3, <1>4, <2>1 DEF WordEffect
  <2>5. \A j \in DOMAIN Regbase : j < k + 1 => Regbase[j] \in new.regbase
    <3>1. DOMAIN Regbase = 1..4
      BY DEF Regbase
    <3>2. k \in 1..16
      BY <1>1, <1>8
    <3>3. QED
      BY <1>2, <1>4, <2>1, <3>1, <3>2 DEF WordEffect
  <2>6. \A l \in Lines : l < 2 * (k + 1 - 5) => new.intlines[l] = AssignedLine(row, l)
    <3>1. k \in 1..16 /\ Lines = 0..23
      BY <1>1, <1>8, IchConstants
    <3>2. CASE k \in 1..4
      BY <3>1, <3>2
    <3>3. CASE k \in 5..16
      <4>1. new.intlines = [l \in Lines |-> IF l \in PairOf(k) THEN AssignedLine(row, l) ELSE old.intlines[l]]
        BY <1>2, <2>1, <3>3 DEF WordEffect, row
      <4>2. QED
        BY <1>4, <3>1, <4>1 DEF PairOf
    <3>4. QED
      BY <3>1, <3>2, <3>3
  <2>7. Rows'
    <3> SUFFICES ASSUME NEW r \in DOMAIN ichTable
                 PROVE  IF ichTable'[r].valid THEN WholeRow(r)' ELSE PartRow(r)'
      BY <1>5 DEF Rows
    <3>1. CASE r = row
      <4>1. ~ichTable'[r].valid /\ ichTable'[r].DSid = NoDSid /\ ichTable'[r].selected = NoDSid
        BY <2>4, <3>1 DEF new, row
      <4>2. \A q \in DOMAIN ichTable : ichTable'[q].valid => ichTable'[q].DSid # d
        BY <1>4, <1>5, <2>4 DEF new, row
      <4>3. \A j \in DOMAIN Regbase : j < tool'.k => Regbase[j] \in ichTable'[r].regbase
        BY <2>2, <2>5, <3>1 DEF new, row
      <4>4. \A l \in Lines : l < 2 * (tool'.k - 5) => ichTable'[r].intlines[l] = AssignedLine(r, l)
        <5>1. 2 * (tool'.k - 5) = 2 * (k + 1 - 5)
          BY <1>1, <2>2 DEF k
        <5>2. QED
          BY ONLY <2>6, <3>1, <5>1 DEF new, row
      <4>5. r < Components
        BY <1>4, <3>1
      <4>6. QED
        BY <1>5, <2>2, <4>1, <4>2, <4>3, <4>4, <4>5 DEF PartRow
    <3>2. CASE r # row /\ ichTable[r].valid
      BY <1>5, <3>2 DEF IchInv, Rows, WholeRow
    <3>3. CASE r # row /\ ~ichTable[r].valid
      BY <1>5, <2>2, <3>3 DEF IchInv, Rows, PartRow, Filling
    <3>4. QED
      BY <3>1, <3>2, <3>3
  <2>8. InOrder' /\ OneRowEach'
    <3>1. \A r \in DOMAIN ichTable : ichTable'[r].valid <=> ichTable[r].valid
      BY <1>3, <1>5, <2>4 DEF old, new, row
    <3>2. \A r \in DOMAIN ichTable : Filling(r)' = Filling(r)
      BY <1>1, <2>2 DEF Filling, row
    <3>3. \A r \in DOMAIN ichTable : ichTable[r].valid => ichTable'[r].DSid = ichTable[r].DSid
      BY <1>3, <1>5 DEF old, row
    <3>4. QED
      BY <1>5, <3>1, <3>2, <3>3 DEF IchInv, InOrder, OneRowEach
  <2>9. Served'
    BY <1>1, <1>7, <2>2, ServedStays DEF IchInv, Assigned
  <2>10. QED
    BY <2>2, <2>3, <2>4, <2>7, <2>8, <2>9 DEF IchInv, new, row
<1>9. CASE k = 17
  <2>1. tool' = [tool EXCEPT !.pc = "irqmap"] /\ w = 0
    BY <1>1, <1>2, <1>9 DEF IchAssignWord, IchWords
  <2> HIDE DEF old, new, w, k, row, d
  <2>2. tool'.pc = "irqmap" /\ tool'.DSid = d /\ tool' \in ToolState
    BY <1>1, <2>1 DEF ToolState, ToolSteps, d
  <2>3. IchTypes'
    BY <1>1, <1>6, <2>2 DEF IchInv, IchTypes
  <2>4. /\ new.valid /\ new.DSid = d /\ new.selected = row
        /\ new.regbase = old.regbase /\ new.intlines = old.intlines
    BY <1>2, <2>1 DEF WordEffect, d, row
  <2>5. new.regbase = Windows
    <3>1. {"COM", "CMOS", "PIT", "APIC"} \subseteq old.regbase
      BY <1>4, <1>9 DEF Regbase
    <3>2. old.regbase \subseteq Windows
      BY <1>1 DEF IchRow
    <3>3. QED
      BY <2>4, <3>1, <3>2 DEF Windows
  <2>6. \A l \in Lines : new.intlines[l] = AssignedLine(row, l)
    <3>1. \A l \in Lines : l < 2 * (17 - 5)
      BY IchConstants
    <3>2. \A l \in Lines : l < 2 * (k - 5)
      BY <1>9, <3>1
    <3>3. QED
      BY ONLY <1>4, <2>4, <3>2
  <2>7. \A l \in Lines \ (0..9) : new.intlines[l] \in IdeLines \cup {NoLine}
    <3>1. row \in Nat /\ row < 4
      BY <1>1, <1>4, IchConstants
    <3>2. \A l \in Lines \ (0..9) : l \in 10..23
      BY IchConstants
    <3>3. \A l \in 10..23 : AssignedLine(row, l) = NoLine
      BY <3>1 DEF AssignedLine
    <3>4. QED
      BY <2>6, <3>2, <3>3
  <2>8. Rows'
    <3> SUFFICES ASSUME NEW r \in DOMAIN ichTable
                 PROVE  IF ichTable'[r].valid THEN WholeRow(r)' ELSE PartRow(r)'
      BY <1>5 DEF Rows
    <3>1. CASE r = row
      <4>1. ichTable'[r] = new
        BY <3>1 DEF new, row
      <4>2. \A l \in 0..9 : l \in Lines
        BY IchConstants
      <4>3. QED
        BY <1>1, <1>4, <2>4, <2>5, <2>6, <2>7, <3>1, <4>1, <4>2 DEF WholeRow, d
    <3>2. CASE r # row /\ ichTable[r].valid
      BY <1>5, <3>2 DEF IchInv, Rows, WholeRow
    <3>3. CASE r # row /\ ~ichTable[r].valid
      BY <1>5, <2>2, <3>3 DEF IchInv, Rows, PartRow, Filling
    <3>4. QED
      BY <3>1, <3>2, <3>3
  <2>9. InOrder'
    BY <1>1, <1>5, <2>2, <2>4 DEF IchInv, InOrder, Filling, new, row
  <2>10. OneRowEach'
    BY <1>1, <1>4, <1>5, <2>4 DEF IchInv, OneRowEach, new, row
  <2>11. HasRow(d)'
    BY <1>1, <1>5, <2>2, <2>4 DEF HasRow, new, row, d
  <2>12. Served'
    <3>1. \A e \in LDomIds : Assigned(e)' => Assigned(e) \/ HasRow(e)'
      BY <1>1, <2>2, <2>11 DEF Assigned, d
    <3>2. QED
      BY <1>7, <3>1, ServedStays DEF IchInv
  <2>13. QED
    BY <2>2, <2>3, <2>8, <2>9, <2>10, <2>12 DEF IchInv
<1>10. QED
  BY <1>1, <1>8, <1>9

\* The disk's line and the neighbour that shares its word are above the lines
\* of timers, serial ports and clock.
LEMMA IdePair ==
    ASSUME NEW d \in LDomIds
    PROVE  /\ IdeLine(d) \in Lines \ (0..9) /\ Neighbour(IdeLine(d)) \in Lines \ (0..9)
           /\ IdeLine(d) \in IdeLines
<1>1. d \in {0, 1, 2, 3} /\ IdeLine(d) \in IdeLines /\ Lines = 0..23
  BY IchConstants
<1>2. 10 % 2 = 0 /\ 11 % 2 = 1 /\ 12 % 2 = 0 /\ 13 % 2 = 1
  OBVIOUS
<1>3. IdeLine(d) \in 10..13
  BY <1>1 DEF IdeLine
<1>4. Neighbour(IdeLine(d)) \in 10..13
  BY <1>1, <1>2 DEF IdeLine, Neighbour
<1>5. QED
  BY <1>1, <1>3, <1>4

LEMMA IchIrqmapReadKeeps == IchInv /\ IchIrqmapRead => IchInv'
<1> SUFFICES ASSUME IchInv, IchIrqmapRead PROVE IchInv'
  OBVIOUS
<1> DEFINE rows == {r \in IchRowsOf(tool.DSid) : ichTable[r].valid}
           first == FirstRow(rows)
           l == Neighbour(IdeLine(tool.DSid))
<1>1. /\ tool.pc = "irqmap" /\ tool.DSid \in LDomIds /\ tool \in ToolState
      /\ UNCHANGED <<ichTable, loader, cpu, started>>
  BY DEF IchInv, IchIrqmapRead, IchTypes, bootVars
<1>2. ASSUME tool'.pc \in {"boot", "irqwrite"}, tool'.DSid = tool.DSid, tool' \in ToolState,
             tool'.pc = "irqwrite" => ichTable[tool'.row].valid
      PROVE  IchInv'
  <2>1. IchTypes'
    BY <1>1, <1>2 DEF IchInv, IchTypes
  <2>2. Rows' /\ InOrder' /\ OneRowEach'
    BY <1>1, <1>2 DEF IchInv, Rows, WholeRow, PartRow, Filling, InOrder, OneRowEach
  <2>3. Served'
    BY <1>1, <1>2 DEF IchInv, Served, Assigned, HasRow
  <2>4. QED
    BY <1>1, <1>2, <2>1, <2>2, <2>3 DEF IchInv
<1>3. CASE rows = {}
  <2>1. tool' = [tool EXCEPT !.pc = "boot"]
    BY <1>3 DEF IchIrqmapRead
  <2>2. tool'.pc = "boot" /\ tool'.DSid = tool.DSid /\ tool' \in ToolState
    BY <1>1, <2>1 DEF ToolState, ToolSteps
  <2>3. QED
    BY <1>2, <2>2
<1>4. CASE rows # {}
  <2>1. tool' = [tool EXCEPT !.pc = "irqwrite", !.row = first, !.buf = ichTable[first].intlines[l]]
    BY <1>4 DEF IchIrqmapRead
  <2>2. first \in rows
    <3>1. rows \subseteq Nat
      BY IchConstants DEF IchRowsOf, IchInv, IchTypes
    <3>2. QED
      BY <1>4, <3>1, FirstIsLeast, Zenon DEF FirstRow
  <2> HIDE DEF first
  <2>3. first \in DOMAIN ichTable /\ ichTable[first].valid /\ first \in 0..(IchRows - 1)
    BY <2>2 DEF IchRowsOf, IchInv, IchTypes
  <2>4. l \in Lines \ (0..9)
    BY <1>1, IdePair
  <2>5. ichTable[first].intlines[l] \in IdeLines \cup {NoLine}
    BY <2>3, <2>4 DEF IchInv, Rows, WholeRow
  <2> HIDE DEF l
  <2>6. tool' = [pc |-> "irqwrite", DSid |-> tool.DSid, row |-> first, k |-> tool.k, buf |-> ichTable[first].intlines[l]]
    BY ONLY <1>1, <2>1 DEF ToolState
  <2>7. tool.DSid \in DSids /\ tool.k \in 0..17
    BY ONLY <1>1 DEF ToolState
  <2>8. tool' \in ToolState
    BY ONLY <2>3, <2>5, <2>6, <2>7 DEF ToolState, ToolSteps
  <2>9. QED
    BY <1>2, <2>3, <2>6, <2>8
<1>5. QED
  BY <1>3, <1>4

LEMMA IchIrqmapWriteKeeps == IchInv /\ IchIrqmapWrite => IchInv'
<1> SUFFICES ASSUME IchInv, IchIrqmapWrite PROVE IchInv'
  OBVIOUS
<1> DEFINE l == IdeLine(tool.DSid)
           m == Neighbour(l)
           row == tool.row
           old == ichTable[row]
           new == ichTable'[row]
<1>1. /\ tool.pc = "irqwrite" /\ tool.DSid \in LDomIds /\ tool \in ToolState
      /\ row \in DOMAIN ichTable /\ old \in IchRow /\ old.valid /\ tool.buf \in IdeLines \cup {NoLine}
      /\ UNCHANGED <<loader, cpu, started>>
  BY DEF IchInv, IchIrqmapWrite, IchTypes, ToolState, bootVars
<1>2. l \in Lines \ (0..9) /\ m \in Lines \ (0..9) /\ l \in IdeLines
  BY <1>1, IdePair
<1>3. ichTable' = [ichTable EXCEPT ![row].intlines[l] = l, ![row].intlines[m] = tool.buf]
  BY DEF IchIrqmapWrite
<1> HIDE DEF l, m
<1>4. /\ DOMAIN ichTable' = DOMAIN ichTable
      /\ \A r \in DOMAIN ichTable : r # row => ichTable'[r] = ichTable[r]
  BY <1>3 DEF IchInv, IchTypes
<1>5. new = [old EXCEPT !.intlines = [[@ EXCEPT ![l] = l] EXCEPT ![m] = tool.buf]]
  BY <1>1, <1>3 DEF IchInv, IchTypes, IchRow
<1>6. /\ new.valid /\ new.DSid = old.DSid /\ new.selected = old.selected /\ new.regbase = old.regbase
      /\ new.intlines = [[old.intlines EXCEPT ![l] = l] EXCEPT ![m] = tool.buf]
  BY <1>1, <1>5 DEF IchRow
<1>7. old.intlines \in [Lines -> LogicalLines \cup {NoLine}]
  BY <1>1 DEF IchRow
<1>8. /\ new.intlines \in [Lines -> LogicalLines \cup {NoLine}]
      /\ \A n \in 0..9 : new.intlines[n] = old.intlines[n]
      /\ \A n \in Lines \ (0..9) : new.intlines[n] \in {old.intlines[n]} \cup IdeLines \cup {NoLine}
  <2>1. l \in Lines /\ l \notin 0..9 /\ m \in Lines /\ m \notin 0..9 /\ l \in LogicalLines /\ IdeLines \subseteq LogicalLines
    BY <1>2, IchConstants
  <2>2. \A n \in Lines : new.intlines[n] = IF n = m THEN tool.buf ELSE IF n = l THEN l ELSE old.intlines[n]
    BY ONLY <1>6, <1>7, <2>1
  <2>3. new.intlines \in [Lines -> LogicalLines \cup {NoLine}]
    BY <1>1, <1>6, <1>7, <2>1
  <2>4. \A n \in 0..9 : n \in Lines
    BY IchConstants
  <2>5. QED
    BY <1>1, <1>2, <2>1, <2>2, <2>3, <2>4
<1>9. new = [old EXCEPT !.intlines = new.intlines]
  BY <1>5, <1>6
<1>10. new \in IchRow
  BY <1>1, <1>8, <1>9 DEF IchRow
<1>11. tool' = [tool EXCEPT !.pc = "boot"]
  BY DEF IchIrqmapWrite
<1>12. tool'.pc = "boot" /\ tool'.DSid = tool.DSid /\ tool' \in ToolState
  BY <1>1, <1>11 DEF ToolState, ToolSteps
<1>13. IchTypes'
  <2>1. ichTable' \in [0..(IchRows - 1) -> IchRow]
    <3>1. ichTable' = [ichTable EXCEPT ![row] = new]
      BY <1>3 DEF IchInv, IchTypes
    <3>2. QED
      BY <1>10, <3>1 DEF IchInv, IchTypes
  <2>2. QED
    BY <1>1, <1>12, <2>1 DEF IchInv, IchTypes
<1> HIDE DEF new, old, row
<1>14. Rows'
  <2> SUFFICES ASSUME NEW r \in DOMAIN ichTable
               PROVE  IF ichTable'[r].valid THEN WholeRow(r)' ELSE PartRow(r)'
    BY <1>4 DEF Rows
  <2>1. CASE r = row
    <3>1. ichTable'[r] = new /\ ichTable[r] = old /\ old.valid
      BY <1>1, <2>1 DEF new, old, row
    <3>2. WholeRow(r)
      BY <3>1 DEF IchInv, Rows
    <3>3. /\ \A n \in 0..9 : new.intlines[n] = AssignedLine(r, n)
          /\ \A n \in Lines \ (0..9) : new.intlines[n] \in IdeLines \cup {NoLine}
      BY <1>8, <3>1, <3>2 DEF WholeRow
    <3>4. QED
      BY <1>6, <3>1, <3>2, <3>3 DEF WholeRow
  <2>2. CASE r # row /\ ichTable[r].valid
    BY <1>4, <2>2 DEF IchInv, Rows, WholeRow
  <2>3. CASE r # row /\ ~ichTable[r].valid
    BY <1>4, <1>12, <2>3 DEF IchInv, Rows, PartRow, Filling
  <2>4. QED
    BY <2>1, <2>2, <2>3
<1>15. \A r \in DOMAIN ichTable : (ichTable'[r].valid <=> ichTable[r].valid) /\ ichTable'[r].DSid = ichTable[r].DSid
  BY <1>1, <1>4, <1>6 DEF new, old, row
<1>16. InOrder' /\ OneRowEach'
  BY <1>4, <1>12, <1>15 DEF IchInv, InOrder, OneRowEach, Filling
<1>17. Served'
  BY <1>1, <1>4, <1>12, <1>15 DEF IchInv, Served, Assigned, HasRow
<1>18. QED
  BY <1>12, <1>13, <1>14, <1>16, <1>17 DEF IchInv

LEMMA BiosloaderKeeps == IchInv /\ Biosloader => IchInv'
<1> SUFFICES ASSUME IchInv, Biosloader PROVE IchInv'
  OBVIOUS
<1>1. tool.pc = "boot" /\ tool.DSid \in LDomIds /\ tool' = NoTool /\ UNCHANGED <<ichTable, cpu, started>>
  BY DEF IchInv, IchTypes, Biosloader, LoaderStart
<1>2. NoTool \in ToolState /\ NoTool.pc = "off"
  BY IchConstants DEF NoTool, ToolState, ToolSteps
<1>3. loader'.pc = "off" \/ loader'.DSid = tool.DSid
  BY DEF Biosloader, LoaderStart, NoLoader
<1>4. IchTypes'
  BY <1>1, <1>2 DEF IchInv, IchTypes
<1>5. Rows' /\ InOrder' /\ OneRowEach'
  BY <1>1, <1>2 DEF IchInv, Rows, WholeRow, PartRow, Filling, InOrder, OneRowEach
<1>6. Served'
  BY <1>1, <1>2, <1>3 DEF IchInv, Served, Assigned, HasRow
<1>7. QED
  BY <1>1, <1>2, <1>4, <1>5, <1>6 DEF IchInv

\* The loader and the boot command leave the ICH alone.
LEMMA BootLeavesIch ==
    ASSUME IchInv, UNCHANGED toolVars,
           \A d \in LDomIds : Assigned(d)' => Assigned(d)
    PROVE  IchInv'
BY DEF toolVars, IchInv, IchTypes, Rows, WholeRow, PartRow, Filling, InOrder, OneRowEach, Served, HasRow

LEMMA LoadKeepsIch == BootInv /\ IchInv /\ Load => IchInv'
<1> SUFFICES ASSUME BootInv, IchInv, Load PROVE IchInv'
  OBVIOUS
<1>1. loader.pc # "off" /\ loader'.DSid = loader.DSid /\ UNCHANGED <<toolVars, cpu>>
  BY DEF BootInv, BootTypes, LoaderState, Load, LoaderMemory, LoaderSegment, LoaderMask, LoaderValid
<1>2. QED
  BY <1>1, BootLeavesIch DEF Assigned, toolVars

LEMMA BootKeepsIch == BootInv /\ IchInv /\ Boot => IchInv'
<1> SUFFICES ASSUME BootInv, IchInv, Boot PROVE IchInv'
  OBVIOUS
<1>1. loader.pc # "off" /\ loader'.pc = "off" /\ UNCHANGED toolVars
  BY DEF Boot, LoaderBoot, NoLoader
<1>2. \A c \in CPUs : cpu'[c].active => cpu[c].active \/ c = loader.DSid
  BY BootStarts DEF Boot, BootInv, BootTypes, UpdateTags
<1>3. QED
  BY <1>1, <1>2, BootLeavesIch, BootConstants DEF Assigned, toolVars

-----------------------------------------------------------------------------
(* The first two layers together.                                          *)
ToolStep == Kickstart \/ IchAssign \/ IchAssignWord \/ IchIrqmapRead \/ IchIrqmapWrite
GuestStep ==
    \/ \E c \in CPUs : \/ ApicWrite(c) \/ SerialOpen(c) \/ SerialBaud(c) \/ SerialStartTx(c)
                       \/ TakeInterrupt(c) \/ TakeStray(c) \/ SerialHandle(c)
    \/ \E line \in Ticking : DeviceInterrupt(line)
    \/ \E i \in 0..(Components - 1) : UartEvent(i)

LEMMA GuestsLeaveTables == GuestStep => UNCHANGED <<bootVars, toolVars>>
BY Zenon DEF GuestStep, ApicWrite, SerialOpen, SerialBaud, SerialStartTx, SerialHandle, SerialStep, TakeInterrupt,
       TakeStray, DeviceInterrupt, UartEvent

LEMMA TablesKept == BootInv /\ IchInv /\ [Next]_vars => BootInv' /\ IchInv'
<1> SUFFICES ASSUME BootInv, IchInv, [Next]_vars PROVE BootInv' /\ IchInv'
  OBVIOUS
<1>1. CASE UNCHANGED <<bootVars, toolVars>>
  <2>1. UNCHANGED <<loader, cpu>>
    BY <1>1 DEF bootVars
  <2>2. QED
    BY <1>1, <2>1, BootFrame, IchFrame
<1>2. CASE GuestStep
  BY <1>1, <1>2, GuestsLeaveTables
<1>3. CASE UNCHANGED vars
  BY <1>1, <1>3 DEF vars
<1>4. CASE ToolStep
  <2>1. UNCHANGED bootVars
    BY <1>4, Zenon DEF ToolStep, Kickstart, IchAssign, IchAssignWord, IchIrqmapRead, IchIrqmapWrite
  <2>2. QED
    BY <1>4, <2>1, BootFrame, KickstartKeeps, IchAssignKeeps, IchAssignWordKeeps, IchIrqmapReadKeeps,
       IchIrqmapWriteKeeps, Zenon DEF ToolStep
<1>5. CASE Biosloader
  <2>1. tool.DSid \in LDomIds /\ LoaderStart(tool.DSid)
    BY <1>5 DEF Biosloader, IchInv, IchTypes
  <2>2. QED
    BY <1>5, <2>1, LoaderStartKeeps, BiosloaderKeeps
<1>6. CASE Load
  BY <1>6, LoadKeepsIch, LoaderMemoryKeeps, LoaderSegmentKeeps, LoaderMaskKeeps, LoaderValidKeeps, Zenon DEF Load
<1>7. CASE Boot
  BY <1>7, BootKeepsIch, LoaderBootKeeps, Zenon DEF Boot
<1>8. QED
  BY <1>2, <1>3, <1>4, <1>5, <1>6, <1>7, Zenon DEF Next, ToolStep, GuestStep

LEMMA TablesHold == Spec => [](BootInv /\ IchInv)
<1>1. Init => BootInv /\ IchInv
  BY BootInitially, IchInitially
<1>2. QED
  BY <1>1, TablesKept, PTL DEF Spec

(* For every order of kick-starts, reboots included, and however the       *)
(* stores of biosloader interleave with running guests: a CPU that runs    *)
(* carries its domain's tag, and that domain's memory holds the image.     *)
THEOREM BootsComplete == Spec => []BootComplete
<1>1. BootInv => BootComplete
  BY BootConstants DEF BootInv, Running, BootComplete, WholeImage
<1>2. QED
  BY <1>1, TablesHold, PTL

(* For any number of rows and domains: a row of the ICH's table that says  *)
(* it is valid has all its words, and belongs to one domain and one set of *)
(* components.                                                             *)
THEOREM PublishesWhole == Spec => []PublishedWhole
<1>1. IchInv => PublishedWhole
  <2> SUFFICES ASSUME IchInv, NEW r \in DOMAIN ichTable, ichTable[r].valid
               PROVE  /\ ichTable[r].regbase = {Regbase[k] : k \in DOMAIN Regbase}
                      /\ ichTable[r].intlines[r] = 2 /\ ichTable[r].intlines[r + 4] = 4 /\ ichTable[r].intlines[8] = 8
                      /\ \A q \in DOMAIN ichTable \ {r} : ichTable[q].valid =>
                            ichTable[q].DSid # ichTable[r].DSid /\ ichTable[q].selected # ichTable[r].selected
    BY DEF PublishedWhole
  <2>1. WholeRow(r) /\ r \in Nat /\ r < 4
    <3>1. WholeRow(r)
      BY DEF IchInv, Rows
    <3>2. DOMAIN ichTable = 0..(IchRows - 1)
      BY DEF IchInv, IchTypes
    <3>3. QED
      BY <3>1, <3>2, IchConstants DEF WholeRow
  <2>2. {Regbase[k] : k \in DOMAIN Regbase} = Windows
    <3>1. DOMAIN Regbase = {1, 2, 3, 4}
      BY DEF Regbase
    <3>2. Regbase[1] = "COM" /\ Regbase[2] = "CMOS" /\ Regbase[3] = "PIT" /\ Regbase[4] = "APIC"
      BY DEF Regbase
    <3>3. QED
      BY <3>1, <3>2 DEF Windows
  <2>3. ichTable[r].intlines[r] = 2 /\ ichTable[r].intlines[r + 4] = 4 /\ ichTable[r].intlines[8] = 8
    <3>1. r \in 0..9 /\ r + 4 \in 0..9 /\ 8 \in 0..9
      BY <2>1
    <3>2. AssignedLine(r, r) = 2 /\ AssignedLine(r, r + 4) = 4 /\ AssignedLine(r, 8) = 8
      BY <2>1 DEF AssignedLine
    <3>3. QED
      BY <2>1, <3>1, <3>2 DEF WholeRow
  <2>4. \A q \in DOMAIN ichTable \ {r} : ichTable[q].valid =>
            ichTable[q].DSid # ichTable[r].DSid /\ ichTable[q].selected # ichTable[r].selected
    BY <2>1 DEF IchInv, Rows, WholeRow, OneRowEach
  <2>5. ichTable[r].regbase = Windows
    BY <2>1 DEF WholeRow
  <2>6. QED
    BY <2>2, <2>3, <2>4, <2>5, Zenon
<1>2. QED
  BY <1>1, TablesHold, PTL

-----------------------------------------------------------------------------
(* What the operations of a serial port do to its fields.                  *)
Moves(u, v) == v \in UartState /\ v.dlab = u.dlab /\ Consistent(v)

LEMMA RaiseDoes ==
    ASSUME NEW u \in UartState
    PROVE  /\ Raise(u) \in UartState
           /\ Raise(u).ier = u.ier /\ Raise(u).dlab = u.dlab /\ Raise(u).status = u.status
           /\ Raise(u).events = u.events /\ Raise(u).data = u.data
           /\ Raise(u).pin = TRUE /\ (u.pin \/ Raise(u).edges > 0)
<1>1. CASE u.pin
  BY <1>1 DEF Raise, UartState
<1>2. CASE ~u.pin
  <2>1. Raise(u) = [u EXCEPT !.pin = TRUE, !.edges = u.edges + 1]
    BY <1>2 DEF Raise
  <2>2. u.edges + 1 \in Nat /\ u.edges + 1 > 0
    BY DEF UartState
  <2>3. QED
    BY <2>1, <2>2 DEF UartState
<1>3. QED
  BY <1>1, <1>2

LEMMA WithdrawDoes ==
    ASSUME NEW u \in UartState, NEW bit \in Bits
    PROVE  LET v == Withdraw(u, bit)
           IN  /\ v \in UartState
               /\ v.ier = u.ier /\ v.dlab = u.dlab /\ v.data = u.data /\ v.edges = u.edges
               /\ v.status = u.status \ {bit} /\ v.events = u.events \ {bit}
               /\ v.pin = (IF bit \in u.status THEN FALSE ELSE u.pin)
BY DEF Withdraw, Lower, UartState

LEMMA ScheduleDoes ==
    ASSUME NEW u \in UartState, NEW bit \in Bits
    PROVE  LET v == ScheduleIntr(u, bit)
           IN  /\ v \in UartState
               /\ v.ier = u.ier /\ v.dlab = u.dlab /\ v.data = u.data /\ v.edges = u.edges /\ v.pin = u.pin
               /\ v.status = u.status /\ v.events = u.events \cup {bit}
BY DEF ScheduleIntr, UartState

LEMMA ProcessDoes ==
    ASSUME NEW u \in UartState, NEW bit \in u.ier
    PROVE  LET v == Process(u, bit)
           IN  /\ v \in UartState
               /\ v.ier = u.ier /\ v.dlab = u.dlab /\ v.data = u.data
               /\ v.pin = TRUE /\ (u.pin \/ v.edges > 0)
               /\ v.status = u.status \cup {bit} /\ v.events = u.events
<1> DEFINE w == Raise(u)
<1>1. /\ w \in UartState
      /\ w.ier = u.ier /\ w.dlab = u.dlab /\ w.status = u.status /\ w.events = u.events /\ w.data = u.data
      /\ w.pin = TRUE /\ (u.pin \/ w.edges > 0)
  BY RaiseDoes
<1>2. Process(u, bit) = [w EXCEPT !.status = w.status \cup {bit}]
  BY DEF Process
<1> HIDE DEF w
<1>3. bit \in Bits
  BY DEF UartState
<1>4. QED
  BY <1>1, <1>2, <1>3 DEF UartState

LEMMA ReadRBRDoes ==
    ASSUME NEW u \in UartState, Consistent(u)
    PROVE  LET v == ReadRBR(u)
           IN  /\ Moves(u, v) /\ v.ier = u.ier /\ v.edges = u.edges
               /\ ~u.dlab => ~v.pin /\ v.status \subseteq u.status
<1> DEFINE less == IF u.data > 0 THEN u.data - 1 ELSE 0
           w == [Lower(u) EXCEPT !.data = less, !.status = u.status \ {"RX"}]
<1>1. CASE u.dlab
  BY <1>1 DEF ReadRBR, Moves
<1>2. CASE ~u.dlab
  <2>1. less \in Nat
    BY DEF UartState
  <2>2. ReadRBR(u) = IF w.data > 0 /\ "RX" \in w.ier THEN ScheduleIntr(w, "RX") ELSE w
    BY <1>2 DEF ReadRBR, Lower, UartState
  <2> HIDE DEF less
  <2>3. /\ w \in UartState /\ w.ier = u.ier /\ w.dlab = u.dlab /\ w.data = less /\ w.edges = u.edges
        /\ w.pin = FALSE /\ w.status = u.status \ {"RX"} /\ w.events = u.events
    BY <2>1 DEF Lower, UartState
  <2> HIDE DEF w
  <2>4. CASE w.data > 0 /\ "RX" \in w.ier
    BY <2>2, <2>3, <2>4, ScheduleDoes DEF Moves, Consistent, Bits
  <2>5. CASE ~(w.data > 0 /\ "RX" \in w.ier)
    BY <2>2, <2>3, <2>5 DEF Moves, Consistent
  <2>6. QED
    BY <2>4, <2>5
<1>3. QED
  BY <1>1, <1>2

LEMMA ReadIIRDoes ==
    ASSUME NEW u \in UartState, Consistent(u)
    PROVE  LET v == ReadIIR(u)
           IN  /\ Moves(u, v) /\ v.ier = u.ier /\ v.edges = u.edges /\ v.pin = u.pin
               /\ v.status \subseteq u.status
               /\ IIR(u) # "TX" => v = u
               /\ IIR(u) = "none" => v.status = {}
BY DEF ReadIIR, IIR, UartState, Moves, Consistent, Bits

LEMMA WriteTHRDoes ==
    ASSUME NEW u \in UartState, Consistent(u)
    PROVE  LET v == WriteTHR(u)
           IN  /\ Moves(u, v) /\ v.ier = u.ier /\ v.edges = u.edges
               /\ ~u.dlab => ~v.pin
BY DEF WriteTHR, ScheduleIntr, Lower, UartState, Moves, Consistent, Bits

LEMMA WriteLCRDoes ==
    ASSUME NEW u \in UartState, Consistent(u), NEW dlab \in BOOLEAN
    PROVE  LET v == WriteLCR(u, dlab)
           IN  /\ v \in UartState /\ Consistent(v) /\ v.dlab = dlab
               /\ v.ier = u.ier /\ v.edges = u.edges /\ v.pin = u.pin /\ v.status = u.status
BY DEF WriteLCR, UartState, Consistent

\* A write of e to IER turns u into v.
IerWritten(u, e, v) ==
    /\ Moves(u, v) /\ (u.dlab => v = u) /\ (~u.dlab => v.ier = e)
    /\ ~u.dlab /\ e = {} => v.status = {}
    /\ "TX" \notin e => v.edges = u.edges /\ v.status \subseteq u.status
    /\ (u.pin => u.status # {}) => (v.pin => v.status # {})
    /\ v.status # {} => v.edges > 0 \/ u.status # {} \/ u.pin

LEMMA WriteIERDoes ==
    ASSUME NEW u \in UartState, Consistent(u), NEW e \in {{}, {"RX"}, {"RX", "TX"}}, NEW recent \in BOOLEAN
    PROVE  IerWritten(u, e, WriteIER(u, e, recent))
<1> DEFINE a == [u EXCEPT !.ier = e]
           w == IF "TX" \notin e THEN Withdraw(a, "TX") ELSE IF recent THEN ScheduleIntr(a, "TX") ELSE Process(a, "TX")
           v == WriteIER(u, e, recent)
<1>1. CASE u.dlab
  BY <1>1 DEF WriteIER, IerWritten, Moves
<1>2. CASE ~u.dlab
  <2>1. e \subseteq Bits /\ "TX" \in Bits /\ "RX" \in Bits
    BY DEF Bits
  <2>2. /\ a \in UartState /\ a.ier = e /\ a.dlab = u.dlab /\ a.status = u.status /\ a.events = u.events
        /\ a.data = u.data /\ a.pin = u.pin /\ a.edges = u.edges
    BY <2>1 DEF UartState
  <2>3. v = IF "RX" \in e /\ w.data > 0 THEN ScheduleIntr(w, "RX") ELSE Withdraw(w, "RX")
    BY <1>2 DEF WriteIER
  <2> HIDE DEF a, v, w
  <2>4. /\ w \in UartState /\ w.ier = e /\ w.dlab = u.dlab /\ w.data = u.data
        /\ "TX" \notin e => /\ w.edges = u.edges /\ w.status = u.status \ {"TX"} /\ w.events = u.events \ {"TX"}
                            /\ w.pin = (IF "TX" \in u.status THEN FALSE ELSE u.pin)
        /\ "TX" \in e => \/ /\ w.edges = u.edges /\ w.status = u.status /\ w.events = u.events \cup {"TX"}
                             /\ w.pin = u.pin
                          \/ /\ w.pin = TRUE /\ (u.pin \/ w.edges > 0)
                             /\ w.status = u.status \cup {"TX"} /\ w.events = u.events
    <3>1. CASE "TX" \notin e
      <4>1. w = Withdraw(a, "TX")
        BY <3>1 DEF w
      <4>2. /\ w \in UartState /\ w.ier = a.ier /\ w.dlab = a.dlab /\ w.data = a.data /\ w.edges = a.edges
            /\ w.status = a.status \ {"TX"} /\ w.events = a.events \ {"TX"}
            /\ w.pin = (IF "TX" \in a.status THEN FALSE ELSE a.pin)
        BY <2>1, <2>2, <4>1, WithdrawDoes
      <4>3. QED
        BY <2>2, <3>1, <4>2
    <3>2. CASE "TX" \in e /\ recent
      <4>1. w = ScheduleIntr(a, "TX")
        BY <3>2 DEF w
      <4>2. /\ w \in UartState /\ w.ier = a.ier /\ w.dlab = a.dlab /\ w.data = a.data /\ w.edges = a.edges
            /\ w.pin = a.pin /\ w.status = a.status /\ w.events = a.events \cup {"TX"}
        BY <2>1, <2>2, <4>1, ScheduleDoes
      <4>3. QED
        BY <2>2, <3>2, <4>2
    <3>3. CASE "TX" \in e /\ ~recent
      <4>1. w = Process(a, "TX")
        BY <3>3 DEF w
      <4>2. /\ w \in UartState /\ w.ier = a.ier /\ w.dlab = a.dlab /\ w.data = a.data
            /\ w.pin = TRUE /\ (a.pin \/ w.edges > 0)
            /\ w.status = a.status \cup {"TX"} /\ w.events = a.events
        BY <2>2, <3>3, <4>1, ProcessDoes
      <4>3. QED
        BY <2>2, <3>3, <4>2
    <3>4. QED
      BY <3>1, <3>2, <3>3
  <2>5. /\ v \in UartState /\ v.ier = e /\ v.dlab = u.dlab /\ v.data = u.data /\ v.edges = w.edges
        /\ \/ /\ "RX" \in e /\ u.data > 0
              /\ v.status = w.status /\ v.pin = w.pin /\ v.events = w.events \cup {"RX"}
           \/ /\ ~("RX" \in e /\ u.data > 0)
              /\ v.status = w.status \ {"RX"} /\ v.events = w.events \ {"RX"}
              /\ v.pin = (IF "RX" \in w.status THEN FALSE ELSE w.pin)
    <3>1. CASE "RX" \in e /\ w.data > 0
      BY <2>1, <2>3, <2>4, <3>1, ScheduleDoes
    <3>2. CASE ~("RX" \in e /\ w.data > 0)
      BY <2>1, <2>3, <2>4, <3>2, WithdrawDoes
    <3>3. QED
      BY <3>1, <3>2
  <2>6. u.status \subseteq Bits /\ u.events \subseteq Bits /\ u.status \cup u.events \subseteq u.ier
    BY DEF UartState, Consistent
  <2>7. Consistent(v)
    BY <2>4, <2>5, <2>6 DEF Consistent, Bits
  <2>8. e = {} => v.status = {}
    BY <2>4, <2>5, <2>6 DEF Bits
  <2>9. "TX" \notin e => v.edges = u.edges /\ v.status \subseteq u.status
    BY <2>4, <2>5
  <2>10. (u.pin => u.status # {}) => (v.pin => v.status # {})
    BY <2>4, <2>5, <2>6 DEF Bits
  <2>11. v.status # {} => v.edges > 0 \/ u.status # {} \/ u.pin
    BY <2>4, <2>5, <2>6 DEF Bits
  <2>12. QED
    BY <1>2, <2>5, <2>7, <2>8, <2>9, <2>10, <2>11 DEF IerWritten, Moves, v
<1>3. QED
  BY <1>1, <1>2

LEMMA FireDoes ==
    ASSUME NEW u \in UartState, Consistent(u), NEW bit \in u.events
    PROVE  LET v == Fire(u, bit)
           IN  Moves(u, v) /\ v.ier = u.ier /\ u.ier # {} /\ v.status # {} /\ (v.edges > 0 \/ u.pin)
<1> DEFINE a == [u EXCEPT !.events = u.events \ {bit}]
<1>1. /\ a \in UartState /\ a.ier = u.ier /\ a.dlab = u.dlab /\ a.status = u.status
      /\ a.events = u.events \ {bit} /\ a.data = u.data /\ a.pin = u.pin
  BY DEF UartState
<1>2. bit \in u.ier
  BY DEF Consistent
<1>3. Fire(u, bit) = Process(a, bit)
  BY DEF Fire
<1> DEFINE v == Process(a, bit)
<1> HIDE DEF a
<1>4. /\ v \in UartState /\ v.ier = a.ier /\ v.dlab = a.dlab /\ v.data = a.data
      /\ v.pin = TRUE /\ (a.pin \/ v.edges > 0)
      /\ v.status = a.status \cup {bit} /\ v.events = a.events
  BY <1>1, <1>2, ProcessDoes
<1> HIDE DEF v
<1>5. Consistent(v) /\ v.status # {} /\ u.ier # {}
  BY <1>1, <1>2, <1>4 DEF Consistent
<1>6. QED
  BY <1>1, <1>3, <1>4, <1>5 DEF Moves, v

LEMMA DataAvailableDoes ==
    ASSUME NEW u \in UartState, Consistent(u)
    PROVE  LET v == DataAvailable(u)
           IN  /\ Moves(u, v) /\ v.ier = u.ier
               /\ "RX" \in u.ier => v.status # {} /\ (v.edges > 0 \/ u.pin)
               /\ "RX" \notin u.ier => v.status = u.status /\ v.pin = u.pin /\ v.edges = u.edges
<1> DEFINE a == [u EXCEPT !.data = u.data + 1]
           w == Raise(a)
<1>1. /\ a \in UartState /\ a.ier = u.ier /\ a.dlab = u.dlab /\ a.status = u.status
      /\ a.events = u.events /\ a.data = u.data + 1 /\ a.pin = u.pin /\ a.edges = u.edges
  BY DEF UartState
<1>2. DataAvailable(u) = IF "RX" \in u.ier THEN [w EXCEPT !.status = w.status \cup {"RX"}] ELSE a
  BY DEF DataAvailable
<1> HIDE DEF a
<1>3. /\ w \in UartState
      /\ w.ier = u.ier /\ w.dlab = u.dlab /\ w.status = u.status /\ w.events = u.events /\ w.data = u.data + 1
      /\ w.pin = TRUE /\ (u.pin \/ w.edges > 0)
  BY <1>1, RaiseDoes
<1> HIDE DEF w
<1>4. CASE "RX" \in u.ier
  BY <1>2, <1>3, <1>4 DEF Moves, Consistent, UartState, Bits
<1>5. CASE "RX" \notin u.ier
  BY <1>1, <1>2, <1>5 DEF Moves, Consistent
<1>6. QED
  BY <1>4, <1>5

-----------------------------------------------------------------------------
(* What the table's rows mean for addresses and interrupts.                *)
Tables == BootInv /\ IchInv

LEMMA RowsAre ==
    ASSUME IchInv, NEW d \in LDomIds, NEW r, RowIs(d, r)
    PROVE  r \in 0..3 /\ WholeRow(r) /\ IchRowsOf(d) = {r} /\ HasRow(d)
<1>1. r \in DOMAIN ichTable /\ ichTable[r].valid /\ ichTable[r].DSid = d /\ WholeRow(r)
  BY DEF RowIs, IchInv, Rows
<1>2. r \in 0..3
  <2>1. DOMAIN ichTable = 0..(IchRows - 1)
    BY DEF IchInv, IchTypes
  <2>2. r < 4
    BY <1>1, IchConstants DEF WholeRow
  <2>3. QED
    BY <1>1, <2>1, <2>2, IchConstants
<1>3. \A q \in DOMAIN ichTable : ichTable[q].DSid = d => q = r
  <2>1. \A q \in DOMAIN ichTable : ichTable[q].DSid = d => ichTable[q].valid
    BY IchConstants DEF IchInv, Rows, PartRow
  <2>2. QED
    BY <1>1, <2>1 DEF IchInv, OneRowEach
<1>4. QED
  BY <1>1, <1>2, <1>3 DEF IchRowsOf, HasRow

(* remapAddr reaches the component set of the domain's row, and nothing    *)
(* for a domain without a row.                                             *)
LEMMA Remapped ==
    ASSUME IchInv, NEW d \in LDomIds, NEW comp \in Windows
    PROVE  /\ ~HasRow(d) => RemapAddr(d, comp) = Nowhere
           /\ \A r : RowIs(d, r) => /\ RemapAddr(d, comp) # Nowhere
                                    /\ comp = "COM" => RemapAddr(d, comp)[2] = r
<1>1. ASSUME ~HasRow(d) PROVE RemapAddr(d, comp) = Nowhere
  <2>1. IchRowsOf(d) = {}
    BY <1>1, IchConstants DEF IchInv, Rows, PartRow, HasRow, IchRowsOf
  <2>2. QED
    BY <2>1 DEF RemapAddr
<1>2. ASSUME NEW r, RowIs(d, r)
      PROVE  RemapAddr(d, comp) # Nowhere /\ (comp = "COM" => RemapAddr(d, comp)[2] = r)
  <2>1. r \in 0..3 /\ WholeRow(r) /\ IchRowsOf(d) = {r}
    BY <1>2, RowsAre
  <2>2. FirstRow({r}) = r
    BY <2>1 DEF FirstRow
  <2>3. ichTable[r].selected = r /\ comp \in ichTable[r].regbase /\ r \in 0..(Components - 1)
    BY <2>1, IchConstants DEF WholeRow
  <2>4. RemapAddr(d, comp) = IF comp \in {"COM", "PIT"} THEN <<comp, r>> ELSE <<comp, 0>>
    BY <2>1, <2>2, <2>3 DEF RemapAddr
  <2>5. comp # "nowhere"
    BY DEF Windows
  <2>6. RemapAddr(d, comp)[1] = comp
    BY <2>4
  <2>7. QED
    BY <2>4, <2>5, <2>6 DEF Nowhere
<1>3. QED
  BY <1>1, <1>2

LEMMA PortIs ==
    ASSUME Tables, NEW c \in CPUs, cpu[c].active
    PROVE  /\ GuestDSid(c) = c
           /\ RemapAddr(c, "APIC") # Nowhere <=> HasRow(c)
           /\ HasPort(c) <=> c \in SerialUsers /\ HasRow(c)
           /\ HasPort(c) => RowIs(c, Port(c)[2])
           /\ \A r : RowIs(c, r) => Port(c)[2] = r
<1>1. GuestDSid(c) = c /\ c \in LDomIds
  BY BootConstants DEF Tables, BootInv, Running, GuestDSid
<1>2. "COM" \in Windows /\ "APIC" \in Windows
  BY DEF Windows
<1>3. HasRow(c) <=> \E r : RowIs(c, r)
  BY DEF HasRow, RowIs
<1>4. /\ ~HasRow(c) => RemapAddr(c, "COM") = Nowhere /\ RemapAddr(c, "APIC") = Nowhere
      /\ \A r : RowIs(c, r) => /\ RemapAddr(c, "APIC") # Nowhere /\ RemapAddr(c, "COM") # Nowhere
                               /\ RemapAddr(c, "COM")[2] = r
  BY <1>1, <1>2, Remapped DEF Tables
<1>5. QED
  BY <1>1, <1>3, <1>4 DEF HasPort, Port

(* A guest that runs keeps the row it had, and is given none later.        *)
LEMMA TableStep == IchInv /\ [Next]_vars => TableGrows
<1> SUFFICES ASSUME IchInv, [Next]_vars PROVE TableGrows
  OBVIOUS
<1>1. CASE UNCHANGED ichTable
  BY <1>1 DEF TableGrows
<1>2. CASE IchAssignWord
  BY <1>2, WordStored DEF TableGrows, IchInv, IchTypes, IchAssignWord
<1>3. CASE IchIrqmapWrite
  <2>1. tool.row \in DOMAIN ichTable /\ ichTable[tool.row] \in IchRow
    BY <1>3 DEF IchInv, IchTypes, ToolState
  <2>2. QED
    BY <1>3, <2>1 DEF IchIrqmapWrite, TableGrows, IchInv, IchTypes, IchRow
<1>4. CASE GuestStep
  BY <1>1, <1>4, GuestsLeaveTables DEF toolVars
<1>5. CASE Kickstart \/ IchAssign \/ IchIrqmapRead \/ Biosloader \/ Load \/ Boot
  BY <1>1, <1>5, Zenon DEF Kickstart, IchAssign, IchIrqmapRead, Biosloader, Load, Boot, toolVars
<1>6. CASE UNCHANGED vars
  BY <1>1, <1>6 DEF vars, toolVars
<1>7. QED
  BY <1>2, <1>3, <1>4, <1>5, <1>6, Zenon DEF Next, GuestStep

LEMMA RowsStay ==
    ASSUME IchInv, IchInv', TableGrows, NEW c \in CPUs, cpu[c].active
    PROVE  /\ HasRow(c)' => HasRow(c)
           /\ \A r : RowIs(c, r)' <=> RowIs(c, r)
<1>1. HasRow(c) \/ \A r \in DOMAIN ichTable : ichTable[r].valid
  BY BootConstants DEF IchInv, Served, Assigned
<1>2. HasRow(c)' => HasRow(c)
  BY <1>1 DEF HasRow, TableGrows
<1>3. \A r : RowIs(c, r) => RowIs(c, r)'
  BY DEF RowIs, TableGrows
<1>4. \A r : RowIs(c, r)' => RowIs(c, r)
  <2> SUFFICES ASSUME NEW r, RowIs(c, r)' PROVE RowIs(c, r)
    OBVIOUS
  <2>1. HasRow(c)'
    BY DEF HasRow, RowIs
  <2>2. PICK q : RowIs(c, q)
    BY <1>2, <2>1 DEF HasRow, RowIs
  <2>3. RowIs(c, q)'
    BY <1>3, <2>2
  <2>4. q = r
    BY <2>3 DEF RowIs, IchInv, OneRowEach
  <2>5. QED
    BY <2>2, <2>4
<1>5. QED
  BY <1>2, <1>3, <1>4

-----------------------------------------------------------------------------
(* The third layer is preserved.  The serial line of port i is that of the *)
(* domain with row i, and it is programmed.                                *)
Routed(i) == RowIs(ichTable[i].DSid, i) /\ redir[ichTable[i].DSid][4] = Programmed

LEMMA ApicConstants ==
    /\ Len(ProgramLines) \in Nat /\ DOMAIN ProgramLines = 1..Len(ProgramLines)
    /\ \A k \in DOMAIN ProgramLines : ProgramLines[k] \in LogicalLines
    /\ 4 \in LogicalLines /\ NoLine \notin LogicalLines
    /\ Ticking \subseteq Lines \ (4..7)
BY LDomsAssumption, IchConstants

\* What a line leads to: the serial line only from a serial port's own line.
LEMMA LineLeads ==
    ASSUME IchInv, NEW line \in Lines, NEW t \in RemapInterrupt(line), t[1] \in LDomIds
    PROVE  /\ t \in LDomIds \X LogicalLines
           /\ t[2] = 4 => line \in 4..7 /\ RowIs(t[1], line - 4)
           /\ line \in 4..7 => t[2] = 4
<1>1. PICK r \in DOMAIN ichTable : t = <<ichTable[r].DSid, ichTable[r].intlines[line]>> /\ ichTable[r].intlines[line] # NoLine
  BY DEF RemapInterrupt
<1>2. ichTable[r].DSid \in LDomIds /\ ichTable[r] \in IchRow
  BY <1>1 DEF IchInv, IchTypes
<1>3. ichTable[r].valid
  BY <1>2, IchConstants, BootConstants DEF IchInv, Rows, PartRow
<1>4. RowIs(t[1], r) /\ r \in 0..3 /\ WholeRow(r)
  BY <1>1, <1>2, <1>3, RowsAre DEF RowIs
<1>5. t \in LDomIds \X LogicalLines
  BY <1>1, <1>2 DEF IchRow
<1>6. CASE line \in 0..9
  <2>1. t[2] = AssignedLine(r, line)
    BY <1>1, <1>4, <1>6 DEF WholeRow
  <2>2. QED
    BY <1>1, <1>4, <1>5, <1>6, <2>1 DEF AssignedLine
<1>7. CASE line \notin 0..9
  <2>1. t[2] \in IdeLines
    BY <1>1, <1>4, <1>7 DEF WholeRow
  <2>2. t[2] # 4 /\ line \notin 4..7
    BY <1>7, <2>1, IchConstants
  <2>3. QED
    BY <1>5, <2>2
<1>8. QED
  BY <1>6, <1>7

\* signalInterrupt reaches the domain's own CPU only.
LEMMA SignalHome ==
    ASSUME Tables, ApicInv, NEW line \in Lines, SignalInterrupt(line),
           line \in 4..7 => Routed(line - 4)
    PROVE  /\ irq' \in [CPUs -> SUBSET (LDomIds \X LogicalLines)]
           /\ \A c \in CPUs : irq[c] \subseteq irq'[c]
           /\ \A c \in CPUs : \A t \in irq'[c] : t[1] = c /\ cpu[c].active
<1> DEFINE New(c) == {t \in RemapInterrupt(line) : /\ t[1] \in LDomIds
                                                   /\ ~redir[t[1]][t[2]].mask
                                                   /\ c \in Apics(t[1], redir[t[1]][t[2]])}
<1>1. irq' = [c \in CPUs |-> irq[c] \cup New(c)]
  BY DEF SignalInterrupt
<1>2. ASSUME NEW c \in CPUs, NEW t \in New(c)
      PROVE  t \in LDomIds \X LogicalLines /\ t[1] = c /\ cpu[c].active
  <2>1. /\ t \in LDomIds \X LogicalLines
        /\ t[2] = 4 => line \in 4..7 /\ RowIs(t[1], line - 4)
    BY <1>2, LineLeads DEF Tables
  <2>2. t[1] \in LDomIds /\ t[2] \in LogicalLines
    BY <2>1
  <2>3. redir[t[1]][t[2]] = Programmed
    <3>1. CASE t[2] = 4
      BY <2>1, <3>1 DEF Routed, RowIs
    <3>2. CASE t[2] # 4
      BY <1>2, <2>2, <3>2 DEF ApicInv, Entries
    <3>3. QED
      BY <3>1, <3>2
  <2>4. cpu[c].active /\ cpu[c].apic = t[1]
    BY <1>2, <2>3 DEF Apics, Programmed
  <2>5. QED
    BY <2>1, <2>4 DEF Tables, BootInv, Running
<1> HIDE DEF New
<1>3. irq \in [CPUs -> SUBSET (LDomIds \X LogicalLines)]
  BY DEF ApicInv, ApicTypes
<1>4. \A c \in CPUs : irq'[c] = irq[c] \cup New(c)
  BY <1>1
<1>5. \A c \in CPUs : New(c) \subseteq LDomIds \X LogicalLines
  BY <1>2
<1>6. irq' \in [CPUs -> SUBSET (LDomIds \X LogicalLines)]
  BY <1>1, <1>3, <1>5
<1>7. \A c \in CPUs : \A t \in irq'[c] : t[1] = c /\ cpu[c].active
  BY <1>2, <1>4 DEF ApicInv, Home
<1>8. QED
  BY <1>4, <1>6, <1>7

\* And it does reach it.
LEMMA SignalArrives ==
    ASSUME Tables, NEW i \in 0..3, SignalInterrupt(4 + i), NEW c \in CPUs, RowIs(c, i), cpu[c].active,
           redir[c][4] = Programmed
    PROVE  <<c, 4>> \in irq'[c]
<1>1. c \in LDomIds /\ WholeRow(i) /\ i \in DOMAIN ichTable /\ ichTable[i].DSid = c
  BY RowsAre, BootConstants DEF Tables, RowIs
<1>2. ichTable[i].intlines[4 + i] = 4
  <2>1. 4 + i \in 0..9 /\ AssignedLine(i, 4 + i) = 4
    BY DEF AssignedLine
  <2>2. QED
    BY <1>1, <2>1 DEF WholeRow
<1>3. <<c, 4>> \in RemapInterrupt(4 + i)
  <2>1. 4 # NoLine
    BY DEF NoLine
  <2>2. QED
    BY <1>1, <1>2, <2>1 DEF RemapInterrupt
<1>4. c \in Apics(c, redir[c][4]) /\ ~redir[c][4].mask
  BY DEF Apics, Programmed, Tables, BootInv, Running
<1>5. QED
  BY <1>1, <1>3, <1>4 DEF SignalInterrupt

\* Port i becomes v and nothing but interrupts follows from it.
PortStep(i, v) ==
    /\ UNCHANGED <<bootVars, toolVars, apicVars>>
    /\ v \in UartState /\ Consistent(v) /\ UartBecomes(i, v)
    /\ v.ier # {} \/ v.edges > 0 => Routed(i)

LEMMA PortSteps ==
    ASSUME Tables, ApicInv, Ports, NEW i \in 0..3, NEW v, PortStep(i, v)
    PROVE  /\ Ports' /\ Enabled' /\ Home'
           /\ irq' \in [CPUs -> SUBSET (LDomIds \X LogicalLines)]
           /\ \A c \in CPUs : irq[c] \subseteq irq'[c]
           /\ \A j \in 0..3 : j # i => uart'[j] = uart[j]
           /\ uart'[i] = [v EXCEPT !.edges = 0]
           /\ \A c \in CPUs : v.edges > 0 /\ RowIs(c, i) /\ cpu[c].active => <<c, 4>> \in irq'[c]
<1>1. /\ UNCHANGED <<ichTable, redir, cpu>>
      /\ v \in UartState /\ Consistent(v) /\ (v.ier # {} \/ v.edges > 0 => Routed(i))
      /\ uart' = [uart EXCEPT ![i] = [v EXCEPT !.edges = 0]]
  BY DEF PortStep, UartBecomes, bootVars, toolVars, apicVars
<1>2. Components = 4 /\ uart \in [0..3 -> UartState] /\ \A j \in 0..3 : Consistent(uart[j]) /\ uart[j].edges = 0
  BY DEF Ports, Components
<1>3. (\A j \in 0..3 : j # i => uart'[j] = uart[j]) /\ uart'[i] = [v EXCEPT !.edges = 0]
  BY <1>1, <1>2
<1>4. /\ uart'[i] \in UartState /\ uart'[i].edges = 0 /\ uart'[i].ier = v.ier /\ Consistent(uart'[i])
  BY <1>1, <1>3 DEF UartState, Consistent
<1>5. Ports'
  <2>1. uart' \in [0..3 -> UartState]
    BY <1>1, <1>2, <1>3, <1>4
  <2>2. \A j \in 0..3 : Consistent(uart'[j]) /\ uart'[j].edges = 0
    BY <1>2, <1>3, <1>4
  <2>3. QED
    BY <1>2, <2>1, <2>2 DEF Ports, Consistent, Components
<1>6. Enabled'
  <2>1. \A j \in 0..3 : uart'[j].ier # {} => Routed(j)
    <3>1. \A j \in 0..3 : uart[j].ier # {} => Routed(j)
      BY <1>2 DEF ApicInv, Enabled, Routed, RowIs
    <3>2. QED
      BY <1>1, <1>3, <1>4, <3>1
  <2>2. QED
    BY <1>1, <1>2, <2>1 DEF Enabled, Routed, RowIs, Components
<1>7. CASE v.edges > 0
  <2>1. SignalInterrupt(4 + i) /\ Routed(i)
    BY <1>1, <1>7 DEF PortStep, UartBecomes
  <2>2. 4 + i \in Lines /\ (4 + i) - 4 = i
    BY IchConstants
  <2>3. /\ irq' \in [CPUs -> SUBSET (LDomIds \X LogicalLines)]
        /\ \A c \in CPUs : irq[c] \subseteq irq'[c]
        /\ \A c \in CPUs : \A t \in irq'[c] : t[1] = c /\ cpu[c].active
    BY <2>1, <2>2, SignalHome
  <2>4. Home'
    BY <1>1, <2>3 DEF Home
  <2>5. \A c \in CPUs : RowIs(c, i) /\ cpu[c].active => <<c, 4>> \in irq'[c]
    BY <2>1, SignalArrives DEF Routed, RowIs
  <2>6. QED
    BY <1>3, <1>5, <1>6, <2>3, <2>4, <2>5
<1>8. CASE ~(v.edges > 0)
  <2>1. UNCHANGED irq
    BY <1>8 DEF PortStep, UartBecomes
  <2>2. QED
    BY <1>1, <1>3, <1>5, <1>6, <1>8, <2>1 DEF ApicInv, ApicTypes, Home
<1>9. QED
  BY <1>7, <1>8

\* A step of the serial driver of CPU c, from a driver state to another.
DriverStep(c, from, to, v) ==
    /\ SerialStep(c, from, to, v)
    /\ from \in DriverSteps \ {"off"} /\ to \in DriverSteps \ {"off", "boot"}
    /\ from = "boot" => guest[c].pc = 4 * Len(ProgramLines)
    /\ v \in UartState /\ Consistent(v)

\* The port is the driver's own and its line is routed.
LEMMA DriverOwnsPort ==
    ASSUME Tables, ApicInv, NEW c \in CPUs, guest[c].drv # "off", HasPort(c),
           guest[c].drv = "boot" => guest[c].pc = 4 * Len(ProgramLines)
    PROVE  /\ cpu[c].active /\ c \in SerialUsers /\ RowIs(c, Port(c)[2]) /\ Port(c)[2] \in 0..3
           /\ redir[c][4] = Programmed /\ Routed(Port(c)[2])
<1>1. cpu[c].active
  BY DEF ApicInv, ApicTypes
<1>2. c \in SerialUsers /\ RowIs(c, Port(c)[2])
  BY <1>1, PortIs
<1>3. HasRow(c) /\ Port(c)[2] \in 0..3
  BY <1>2, RowsAre, BootConstants DEF Tables
<1>4. Programs(c) /\ Driving(c)
  BY <1>3 DEF ApicInv, Guests
<1>5. redir[c][4] = Programmed
  <2>1. CASE guest[c].drv = "boot"
    <3>1. PICK k \in DOMAIN ProgramLines : ProgramLines[k] = 4
      BY <1>2, LDomsAssumption
    <3>2. 4 * k <= guest[c].pc
      BY <2>1, <3>1, ApicConstants
    <3>3. QED
      BY <1>4, <3>1, <3>2 DEF Programs
  <2>2. CASE guest[c].drv # "boot"
    BY <1>4, <2>2 DEF Driving
  <2>3. QED
    BY <2>1, <2>2
<1>6. QED
  BY <1>1, <1>2, <1>3, <1>5 DEF Routed, RowIs

LEMMA DriverStepKeeps ==
    ASSUME Tables, Tables', ApicInv, Ports, NEW c \in CPUs, NEW from, NEW to, NEW v, DriverStep(c, from, to, v)
    PROVE  ApicInv' /\ Ports' /\ PortStep(Port(c)[2], v) /\ guest[c].drv # "off"
<1> DEFINE i == Port(c)[2]
<1>1. /\ guest[c].drv = from /\ HasPort(c) /\ from \in DriverSteps \ {"off"}
      /\ to \in DriverSteps \ {"off", "boot"} /\ guest' = [guest EXCEPT ![c].drv = to]
      /\ UartBecomes(i, v) /\ UNCHANGED <<bootVars, toolVars, apicVars>>
      /\ v \in UartState /\ Consistent(v)
      /\ from = "boot" => guest[c].pc = 4 * Len(ProgramLines)
  BY DEF DriverStep, SerialStep
<1>2. /\ cpu[c].active /\ c \in SerialUsers /\ RowIs(c, i) /\ i \in 0..3
      /\ redir[c][4] = Programmed /\ Routed(i)
  BY <1>1, DriverOwnsPort
<1> HIDE DEF i
<1>3. PortStep(i, v)
  BY <1>1, <1>2 DEF PortStep
<1>4. Ports' /\ Enabled' /\ Home' /\ irq' \in [CPUs -> SUBSET (LDomIds \X LogicalLines)]
  BY <1>2, <1>3, PortSteps
<1>5. UNCHANGED <<ichTable, regSel, redir, cpu>>
  BY <1>1 DEF bootVars, toolVars, apicVars
<1>6. guest \in [CPUs -> [pc : 0..(4 * Len(ProgramLines)), drv : DriverSteps]]
  BY DEF ApicInv, ApicTypes
<1>7. /\ guest' \in [CPUs -> [pc : 0..(4 * Len(ProgramLines)), drv : DriverSteps]]
      /\ \A b \in CPUs : guest'[b].pc = guest[b].pc
      /\ \A b \in CPUs : b # c => guest'[b] = guest[b]
      /\ guest'[c].drv = to
  BY <1>1, <1>6
<1>8. ApicTypes'
  BY <1>2, <1>4, <1>5, <1>7 DEF ApicInv, ApicTypes
<1>9. Entries'
  BY <1>5 DEF ApicInv, Entries
<1>10. Guests'
  <2> SUFFICES ASSUME NEW b \in CPUs, guest'[b].drv # "off", HasRow(b)' PROVE Programs(b)' /\ Driving(b)'
    BY DEF Guests
  <2>1. guest[b].drv # "off" /\ HasRow(b)
    BY <1>1, <1>5, <1>7 DEF HasRow
  <2>2. Programs(b) /\ Driving(b)
    BY <2>1 DEF ApicInv, Guests
  <2>3. Programs(b)'
    BY <1>5, <1>7, <2>2 DEF Programs, NextLine, NextHalf
  <2>4. Driving(b)'
    BY <1>2, <1>5, <1>7, <2>2 DEF Driving
  <2>5. QED
    BY <2>3, <2>4
<1>11. QED
  BY <1>1, <1>3, <1>4, <1>8, <1>9, <1>10 DEF ApicInv, i

\* Every step of a serial driver is such a step, and what the driver relies on
\* then follows from what it relied on before, but for a transmit interrupt
\* that it had no character for.
Turns(from, to, u, v) ==
    ~(from = "tx" /\ to = "isr") /\ Sees(from, u) =>
        Sees(to, v) /\ (Waits(to, v) => v.edges > 0 \/ Waits(from, u))

LEMMA SerialSteps ==
    ASSUME Tables, ApicInv, Ports, NEW c \in CPUs,
           SerialOpen(c) \/ SerialBaud(c) \/ SerialStartTx(c) \/ SerialHandle(c)
    PROVE  \E from, to, v : DriverStep(c, from, to, v) /\ Turns(from, to, uart[Port(c)[2]], v)
<1> DEFINE u == uart[Port(c)[2]]
<1>1. HasPort(c) /\ guest[c].drv # "off"
  BY DEF SerialOpen, SerialBaud, SerialStartTx, SerialHandle, SerialStep
<1>2. u \in UartState /\ Consistent(u) /\ u.edges = 0
  <2>1. cpu[c].active
    BY <1>1 DEF ApicInv, ApicTypes
  <2>2. Port(c)[2] \in 0..3
    BY <1>1, <2>1, PortIs, RowsAre, BootConstants DEF Tables
  <2>3. QED
    BY <2>2, IchConstants DEF Ports
<1>9. ASSUME NEW dlab \in BOOLEAN
      PROVE  LET v == WriteLCR(u, dlab)
             IN  /\ v \in UartState /\ Consistent(v) /\ v.dlab = dlab
                 /\ v.ier = u.ier /\ v.edges = u.edges /\ v.pin = u.pin /\ v.status = u.status
  BY <1>2, WriteLCRDoes
<1>10. ASSUME NEW e \in {{}, {"RX"}, {"RX", "TX"}}, NEW recent \in BOOLEAN
       PROVE  IerWritten(u, e, WriteIER(u, e, recent))
  BY <1>2, WriteIERDoes
<1> DEFINE Goal == \E from, to, v : DriverStep(c, from, to, v) /\ Turns(from, to, u, v)
<1> HIDE DEF u
<1>3. ASSUME NEW from \in DriverSteps \ {"off"}, NEW to \in DriverSteps \ {"off", "boot"}, NEW v \in UartState,
             SerialStep(c, from, to, v), Consistent(v), Turns(from, to, u, v),
             from = "boot" => guest[c].pc = 4 * Len(ProgramLines)
      PROVE  Goal
  BY <1>3, Zenon DEF DriverStep
<1> HIDE DEF Goal
<1>4. ASSUME SerialOpen(c) PROVE Goal
  <2>1. CASE guest[c].pc = 4 * Len(ProgramLines) /\ SerialStep(c, "boot", "found", WriteLCR(u, FALSE))
    <3> DEFINE v == WriteLCR(u, FALSE)
    <3>1. /\ v \in UartState /\ Consistent(v) /\ v.dlab = FALSE
          /\ v.ier = u.ier /\ v.edges = u.edges /\ v.pin = u.pin /\ v.status = u.status
      BY <1>9
    <3> HIDE DEF v
    <3>2. Turns("boot", "found", u, v)
      BY <3>1 DEF Turns, Sees, Waits
    <3>3. QED
      BY <1>3, <2>1, <3>1, <3>2 DEF DriverSteps, v
  <2>2. CASE SerialStep(c, "found", "quiet", WriteIER(u, {}, FALSE))
    <3> DEFINE v == WriteIER(u, {}, FALSE)
    <3>1. IerWritten(u, {}, v)
      BY <1>10
    <3> HIDE DEF v
    <3>2. v \in UartState /\ Consistent(v) /\ Turns("found", "quiet", u, v)
      BY <1>2, <3>1 DEF IerWritten, Moves, Turns, Sees, Waits, Consistent
    <3>3. QED
      BY <1>3, <2>2, <3>2 DEF DriverSteps, v
  <2>3. CASE SerialStep(c, "quiet", "flushed", ReadRBR(u))
    <3> DEFINE v == ReadRBR(u)
    <3>1. /\ Moves(u, v) /\ v.ier = u.ier /\ v.edges = u.edges
          /\ ~u.dlab => ~v.pin /\ v.status \subseteq u.status
      BY <1>2, ReadRBRDoes
    <3> HIDE DEF v
    <3>2. v \in UartState /\ Consistent(v) /\ Turns("quiet", "flushed", u, v)
      BY <3>1 DEF Moves, Turns, Sees, Waits
    <3>3. QED
      BY <1>3, <2>3, <3>2 DEF DriverSteps, v
  <2>4. CASE SerialStep(c, "flushed", "cleared", ReadIIR(u))
    <3> DEFINE v == ReadIIR(u)
    <3>1. /\ Moves(u, v) /\ v.ier = u.ier /\ v.edges = u.edges /\ v.pin = u.pin
          /\ v.status \subseteq u.status
          /\ IIR(u) # "TX" => v = u
          /\ IIR(u) = "none" => v.status = {}
      BY <1>2, ReadIIRDoes
    <3> HIDE DEF v
    <3>2. v \in UartState /\ Consistent(v) /\ Turns("flushed", "cleared", u, v)
      BY <3>1 DEF Moves, Turns, Sees, Waits
    <3>3. QED
      BY <1>3, <2>4, <3>2 DEF DriverSteps, v
  <2>5. CASE SerialStep(c, "cleared", "idle", WriteIER(u, {"RX"}, FALSE))
    <3> DEFINE v == WriteIER(u, {"RX"}, FALSE)
    <3>1. IerWritten(u, {"RX"}, v)
      BY <1>10
    <3> HIDE DEF v
    <3>2. v \in UartState /\ Consistent(v) /\ Turns("cleared", "idle", u, v)
      BY <1>2, <3>1 DEF IerWritten, Moves, Turns, Sees, Waits, Consistent
    <3>3. QED
      BY <1>3, <2>5, <3>2 DEF DriverSteps, v
  <2>6. QED
    BY <1>4, <2>1, <2>2, <2>3, <2>4, <2>5, Zenon DEF SerialOpen, u
<1>5. ASSUME SerialBaud(c) PROVE Goal
  <2>1. CASE SerialStep(c, "idle", "baud", WriteLCR(u, TRUE))
    <3> DEFINE v == WriteLCR(u, TRUE)
    <3>1. /\ v \in UartState /\ Consistent(v) /\ v.dlab = TRUE
          /\ v.ier = u.ier /\ v.edges = u.edges /\ v.pin = u.pin /\ v.status = u.status
      BY <1>9
    <3> HIDE DEF v
    <3>2. Turns("idle", "baud", u, v)
      BY <3>1 DEF Turns, Sees, Waits
    <3>3. QED
      BY <1>3, <2>1, <3>1, <3>2 DEF DriverSteps, v
  <2>2. CASE SerialStep(c, "baud", "idle", WriteLCR(u, FALSE))
    <3> DEFINE v == WriteLCR(u, FALSE)
    <3>1. /\ v \in UartState /\ Consistent(v) /\ v.dlab = FALSE
          /\ v.ier = u.ier /\ v.edges = u.edges /\ v.pin = u.pin /\ v.status = u.status
      BY <1>9
    <3> HIDE DEF v
    <3>2. Turns("baud", "idle", u, v)
      BY <3>1 DEF Turns, Sees, Waits
    <3>3. QED
      BY <1>3, <2>2, <3>1, <3>2 DEF DriverSteps, v
  <2>3. QED
    BY <1>5, <2>1, <2>2, Zenon DEF SerialBaud, u
<1>6. ASSUME SerialStartTx(c) PROVE Goal
  <2>1. PICK recent \in BOOLEAN : SerialStep(c, "idle", "idle", WriteIER(u, {"RX", "TX"}, recent))
    BY <1>6, Zenon DEF SerialStartTx, u
  <2>2. QED
    <3> DEFINE v == WriteIER(u, {"RX", "TX"}, recent)
    <3>1. IerWritten(u, {"RX", "TX"}, v)
      BY <1>10, <2>1
    <3> HIDE DEF v
    <3>2. v \in UartState /\ Consistent(v) /\ Turns("idle", "idle", u, v)
      BY <1>2, <3>1 DEF IerWritten, Moves, Turns, Sees, Waits, Consistent
    <3>3. QED
      BY <1>3, <2>1, <3>2 DEF DriverSteps, v
<1>7. ASSUME SerialHandle(c) PROVE Goal
  <2>1. CASE IIR(u) = "RX" /\ SerialStep(c, "isr", "rx", ReadIIR(u))
    <3> DEFINE v == ReadIIR(u)
    <3>1. /\ Moves(u, v) /\ v.ier = u.ier /\ v.edges = u.edges /\ v.pin = u.pin
          /\ v.status \subseteq u.status
          /\ IIR(u) # "TX" => v = u
          /\ IIR(u) = "none" => v.status = {}
      BY <1>2, ReadIIRDoes
    <3> HIDE DEF v
    <3>2. v \in UartState /\ Consistent(v) /\ Turns("isr", "rx", u, v)
      BY <2>1, <3>1 DEF Moves, Turns, Sees, Waits
    <3>3. QED
      BY <1>3, <2>1, <3>2 DEF DriverSteps, v
  <2>2. CASE IIR(u) = "TX" /\ SerialStep(c, "isr", "tx", ReadIIR(u))
    <3> DEFINE v == ReadIIR(u)
    <3>1. /\ Moves(u, v) /\ v.ier = u.ier /\ v.edges = u.edges /\ v.pin = u.pin
          /\ v.status \subseteq u.status
          /\ IIR(u) # "TX" => v = u
          /\ IIR(u) = "none" => v.status = {}
      BY <1>2, ReadIIRDoes
    <3> HIDE DEF v
    <3>2. v \in UartState /\ Consistent(v) /\ Turns("isr", "tx", u, v)
      BY <2>2, <3>1 DEF Moves, Turns, Sees, Waits
    <3>3. QED
      BY <1>3, <2>2, <3>2 DEF DriverSteps, v
  <2>3. CASE IIR(u) = "none" /\ SerialStep(c, "isr", "idle", ReadIIR(u))
    <3> DEFINE v == ReadIIR(u)
    <3>1. /\ Moves(u, v) /\ v.ier = u.ier /\ v.edges = u.edges /\ v.pin = u.pin
          /\ v.status \subseteq u.status
          /\ IIR(u) # "TX" => v = u
          /\ IIR(u) = "none" => v.status = {}
      BY <1>2, ReadIIRDoes
    <3> HIDE DEF v
    <3>2. v \in UartState /\ Consistent(v) /\ Turns("isr", "idle", u, v)
      BY <2>3, <3>1 DEF Moves, Turns, Sees, Waits
    <3>3. QED
      BY <1>3, <2>3, <3>2 DEF DriverSteps, v
  <2>4. CASE SerialStep(c, "rx", IF u.data > 1 THEN "rx" ELSE "isr", ReadRBR(u))
    <3> DEFINE to == IF u.data > 1 THEN "rx" ELSE "isr"
    <3>1. to \in {"rx", "isr"}
      OBVIOUS
    <3> HIDE DEF to
    <3>2. SerialStep(c, "rx", to, ReadRBR(u))
      BY <2>4 DEF to
    <3>3. QED
      <4> DEFINE v == ReadRBR(u)
      <4>1. /\ Moves(u, v) /\ v.ier = u.ier /\ v.edges = u.edges
            /\ ~u.dlab => ~v.pin /\ v.status \subseteq u.status
        BY <1>2, ReadRBRDoes
      <4> HIDE DEF v
      <4>2. v \in UartState /\ Consistent(v) /\ Turns("rx", to, u, v)
        BY <3>1, <4>1 DEF Moves, Turns, Sees, Waits
      <4>3. QED
        BY <1>3, <3>1, <3>2, <4>2 DEF DriverSteps, v
  <2>5. CASE SerialStep(c, "tx", "sent", WriteTHR(u))
    <3> DEFINE v == WriteTHR(u)
    <3>1. /\ Moves(u, v) /\ v.ier = u.ier /\ v.edges = u.edges
          /\ ~u.dlab => ~v.pin
      BY <1>2, WriteTHRDoes
    <3> HIDE DEF v
    <3>2. v \in UartState /\ Consistent(v) /\ Turns("tx", "sent", u, v)
      BY <3>1 DEF Moves, Turns, Sees, Waits
    <3>3. QED
      BY <1>3, <2>5, <3>2 DEF DriverSteps, v
  <2>9. CASE SerialStep(c, "tx", "isr", WriteIER(u, {"RX"}, FALSE))
    <3> DEFINE v == WriteIER(u, {"RX"}, FALSE)
    <3>1. IerWritten(u, {"RX"}, v)
      BY <1>10
    <3> HIDE DEF v
    <3>2. v \in UartState /\ Consistent(v) /\ Turns("tx", "isr", u, v)
      BY <3>1 DEF IerWritten, Moves, Turns
    <3>3. QED
      BY <1>3, <2>9, <3>2 DEF DriverSteps, v
  <2>6. CASE SerialStep(c, "sent", "isr", u)
    BY <1>2, <1>3, <2>6 DEF DriverSteps, Turns, Sees, Waits
  <2>7. CASE SerialStep(c, "sent", "isr", WriteIER(u, {"RX"}, FALSE))
    <3> DEFINE v == WriteIER(u, {"RX"}, FALSE)
    <3>1. IerWritten(u, {"RX"}, v)
      BY <1>10
    <3> HIDE DEF v
    <3>2. v \in UartState /\ Consistent(v) /\ Turns("sent", "isr", u, v)
      BY <1>2, <3>1 DEF IerWritten, Moves, Turns, Sees, Waits, Consistent
    <3>3. QED
      BY <1>3, <2>7, <3>2 DEF DriverSteps, v
  <2>8. QED
    BY <1>7, <2>1, <2>2, <2>3, <2>4, <2>5, <2>6, <2>7, <2>9, Zenon DEF SerialHandle, u
<1>8. QED
  BY <1>4, <1>5, <1>6, <1>7 DEF Goal, u

-----------------------------------------------------------------------------
(* The other actions.                                                      *)
LEMMA ChipInitially == Init => ApicInv /\ Ports
<1> SUFFICES ASSUME Init PROVE ApicInv /\ Ports
  OBVIOUS
<1> USE IchConstants, BootConstants, ApicConstants DEF Init, BootInit
<1>1. \A l \in LogicalLines : /\ InitialEntry(l) \in Entry
                              /\ ~InitialEntry(l).logical /\ (InitialEntry(l).mask <=> l # 4)
  BY DEF InitialEntry, Entry
<1>2. NoGuest \in [pc : 0..(4 * Len(ProgramLines)), drv : DriverSteps] /\ NoGuest.drv = "off"
  BY DEF NoGuest, DriverSteps
<1>3. NewUart \in UartState /\ NewUart.ier = {} /\ Consistent(NewUart) /\ NewUart.edges = 0
  BY DEF NewUart, UartState, Consistent
<1>4. ApicTypes
  BY <1>1, <1>2 DEF ApicTypes
<1>5. Entries
  BY <1>1 DEF Entries
<1>6. Guests /\ Home
  BY <1>2 DEF Guests, Home
<1>7. Enabled /\ Ports
  BY <1>3 DEF Enabled, Ports, Components
<1>8. QED
  BY <1>4, <1>5, <1>6, <1>7 DEF ApicInv

\* The PRM's tools do not touch the chip, and a running guest keeps its row.
LEMMA ChipFrame ==
    ASSUME Tables, Tables', TableGrows, ApicInv, Ports, UNCHANGED restOfChip,
           \A c \in CPUs : cpu[c].active => cpu'[c].active
    PROVE  ApicInv' /\ Ports'
<1>1. UNCHANGED <<regSel, redir, uart, irq, guest>>
  BY DEF restOfChip, apicVars
<1>2. ApicTypes' /\ Entries' /\ Home' /\ Ports'
  BY <1>1 DEF ApicInv, ApicTypes, Entries, Home, Ports, Consistent
<1>3. Enabled'
  BY <1>1 DEF ApicInv, Enabled, TableGrows
<1>4. Guests'
  <2> SUFFICES ASSUME NEW c \in CPUs, guest'[c].drv # "off", HasRow(c)' PROVE Programs(c)' /\ Driving(c)'
    BY DEF Guests
  <2>1. cpu[c].active
    BY <1>1 DEF ApicInv, ApicTypes
  <2>2. HasRow(c)
    BY <2>1, RowsStay DEF Tables
  <2>3. Programs(c) /\ Driving(c)
    BY <1>1, <2>2 DEF ApicInv, Guests
  <2>4. QED
    BY <1>1, <2>3 DEF Programs, Driving, NextLine, NextHalf
<1>5. QED
  BY <1>2, <1>3, <1>4 DEF ApicInv

\* The boot command starts the guest of the loader's domain from its entry.
LEMMA BootsGuest ==
    ASSUME Tables, Boot
    PROVE  /\ loader.DSid \in CPUs /\ guest' = [c \in CPUs |-> IF c = loader.DSid THEN Booted ELSE guest[c]]
           /\ cpu'[loader.DSid].active /\ \A c \in CPUs : c # loader.DSid => cpu'[c] = cpu[c]
           /\ UNCHANGED <<toolVars, apicVars, uart, irq>>
<1>1. LET d == loader.DSid IN d \in CPUs /\ RowsOf(d) # {} /\ sysTable[RowOf(d)].cpuMask = {d} /\ cpu' = UpdateTags(d, d)
  BY BootStarts DEF Tables, Boot
<1>2. cpu'[loader.DSid].active /\ \A c \in CPUs : c # loader.DSid => cpu'[c] = cpu[c]
  BY <1>1 DEF UpdateTags, Tables, BootInv, BootTypes
<1>3. guest' = [c \in CPUs |-> IF c = loader.DSid THEN Booted ELSE guest[c]]
  BY <1>1 DEF Boot
<1>4. QED
  BY <1>1, <1>2, <1>3 DEF Boot

LEMMA BootKeepsChip ==
    ASSUME Tables, Tables', ApicInv, Ports, Boot
    PROVE  ApicInv' /\ Ports'
<1>1. /\ loader.DSid \in CPUs /\ guest' = [c \in CPUs |-> IF c = loader.DSid THEN Booted ELSE guest[c]]
      /\ cpu'[loader.DSid].active /\ \A c \in CPUs : c # loader.DSid => cpu'[c] = cpu[c]
      /\ UNCHANGED <<ichTable, regSel, redir, uart, irq>>
  BY BootsGuest DEF toolVars, apicVars
<1>2. Booted \in [pc : 0..(4 * Len(ProgramLines)), drv : DriverSteps] /\ Booted.pc = 0 /\ Booted.drv = "boot"
  BY ApicConstants DEF Booted, DriverSteps
<1>3. ApicTypes' /\ Home'
  BY <1>1, <1>2 DEF ApicInv, ApicTypes, Home
<1>4. Entries' /\ Enabled' /\ Ports'
  BY <1>1 DEF ApicInv, Entries, Enabled, Ports, Consistent
<1>5. Guests'
  <2> SUFFICES ASSUME NEW c \in CPUs, guest'[c].drv # "off", HasRow(c)' PROVE Programs(c)' /\ Driving(c)'
    BY DEF Guests
  <2>1. CASE c = loader.DSid
    <3>1. guest'[c].pc = 0 /\ guest'[c].drv = "boot"
      BY <1>1, <1>2, <2>1
    <3>2. QED
      BY <3>1, ApicConstants DEF Programs, Driving
  <2>2. CASE c # loader.DSid
    <3>1. guest'[c] = guest[c] /\ HasRow(c)
      BY <1>1, <2>2 DEF HasRow
    <3>2. Programs(c) /\ Driving(c)
      BY <3>1 DEF ApicInv, Guests
    <3>3. QED
      BY <1>1, <3>1, <3>2 DEF Programs, Driving, NextLine, NextHalf
  <2>3. QED
    BY <2>1, <2>2
<1>6. QED
  BY <1>3, <1>4, <1>5 DEF ApicInv

LEMMA DeviceInterruptKeeps ==
    ASSUME Tables, ApicInv, Ports, NEW line \in Ticking, DeviceInterrupt(line)
    PROVE  ApicInv' /\ Ports' /\ \A c \in CPUs : irq[c] \subseteq irq'[c]
<1>1. UNCHANGED <<cpu, ichTable, regSel, redir, uart, guest>> /\ SignalInterrupt(line)
  BY DEF DeviceInterrupt, bootVars, toolVars, apicVars
<1>2. line \in Lines /\ line \notin 4..7
  BY ApicConstants
<1>3. /\ irq' \in [CPUs -> SUBSET (LDomIds \X LogicalLines)]
      /\ \A c \in CPUs : irq[c] \subseteq irq'[c]
      /\ \A c \in CPUs : \A t \in irq'[c] : t[1] = c /\ cpu[c].active
  BY <1>1, <1>2, SignalHome
<1>4. ApicTypes' /\ Home'
  BY <1>1, <1>3 DEF ApicInv, ApicTypes, Home
<1>5. Entries' /\ Enabled' /\ Guests' /\ Ports'
  BY <1>1 DEF ApicInv, Entries, Enabled, Guests, HasRow, Programs, Driving, NextLine, NextHalf, Ports, Consistent
<1>6. QED
  BY <1>3, <1>4, <1>5 DEF ApicInv

LEMMA UartEventSteps ==
    ASSUME ApicInv, Ports, NEW i \in 0..3, UartEvent(i)
    PROVE  /\ UNCHANGED guest
           /\ \E v : /\ PortStep(i, v) /\ v.dlab = uart[i].dlab /\ v.ier = uart[i].ier
                     /\ \/ v.status = uart[i].status /\ v.pin = uart[i].pin
                        \/ uart[i].ier # {} /\ v.status # {} /\ (v.edges > 0 \/ uart[i].pin)
<1> DEFINE u == uart[i]
           Goal == \E v : /\ PortStep(i, v) /\ v.dlab = u.dlab /\ v.ier = u.ier
                          /\ \/ v.status = u.status /\ v.pin = u.pin
                             \/ u.ier # {} /\ v.status # {} /\ (v.edges > 0 \/ u.pin)
<1>1. u \in UartState /\ Consistent(u) /\ u.edges = 0
  BY IchConstants DEF Ports
<1>2. u.ier # {} => Routed(i)
  BY IchConstants DEF ApicInv, Enabled, Routed, RowIs
<1>3. UNCHANGED <<bootVars, toolVars, apicVars, guest>>
  BY DEF UartEvent
<1> HIDE DEF u
<1>4. ASSUME NEW bit \in u.events, UartBecomes(i, Fire(u, bit)) PROVE Goal
  <2> DEFINE v == Fire(u, bit)
  <2>1. Moves(u, v) /\ v.ier = u.ier /\ u.ier # {} /\ v.status # {} /\ (v.edges > 0 \/ u.pin)
    BY <1>1, FireDoes
  <2> HIDE DEF v
  <2>2. PortStep(i, v) /\ v.dlab = u.dlab
    BY <1>2, <1>3, <1>4, <2>1 DEF PortStep, Moves, v
  <2>3. QED
    BY <2>1, <2>2
<1>5. ASSUME UartBecomes(i, DataAvailable(u)) PROVE Goal
  <2> DEFINE v == DataAvailable(u)
  <2>1. /\ Moves(u, v) /\ v.ier = u.ier
        /\ "RX" \in u.ier => v.status # {} /\ (v.edges > 0 \/ u.pin)
        /\ "RX" \notin u.ier => v.status = u.status /\ v.pin = u.pin /\ v.edges = u.edges
    BY <1>1, DataAvailableDoes
  <2> HIDE DEF v
  <2>2. PortStep(i, v) /\ v.dlab = u.dlab
    BY <1>1, <1>2, <1>3, <1>5, <2>1 DEF PortStep, Moves, v
  <2>3. QED
    BY <2>1, <2>2
<1> HIDE DEF Goal
<1>6. Goal
  BY <1>4, <1>5, Zenon DEF UartEvent, u
<1>7. QED
  BY <1>3, <1>6 DEF Goal, u

LEMMA UartEventKeeps ==
    ASSUME Tables, ApicInv, Ports, NEW i \in 0..3, UartEvent(i)
    PROVE  ApicInv' /\ Ports'
<1>1. UNCHANGED guest /\ \E v : PortStep(i, v)
  BY UartEventSteps
<1>2. /\ UNCHANGED <<cpu, ichTable, regSel, redir, guest>>
      /\ Ports' /\ Enabled' /\ Home' /\ irq' \in [CPUs -> SUBSET (LDomIds \X LogicalLines)]
  BY <1>1, PortSteps DEF PortStep, bootVars, toolVars, apicVars
<1>3. ApicTypes' /\ Entries' /\ Guests'
  BY <1>2 DEF ApicInv, ApicTypes, Entries, Guests, HasRow, Programs, Driving, NextLine, NextHalf
<1>4. QED
  BY <1>2, <1>3 DEF ApicInv

\* An interrupt is taken; only that of the serial line is the driver's.
LEMMA TakeInterruptDoes ==
    ASSUME Tables, ApicInv, NEW c \in CPUs, TakeInterrupt(c)
    PROVE  /\ UNCHANGED <<bootVars, toolVars, apicVars, uart>>
           /\ \E t \in irq[c] : irq' = [irq EXCEPT ![c] = irq[c] \ {t}]
           /\ \/ guest[c].drv = "idle" /\ guest' = [guest EXCEPT ![c].drv = "isr"]
              \/ UNCHANGED guest /\ (HasPort(c) => (<<c, 4>> \in irq[c] => <<c, 4>> \in irq'[c]))
<1>1. PICK t \in irq[c] : /\ irq' = [irq EXCEPT ![c] = irq[c] \ {t}]
                          /\ IF t[2] = 4 /\ HasPort(c) THEN /\ guest[c].drv = "idle"
                                                            /\ guest' = [guest EXCEPT ![c].drv = "isr"]
                             ELSE UNCHANGED guest
                          /\ UNCHANGED <<bootVars, toolVars, apicVars, uart>>
  BY DEF TakeInterrupt
<1>2. irq'[c] = irq[c] \ {t}
  BY <1>1 DEF ApicInv, ApicTypes
<1>3. t[2] # 4 => t # <<c, 4>>
  OBVIOUS
<1>4. QED
  BY <1>1, <1>2, <1>3

LEMMA TakeInterruptKeeps ==
    ASSUME Tables, ApicInv, Ports, NEW c \in CPUs, TakeInterrupt(c)
    PROVE  ApicInv' /\ Ports'
<1>1. /\ UNCHANGED <<ichTable, regSel, redir, cpu, uart>>
      /\ \E t \in irq[c] : irq' = [irq EXCEPT ![c] = irq[c] \ {t}]
      /\ \/ guest[c].drv = "idle" /\ guest' = [guest EXCEPT ![c].drv = "isr"]
         \/ UNCHANGED guest
  BY TakeInterruptDoes DEF bootVars, toolVars, apicVars
<1>2. /\ irq \in [CPUs -> SUBSET (LDomIds \X LogicalLines)]
      /\ guest \in [CPUs -> [pc : 0..(4 * Len(ProgramLines)), drv : DriverSteps]]
  BY DEF ApicInv, ApicTypes
<1>3. irq' \in [CPUs -> SUBSET (LDomIds \X LogicalLines)] /\ \A b \in CPUs : irq'[b] \subseteq irq[b]
  BY <1>1, <1>2
<1>4. /\ guest' \in [CPUs -> [pc : 0..(4 * Len(ProgramLines)), drv : DriverSteps]]
      /\ \A b \in CPUs : /\ guest'[b].pc = guest[b].pc /\ (guest'[b].drv = "off" <=> guest[b].drv = "off")
                         /\ guest'[b].drv \in {"off", "boot"} <=> guest[b].drv \in {"off", "boot"}
  <2>1. CASE guest[c].drv = "idle" /\ guest' = [guest EXCEPT ![c].drv = "isr"]
    BY <1>2, <2>1 DEF DriverSteps
  <2>2. CASE UNCHANGED guest
    BY <1>2, <2>2
  <2>3. QED
    BY <1>1, <2>1, <2>2
<1>5. ApicTypes' /\ Home'
  BY <1>1, <1>3, <1>4 DEF ApicInv, ApicTypes, Home
<1>6. Entries' /\ Enabled' /\ Ports'
  BY <1>1 DEF ApicInv, Entries, Enabled, Ports, Consistent
<1>7. Guests'
  BY <1>1, <1>4 DEF ApicInv, Guests, HasRow, Programs, Driving, NextLine, NextHalf
<1>8. QED
  BY <1>5, <1>6, <1>7 DEF ApicInv

\* So does a stray message: the driver finds out what its port has.
LEMMA TakeStrayDoes ==
    ASSUME Tables, ApicInv, NEW c \in CPUs, TakeStray(c)
    PROVE  /\ UNCHANGED <<bootVars, toolVars, apicVars, uart, irq>>
           /\ \/ guest[c].drv = "idle" /\ guest' = [guest EXCEPT ![c].drv = "isr"]
              \/ UNCHANGED guest
BY DEF TakeStray

LEMMA TakeStrayKeeps ==
    ASSUME Tables, ApicInv, Ports, NEW c \in CPUs, TakeStray(c)
    PROVE  ApicInv' /\ Ports'
<1>1. /\ UNCHANGED <<ichTable, regSel, redir, cpu, uart, irq>>
      /\ \/ guest[c].drv = "idle" /\ guest' = [guest EXCEPT ![c].drv = "isr"]
         \/ UNCHANGED guest
  BY TakeStrayDoes DEF bootVars, toolVars, apicVars
<1>2. guest \in [CPUs -> [pc : 0..(4 * Len(ProgramLines)), drv : DriverSteps]]
  BY DEF ApicInv, ApicTypes
<1>3. /\ guest' \in [CPUs -> [pc : 0..(4 * Len(ProgramLines)), drv : DriverSteps]]
      /\ \A b \in CPUs : /\ guest'[b].pc = guest[b].pc /\ (guest'[b].drv = "off" <=> guest[b].drv = "off")
                         /\ guest'[b].drv \in {"off", "boot"} <=> guest[b].drv \in {"off", "boot"}
  <2>1. CASE guest[c].drv = "idle" /\ guest' = [guest EXCEPT ![c].drv = "isr"]
    BY <1>2, <2>1 DEF DriverSteps
  <2>2. CASE UNCHANGED guest
    BY <1>2, <2>2
  <2>3. QED
    BY <1>1, <2>1, <2>2
<1>4. ApicTypes' /\ Home'
  BY <1>1, <1>3 DEF ApicInv, ApicTypes, Home
<1>5. Entries' /\ Enabled' /\ Ports'
  BY <1>1 DEF ApicInv, Entries, Enabled, Ports, Consistent
<1>6. Guests'
  BY <1>1, <1>3 DEF ApicInv, Guests, HasRow, Programs, Driving, NextLine, NextHalf
<1>7. QED
  BY <1>4, <1>5, <1>6 DEF ApicInv

\* The four writes of an entry: select and write the top half, then the bottom.
LEMMA FourWrites ==
    ASSUME NEW n \in Nat
    PROVE  /\ n % 2 \in {0, 1} /\ n % 4 \in 0..3 /\ n \div 4 \in Nat
           /\ n % 2 = 0 => /\ (n + 1) \div 4 = n \div 4 /\ ((n + 1) \div 2) % 2 = (n \div 2) % 2
                           /\ ((n + 1) % 4 \in {2, 3} => n % 4 = 2)
                           /\ \A k \in Nat : 4 * k <= n + 1 => 4 * k <= n
           /\ n % 2 = 1 => /\ (n + 1) % 2 = 0
                           /\ (n \div 2) % 2 = 0 => /\ (n + 1) \div 4 = n \div 4
                                                    /\ \A k \in Nat : 4 * k <= n + 1 => 4 * k <= n
                           /\ (n \div 2) % 2 # 0 => /\ n % 4 = 3 /\ (n + 1) % 4 = 0
                                                    /\ \A k \in Nat : 4 * k <= n + 1 => 4 * k <= n \/ k = (n \div 4) + 1
<1> DEFINE a == n \div 4
           b == n % 4
<1>1. n = 4 * a + b /\ a \in Nat /\ b \in 0..3
  OBVIOUS
<1> HIDE DEF a, b
<1>2. n % 2 = b % 2 /\ n \div 2 = 2 * a + (b \div 2)
  BY <1>1
<1>3. QED
  BY <1>1, <1>2 DEF a, b

\* One of the four writes, by a guest that has a row.
LEMMA WriteKeepsPrograms ==
    ASSUME ApicInv, NEW c \in CPUs, Programs(c),
           guest[c].pc < 4 * Len(ProgramLines), guest'[c].pc = guest[c].pc + 1,
           \/ /\ guest[c].pc % 2 = 0
              /\ regSel' = [regSel EXCEPT ![c] = <<NextLine(c), NextHalf(c)>>] /\ redir' = redir
           \/ /\ guest[c].pc % 2 = 1
              /\ redir' = [redir EXCEPT ![c][NextLine(c)] = WriteReg(redir[c][NextLine(c)], NextHalf(c))]
              /\ regSel' = regSel
    PROVE  /\ Programs(c)' /\ Entries'
           /\ regSel' \in [LDomIds -> (LogicalLines \cup {NoLine}) \X {"top", "bottom"}]
           /\ redir' \in [LDomIds -> [LogicalLines -> Entry]]
           /\ \A d \in LDomIds, l \in LogicalLines : redir[d][l] = Programmed => redir'[d][l] = Programmed
           /\ \A d \in LDomIds : d # c => redir'[d] = redir[d] /\ regSel'[d] = regSel[d]
<1> DEFINE n == guest[c].pc
           line == NextLine(c)
           half == NextHalf(c)
<1>1. n \in Nat /\ n < 4 * Len(ProgramLines) /\ guest'[c].pc = n + 1 /\ c \in LDomIds
  BY BootConstants, ApicConstants DEF ApicInv, ApicTypes
<1>2. (n \div 4) + 1 \in DOMAIN ProgramLines /\ line \in LogicalLines
  <2>1. (n \div 4) + 1 \in 1..Len(ProgramLines)
    BY <1>1, ApicConstants
  <2>2. QED
    BY <2>1, ApicConstants DEF NextLine
<1>3. half \in {"top", "bottom"} /\ (half = "top" <=> (n \div 2) % 2 = 0)
  BY DEF NextHalf
<1>4. /\ regSel \in [LDomIds -> (LogicalLines \cup {NoLine}) \X {"top", "bottom"}]
      /\ redir \in [LDomIds -> [LogicalLines -> Entry]]
  BY DEF ApicInv, ApicTypes
<1>5. /\ \A k \in DOMAIN ProgramLines : 4 * k <= n => redir[c][ProgramLines[k]] = Programmed
      /\ n % 4 \in {2, 3} => redir[c][line].dest = 1
  BY DEF Programs
<1>6. DOMAIN ProgramLines \subseteq Nat /\ \A k \in DOMAIN ProgramLines : ProgramLines[k] \in LogicalLines
  BY ApicConstants
<1>7. /\ NextLine(c)' = ProgramLines[((n + 1) \div 4) + 1]
      /\ NextHalf(c)' = IF ((n + 1) \div 2) % 2 = 0 THEN "top" ELSE "bottom"
      /\ line = ProgramLines[(n \div 4) + 1] /\ half = IF (n \div 2) % 2 = 0 THEN "top" ELSE "bottom"
  BY <1>1 DEF NextLine, NextHalf
<1>8. Programs(c)' <=>
        /\ \A k \in DOMAIN ProgramLines : 4 * k <= n + 1 => redir'[c][ProgramLines[k]] = Programmed
        /\ (n + 1) % 2 = 1 => regSel'[c] = <<NextLine(c)', NextHalf(c)'>>
        /\ (n + 1) % 4 \in {2, 3} => redir'[c][NextLine(c)'].dest = 1
  BY <1>1 DEF Programs
<1> HIDE DEF n, line, half
<1>9. CASE n % 2 = 0
  <2>1. regSel' = [regSel EXCEPT ![c] = <<line, half>>] /\ redir' = redir
    BY <1>9 DEF n, line, half
  <2>2. /\ NextLine(c)' = line /\ NextHalf(c)' = half
        /\ (n + 1) % 4 \in {2, 3} => n % 4 = 2
        /\ \A k \in Nat : 4 * k <= n + 1 => 4 * k <= n
    BY <1>1, <1>7, <1>9, FourWrites
  <2>3. regSel'[c] = <<line, half>> /\ \A d \in LDomIds : d # c => regSel'[d] = regSel[d]
    BY <1>1, <1>4, <2>1
  <2>4. Programs(c)'
    BY <1>5, <1>6, <1>8, <2>1, <2>2, <2>3
  <2>5. regSel' \in [LDomIds -> (LogicalLines \cup {NoLine}) \X {"top", "bottom"}]
    BY <1>1, <1>2, <1>3, <1>4, <2>1
  <2>6. Entries'
    BY <2>1 DEF ApicInv, Entries
  <2>7. QED
    BY <1>4, <2>1, <2>3, <2>4, <2>5, <2>6
<1>10. CASE n % 2 = 1
  <2> DEFINE new == WriteReg(redir[c][line], half)
  <2>1. redir' = [redir EXCEPT ![c][line] = new] /\ regSel' = regSel
    BY <1>10 DEF n, line, half
  <2>2. redir[c][line] \in Entry
    BY <1>1, <1>2, <1>4
  <2>3. redir[c][line] = Programmed \/ (~redir[c][line].logical /\ (redir[c][line].mask <=> line # 4))
    BY <1>1, <1>2 DEF ApicInv, Entries
  <2>4. half = "bottom" => redir[c][line].dest = 1
    <3>1. (n \div 2) % 2 # 0 => n % 4 = 3
      BY <1>1, <1>10, FourWrites
    <3>2. QED
      BY <1>3, <1>5, <3>1
  <2>5. /\ new \in Entry /\ new.dest = 1
        /\ redir[c][line] = Programmed \/ half = "bottom" => new = Programmed
        /\ new = Programmed \/ (~new.logical /\ (new.mask <=> line # 4))
    <3>1. CASE half = "top"
      <4>1. new = [redir[c][line] EXCEPT !.dest = 1]
        BY <3>1 DEF WriteReg
      <4>2. QED
        BY <2>2, <2>3, <3>1, <4>1 DEF Entry, Programmed
    <3>2. CASE half = "bottom"
      <4>1. new = [redir[c][line] EXCEPT !.mask = FALSE, !.logical = TRUE]
        BY <3>2 DEF WriteReg
      <4>2. QED
        BY <2>2, <2>4, <3>2, <4>1 DEF Entry, Programmed
    <3>3. QED
      BY <1>3, <3>1, <3>2
  <2> HIDE DEF new
  <2>6. /\ redir' \in [LDomIds -> [LogicalLines -> Entry]] /\ redir'[c][line] = new
        /\ \A l \in LogicalLines : l # line => redir'[c][l] = redir[c][l]
        /\ \A d \in LDomIds : d # c => redir'[d] = redir[d]
    BY <1>1, <1>2, <1>4, <2>1, <2>5
  <2>7. \A d \in LDomIds, l \in LogicalLines : redir[d][l] = Programmed => redir'[d][l] = Programmed
    BY <1>1, <2>5, <2>6
  <2>8. Entries'
    <3> SUFFICES ASSUME NEW d \in LDomIds, NEW l \in LogicalLines
                 PROVE  redir'[d][l] = Programmed \/ (~redir'[d][l].logical /\ (redir'[d][l].mask <=> l # 4))
      BY DEF Entries
    <3>1. CASE d = c /\ l = line
      BY <2>5, <2>6, <3>1
    <3>2. CASE d # c \/ l # line
      <4>1. redir'[d][l] = redir[d][l]
        BY <1>1, <2>6, <3>2
      <4>2. QED
        BY <4>1 DEF ApicInv, Entries
    <3>3. QED
      BY <3>1, <3>2
  <2>9. Programs(c)'
    <3>1. (n + 1) % 2 = 0
      BY <1>1, <1>10, FourWrites
    <3>2. CASE half = "top"
      <4>1. NextLine(c)' = line /\ \A k \in Nat : 4 * k <= n + 1 => 4 * k <= n
        BY <1>1, <1>3, <1>7, <1>10, <3>2, FourWrites
      <4>2. \A k \in DOMAIN ProgramLines : 4 * k <= n + 1 => redir'[c][ProgramLines[k]] = Programmed
        BY <1>1, <1>5, <1>6, <2>7, <4>1
      <4>3. QED
        BY <1>8, <2>5, <2>6, <3>1, <4>1, <4>2
    <3>3. CASE half = "bottom"
      <4>1. /\ (n + 1) % 4 = 0 /\ \A k \in Nat : 4 * k <= n + 1 => 4 * k <= n \/ k = (n \div 4) + 1
        BY <1>1, <1>3, <1>10, <3>3, FourWrites
      <4>2. redir'[c][line] = Programmed
        BY <2>5, <2>6, <3>3
      <4>3. \A k \in DOMAIN ProgramLines : 4 * k <= n + 1 => redir'[c][ProgramLines[k]] = Programmed
        BY <1>1, <1>5, <1>6, <1>7, <2>7, <4>1, <4>2
      <4>4. QED
        BY <1>8, <3>1, <4>1, <4>3
    <3>4. QED
      BY <1>3, <3>2, <3>3
  <2>10. QED
    BY <1>4, <2>1, <2>6, <2>7, <2>8, <2>9
<1>11. QED
  BY <1>9, <1>10 DEF n

LEMMA ApicWriteKeeps ==
    ASSUME Tables, ApicInv, Ports, NEW c \in CPUs, ApicWrite(c)
    PROVE  ApicInv' /\ Ports'
<1> DEFINE n == guest[c].pc
<1>1. /\ guest[c].drv = "boot" /\ n < 4 * Len(ProgramLines) /\ guest' = [guest EXCEPT ![c].pc = n + 1]
      /\ UNCHANGED <<cpu, ichTable, uart, irq>>
  BY DEF ApicWrite, bootVars, toolVars
<1>2. guest \in [CPUs -> [pc : 0..(4 * Len(ProgramLines)), drv : DriverSteps]] /\ cpu[c].active
  BY <1>1 DEF ApicInv, ApicTypes
<1>3. c \in LDomIds /\ GuestDSid(c) = c /\ SelIndex(c) = c /\ (RemapAddr(c, "APIC") # Nowhere <=> HasRow(c))
  BY <1>2, PortIs, BootConstants DEF SelIndex
<1>4. /\ guest' \in [CPUs -> [pc : 0..(4 * Len(ProgramLines)), drv : DriverSteps]]
      /\ guest'[c].pc = n + 1 /\ \A b \in CPUs : guest'[b].drv = guest[b].drv
      /\ \A b \in CPUs : b # c => guest'[b] = guest[b]
  <2>1. n + 1 \in 0..(4 * Len(ProgramLines))
    BY <1>1, <1>2, ApicConstants
  <2>2. QED
    BY <1>1, <1>2, <2>1
<1>5. /\ regSel' \in [LDomIds -> (LogicalLines \cup {NoLine}) \X {"top", "bottom"}]
      /\ redir' \in [LDomIds -> [LogicalLines -> Entry]] /\ Entries'
      /\ \A d \in LDomIds, l \in LogicalLines : redir[d][l] = Programmed => redir'[d][l] = Programmed
      /\ \A d \in LDomIds : d # c => redir'[d] = redir[d] /\ regSel'[d] = regSel[d]
      /\ HasRow(c) => Programs(c)'
  <2>1. CASE ~HasRow(c)
    <3>1. UNCHANGED <<regSel, redir>>
      BY <1>3, <2>1 DEF ApicWrite, apicVars
    <3>2. QED
      BY <2>1, <3>1 DEF ApicInv, ApicTypes, Entries
  <2>2. CASE HasRow(c)
    <3>1. Programs(c)
      BY <1>1, <2>2 DEF ApicInv, Guests
    <3>2. CASE n % 2 = 0
      <4>1. regSel' = [regSel EXCEPT ![c] = <<NextLine(c), NextHalf(c)>>] /\ redir' = redir
        BY <1>3, <2>2, <3>2 DEF ApicWrite, NextLine, NextHalf
      <4>2. QED
        BY <1>1, <1>4, <3>1, <3>2, <4>1, WriteKeepsPrograms
    <3>3. CASE n % 2 # 0
      <4>1. n % 2 = 1
        BY <1>2, <3>3, FourWrites
      <4>2. regSel[c] = <<NextLine(c), NextHalf(c)>>
        BY <3>1, <4>1 DEF Programs
      <4>3. /\ redir' = [redir EXCEPT ![c][regSel[c][1]] = WriteReg(redir[c][regSel[c][1]], regSel[c][2])]
            /\ regSel' = regSel
        BY <1>3, <2>2, <3>3 DEF ApicWrite
      <4>4. redir' = [redir EXCEPT ![c][NextLine(c)] = WriteReg(redir[c][NextLine(c)], NextHalf(c))]
        BY <4>2, <4>3
      <4>5. QED
        BY <1>1, <1>4, <3>1, <4>1, <4>3, <4>4, WriteKeepsPrograms
    <3>4. QED
      BY <3>2, <3>3
  <2>3. QED
    BY <2>1, <2>2
<1>6. ApicTypes' /\ Home' /\ Ports'
  BY <1>1, <1>4, <1>5 DEF ApicInv, ApicTypes, Home, Ports, Consistent
<1>7. Enabled'
  <2>1. \A i \in 0..(Components - 1) : uart[i].ier # {} => ichTable[i].DSid \in LDomIds
    BY IchConstants DEF ApicInv, Enabled, Tables, IchInv, Rows, WholeRow
  <2>2. QED
    BY <1>1, <1>5, <2>1, ApicConstants DEF ApicInv, Enabled
<1>8. Guests'
  <2> SUFFICES ASSUME NEW b \in CPUs, guest'[b].drv # "off", HasRow(b)' PROVE Programs(b)' /\ Driving(b)'
    BY DEF Guests
  <2>1. HasRow(b) /\ Programs(b) /\ Driving(b) /\ b \in LDomIds
    BY <1>1, <1>4, BootConstants DEF ApicInv, Guests, HasRow
  <2>2. Driving(b)'
    BY <1>4, <1>5, <2>1, ApicConstants DEF Driving
  <2>3. Programs(b)'
    <3>1. CASE b = c
      BY <1>5, <2>1, <3>1
    <3>2. CASE b # c
      BY <1>4, <1>5, <2>1, <3>2 DEF Programs, NextLine, NextHalf
    <3>3. QED
      BY <3>1, <3>2
  <2>4. QED
    BY <2>2, <2>3
<1>9. QED
  BY <1>5, <1>6, <1>7, <1>8 DEF ApicInv

\* The steps that leave the chip alone.
PrmStep == ToolStep \/ Biosloader \/ Load

LEMMA PrmLeavesChip == Tables /\ PrmStep => UNCHANGED restOfChip /\ UNCHANGED cpu
BY Zenon DEF PrmStep, ToolStep, Kickstart, IchAssign, IchAssignWord, IchIrqmapRead, IchIrqmapWrite, Biosloader,
    LoaderStart, Load, LoaderMemory, LoaderSegment, LoaderMask, LoaderValid, bootVars

LEMMA ChipKept ==
    ASSUME Tables, Tables', ApicInv, Ports, [Next]_vars
    PROVE  ApicInv' /\ Ports'
<1>1. CASE PrmStep
  <2>1. TableGrows
    BY TableStep DEF Tables
  <2>2. QED
    BY <1>1, <2>1, PrmLeavesChip, ChipFrame
<1>2. CASE Boot
  BY <1>2, BootKeepsChip
<1>3. ASSUME NEW c \in CPUs, ApicWrite(c) PROVE ApicInv' /\ Ports'
  BY <1>3, ApicWriteKeeps
<1>4. ASSUME NEW c \in CPUs, SerialOpen(c) \/ SerialBaud(c) \/ SerialStartTx(c) \/ SerialHandle(c)
      PROVE  ApicInv' /\ Ports'
  BY <1>4, SerialSteps, DriverStepKeeps
<1>5. ASSUME NEW c \in CPUs, TakeInterrupt(c) \/ TakeStray(c) PROVE ApicInv' /\ Ports'
  BY <1>5, TakeInterruptKeeps, TakeStrayKeeps
<1>6. ASSUME NEW line \in Ticking, DeviceInterrupt(line) PROVE ApicInv' /\ Ports'
  BY <1>6, DeviceInterruptKeeps
<1>7. ASSUME NEW i \in 0..(Components - 1), UartEvent(i) PROVE ApicInv' /\ Ports'
  BY <1>7, UartEventKeeps, IchConstants
<1>8. CASE UNCHANGED vars
  <2>1. TableGrows
    BY TableStep DEF Tables
  <2>2. UNCHANGED restOfChip /\ UNCHANGED cpu
    BY <1>8 DEF vars, restOfChip, bootVars
  <2>3. QED
    BY <2>1, <2>2, ChipFrame
<1>9. QED
  BY <1>1, <1>2, <1>3, <1>4, <1>5, <1>6, <1>7, <1>8, Zenon DEF Next, PrmStep, ToolStep

LEMMA Invariant == Spec => []IInv
<1>1. Init => IInv
  BY BootInitially, IchInitially, ChipInitially DEF IInv
<1>2. IInv /\ [Next]_vars => IInv'
  <2> SUFFICES ASSUME IInv, [Next]_vars PROVE IInv'
    OBVIOUS
  <2>1. BootInv' /\ IchInv'
    BY TablesKept DEF IInv
  <2>2. Tables /\ Tables' /\ ApicInv /\ Ports
    BY <2>1 DEF Tables, IInv
  <2>3. QED
    BY <2>1, <2>2, ChipKept DEF IInv
<1>3. QED
  BY <1>1, <1>2, PTL DEF Spec

(* However guests interleave their register selections and data writes,    *)
(* and whatever is rebooted: an entry that a guest has finished says what  *)
(* the guest wrote, since the select register is its domain's own.         *)
THEOREM EntriesHold == Spec => []EntriesAsProgrammed
<1>1. IInv => EntriesAsProgrammed
  <2> SUFFICES ASSUME IInv, NEW c \in CPUs, guest[c].drv # "off", RemapAddr(GuestDSid(c), "APIC") # Nowhere,
                      NEW k \in DOMAIN ProgramLines, 4 * k <= guest[c].pc
               PROVE  redir[GuestDSid(c)][ProgramLines[k]] = [mask |-> FALSE, logical |-> TRUE, dest |-> 1]
    BY DEF EntriesAsProgrammed
  <2>1. cpu[c].active /\ Tables
    BY DEF IInv, ApicInv, ApicTypes, Tables
  <2>2. GuestDSid(c) = c /\ HasRow(c)
    BY <2>1, PortIs
  <2>3. QED
    BY <2>2 DEF IInv, ApicInv, Guests, Programs, Programmed
<1>2. QED
  BY <1>1, Invariant, PTL

(* Although all guests give their CPU the same logical id, and rows are    *)
(* filled in while timers tick: the IO APIC sends an interrupt that was    *)
(* remapped for a domain to no CPU but that domain's.                      *)
THEOREM InterruptsHome == Spec => []InterruptsStayHome
<1>1. IInv => InterruptsStayHome
  BY DEF IInv, ApicInv, Home, BootInv, Running, InterruptsStayHome
<1>2. QED
  BY <1>1, Invariant, PTL

-----------------------------------------------------------------------------
(* The fourth layer: what the drivers rely on is preserved, as long as a   *)
(* transmit interrupt is answered with a character.  Reading IIR clears a  *)
(* transmit interrupt but leaves the pin up; writing THR lowers it, and a  *)
(* driver that writes IER instead (its port is declined from then on) goes *)
(* idle with the pin up, to which no edge follows.                         *)
Watched(c, r) == guest[c].drv # "off" /\ c \in SerialUsers /\ RowIs(c, r) /\ r \notin declined
Fine(c, r) == Sees(guest[c].drv, uart[r]) /\ (Waits(guest[c].drv, uart[r]) => <<c, 4>> \in irq[c])

LEMMA DriversAre == Drivers <=> \A c \in CPUs : \A r \in 0..3 : Watched(c, r) => Fine(c, r)
BY IchConstants DEF Drivers, Watched, Fine

\* Setting the counter of edges back changes nothing that a driver sees.
LEMMA EdgesUnseen ==
    ASSUME NEW v \in UartState, NEW drv
    PROVE  /\ Sees(drv, [v EXCEPT !.edges = 0]) <=> Sees(drv, v)
           /\ Waits(drv, [v EXCEPT !.edges = 0]) <=> Waits(drv, v)
BY DEF UartState, Sees, Waits

\* Two domains have no port in common.
LEMMA OwnPort ==
    ASSUME NEW a, NEW b, NEW r, RowIs(a, r), RowIs(b, r)
    PROVE  a = b
BY DEF RowIs

LEMMA DriversStart == Init => Drivers
BY DEF Init, NoGuest, Drivers

\* Nothing the driver sees changed, and no interrupt was taken from it.
LEMMA StillFine ==
    ASSUME NEW c \in CPUs, NEW r, Fine(c, r), guest'[c] = guest[c], uart'[r] = uart[r],
           <<c, 4>> \in irq[c] => <<c, 4>> \in irq'[c]
    PROVE  Fine(c, r)'
BY DEF Fine, Sees, Waits

LEMMA DeclinedGrows == Tables /\ [Next]_vars => declined \subseteq declined'
<1> SUFFICES ASSUME Tables, [Next]_vars PROVE declined \subseteq declined'
  OBVIOUS
<1>1. CASE PrmStep
  BY <1>1, PrmLeavesChip DEF restOfChip
<1>2. CASE Boot
  BY <1>2, Zenon DEF Boot
<1>3. CASE GuestStep
  BY <1>3, Zenon DEF GuestStep, ApicWrite, SerialOpen, SerialBaud, SerialStartTx, SerialHandle, SerialStep,
     TakeInterrupt, TakeStray, DeviceInterrupt, UartEvent
<1>4. CASE UNCHANGED vars
  BY <1>4 DEF vars
<1>5. QED
  BY <1>1, <1>2, <1>3, <1>4, Zenon DEF Next, PrmStep, ToolStep, GuestStep

LEMMA DriversFrame ==
    ASSUME Tables, Tables', TableGrows, ApicInv, Drivers, UNCHANGED restOfChip
    PROVE  Drivers'
<1>1. UNCHANGED <<uart, irq, guest, declined>>
  BY DEF restOfChip
<1>2. ASSUME NEW c \in CPUs, NEW r \in 0..3, Watched(c, r)' PROVE Fine(c, r)'
  <2>1. cpu[c].active
    BY <1>1, <1>2 DEF Watched, ApicInv, ApicTypes
  <2>2. Watched(c, r)
    BY <1>1, <1>2, <2>1, RowsStay DEF Watched, Tables
  <2>3. QED
    BY <1>1, <2>2, DriversAre, StillFine
<1>3. QED
  BY <1>2, DriversAre, IchConstants DEF Drivers, Watched, Fine

LEMMA BootKeepsDrivers ==
    ASSUME Tables, ApicInv, Drivers, Boot, declined \subseteq declined'
    PROVE  Drivers'
<1>1. /\ loader.DSid \in CPUs /\ guest' = [c \in CPUs |-> IF c = loader.DSid THEN Booted ELSE guest[c]]
      /\ UNCHANGED <<ichTable, uart, irq>>
  BY BootsGuest DEF toolVars
<1>2. ASSUME NEW c \in CPUs, NEW r \in 0..3, Watched(c, r)' PROVE Fine(c, r)'
  <2>1. CASE c = loader.DSid
    <3>1. guest'[c].drv = "boot"
      BY <1>1, <2>1 DEF Booted
    <3>2. QED
      BY <3>1 DEF Fine, Sees, Waits
  <2>2. CASE c # loader.DSid
    <3>1. guest'[c] = guest[c]
      BY <1>1, <2>2
    <3>2. Watched(c, r)
      BY <1>1, <1>2, <3>1 DEF Watched, RowIs
    <3>3. QED
      BY <1>1, <3>1, <3>2, DriversAre, StillFine
  <2>3. QED
    BY <2>1, <2>2
<1>3. QED
  BY <1>2, IchConstants DEF Drivers, Watched, Fine

LEMMA ApicWriteKeepsDrivers ==
    ASSUME Tables, ApicInv, Drivers, NEW c \in CPUs, ApicWrite(c), declined \subseteq declined'
    PROVE  Drivers'
<1>1. guest' = [guest EXCEPT ![c].pc = guest[c].pc + 1] /\ UNCHANGED <<ichTable, uart, irq>>
  BY DEF ApicWrite, toolVars
<1>2. \A b \in CPUs : guest'[b].drv = guest[b].drv
  BY <1>1 DEF ApicInv, ApicTypes
<1>3. QED
  BY <1>1, <1>2 DEF Drivers, RowIs, Sees, Waits

LEMMA DeviceKeepsDrivers ==
    ASSUME Tables, ApicInv, Ports, Drivers, NEW line \in Ticking, DeviceInterrupt(line),
           declined \subseteq declined'
    PROVE  Drivers'
<1>1. UNCHANGED <<ichTable, uart, guest>>
  BY DEF DeviceInterrupt, toolVars
<1>2. \A c \in CPUs : irq[c] \subseteq irq'[c]
  BY DeviceInterruptKeeps
<1>3. QED
  BY <1>1, <1>2 DEF Drivers, RowIs, Sees, Waits

LEMMA TakeKeepsDrivers ==
    ASSUME Tables, ApicInv, Drivers, NEW c \in CPUs, TakeInterrupt(c), declined \subseteq declined'
    PROVE  Drivers'
<1>1. /\ UNCHANGED <<ichTable, uart>>
      /\ \E t \in irq[c] : irq' = [irq EXCEPT ![c] = irq[c] \ {t}]
      /\ \/ guest[c].drv = "idle" /\ guest' = [guest EXCEPT ![c].drv = "isr"]
         \/ UNCHANGED guest /\ (HasPort(c) => (<<c, 4>> \in irq[c] => <<c, 4>> \in irq'[c]))
  BY TakeInterruptDoes DEF toolVars
<1>2. irq \in [CPUs -> SUBSET (LDomIds \X LogicalLines)] /\ DOMAIN guest = CPUs
  BY DEF ApicInv, ApicTypes
<1>3. ASSUME NEW b \in CPUs, NEW r \in 0..3, Watched(b, r)' PROVE Fine(b, r)'
  <2>1. CASE b # c
    <3>1. guest'[b] = guest[b] /\ irq'[b] = irq[b]
      BY <1>1, <1>2, <2>1
    <3>2. Watched(b, r)
      BY <1>1, <1>3, <3>1 DEF Watched, RowIs
    <3>3. QED
      BY <1>1, <3>1, <3>2, DriversAre, StillFine
  <2>2. CASE b = c /\ guest[c].drv = "idle" /\ guest' = [guest EXCEPT ![c].drv = "isr"]
    <3>1. guest'[c].drv = "isr" /\ Watched(c, r)
      BY <1>1, <1>2, <1>3, <2>2 DEF Watched, RowIs, ApicInv, ApicTypes
    <3>2. Sees("idle", uart[r])
      BY <2>2, <3>1, DriversAre DEF Fine
    <3>3. QED
      BY <1>1, <2>2, <3>1, <3>2 DEF Fine, Sees, Waits
  <2>3. CASE b = c /\ UNCHANGED guest /\ (HasPort(c) => (<<c, 4>> \in irq[c] => <<c, 4>> \in irq'[c]))
    <3>1. Watched(c, r)
      BY <1>1, <1>3, <2>3 DEF Watched, RowIs
    <3>2. HasPort(c)
      <4>1. cpu[c].active
        BY <3>1 DEF Watched, ApicInv, ApicTypes
      <4>2. HasRow(c) /\ c \in SerialUsers
        BY <3>1 DEF Watched, RowIs, HasRow
      <4>3. QED
        BY <4>1, <4>2, PortIs
    <3>3. QED
      BY <1>1, <2>3, <3>1, <3>2, DriversAre, StillFine
  <2>4. QED
    BY <1>1, <2>1, <2>2, <2>3
<1>4. QED
  BY <1>3, IchConstants DEF Drivers, Watched, Fine

LEMMA StrayKeepsDrivers ==
    ASSUME Tables, ApicInv, Drivers, NEW c \in CPUs, TakeStray(c), declined \subseteq declined'
    PROVE  Drivers'
<1>1. /\ UNCHANGED <<ichTable, uart, irq>>
      /\ \/ guest[c].drv = "idle" /\ guest' = [guest EXCEPT ![c].drv = "isr"]
         \/ UNCHANGED guest
  BY TakeStrayDoes DEF toolVars
<1>2. DOMAIN guest = CPUs /\ guest \in [CPUs -> [pc : 0..(4 * Len(ProgramLines)), drv : DriverSteps]]
  BY DEF ApicInv, ApicTypes
<1>3. ASSUME NEW b \in CPUs, NEW r \in 0..3, Watched(b, r)' PROVE Fine(b, r)'
  <2>1. CASE guest'[b] = guest[b]
    <3>1. Watched(b, r)
      BY <1>1, <1>3, <2>1 DEF Watched, RowIs
    <3>2. QED
      BY <1>1, <2>1, <3>1, DriversAre, StillFine
  <2>2. CASE b = c /\ guest[c].drv = "idle" /\ guest' = [guest EXCEPT ![c].drv = "isr"]
    <3>1. guest'[c].drv = "isr" /\ Watched(c, r)
      BY <1>1, <1>2, <1>3, <2>2 DEF Watched, RowIs
    <3>2. Sees("idle", uart[r])
      BY <2>2, <3>1, DriversAre DEF Fine
    <3>3. QED
      BY <1>1, <2>2, <3>1, <3>2 DEF Fine, Sees, Waits
  <2>3. QED
    BY <1>1, <1>2, <2>1, <2>2
<1>4. QED
  BY <1>3, IchConstants DEF Drivers, Watched, Fine

\* A change of port i, as its owner sees it; the others see nothing.
LEMMA PortKeepsDrivers ==
    ASSUME Tables, ApicInv, Ports, Drivers, NEW i \in 0..3, NEW v, PortStep(i, v),
           NEW c \in CPUs, RowIs(c, i), \A b \in CPUs : b # c => guest'[b] = guest[b],
           guest[c].drv # "off", declined \subseteq declined',
           i \notin declined' => /\ Sees(guest'[c].drv, v)
                                 /\ Waits(guest'[c].drv, v) => v.edges > 0 \/ Waits(guest[c].drv, uart[i])
    PROVE  Drivers'
<1>1. /\ \A b \in CPUs : irq[b] \subseteq irq'[b]
      /\ \A j \in 0..3 : j # i => uart'[j] = uart[j]
      /\ uart'[i] = [v EXCEPT !.edges = 0]
      /\ \A b \in CPUs : v.edges > 0 /\ RowIs(b, i) /\ cpu[b].active => <<b, 4>> \in irq'[b]
  BY PortSteps
<1>2. UNCHANGED ichTable /\ v \in UartState
  BY DEF PortStep, toolVars
<1>3. cpu[c].active
  BY DEF ApicInv, ApicTypes
<1>4. ASSUME NEW b \in CPUs, NEW r \in 0..3, Watched(b, r)' PROVE Fine(b, r)'
  <2>1. RowIs(b, r) /\ b \in SerialUsers /\ guest'[b].drv # "off" /\ r \notin declined' /\ r \notin declined
    BY <1>2, <1>4 DEF Watched, RowIs
  <2>2. CASE b = c
    <3>1. r = i
      BY <2>1, <2>2 DEF RowIs, Tables, IchInv, OneRowEach
    <3>2. Sees(guest'[c].drv, v) /\ (Waits(guest'[c].drv, v) => v.edges > 0 \/ Waits(guest[c].drv, uart[i]))
      BY <2>1, <2>2, <3>1
    <3>3. Waits(guest[c].drv, uart[i]) => <<c, 4>> \in irq[c]
      <4>1. Watched(c, i)
        BY <2>1, <2>2, <3>1 DEF Watched
      <4>2. QED
        BY <4>1, DriversAre DEF Fine
    <3>4. Waits(guest'[c].drv, v) => <<c, 4>> \in irq'[c]
      BY <1>1, <1>3, <3>2, <3>3
    <3>5. Sees(guest'[c].drv, uart'[i]) /\ (Waits(guest'[c].drv, uart'[i]) => <<c, 4>> \in irq'[c])
      BY <1>1, <1>2, <3>2, <3>4, EdgesUnseen
    <3>6. QED
      BY <2>2, <3>1, <3>5 DEF Fine, Sees, Waits
  <2>3. CASE b # c
    <3>1. guest'[b] = guest[b] /\ r # i
      BY <2>1, <2>3, OwnPort
    <3>2. Watched(b, r)
      BY <2>1, <3>1 DEF Watched
    <3>3. QED
      BY <1>1, <3>1, <3>2, DriversAre, StillFine
  <2>4. QED
    BY <2>2, <2>3
<1>5. QED
  BY <1>4, IchConstants DEF Drivers, Watched, Fine

LEMMA SerialKeepsDrivers ==
    ASSUME Tables, Tables', ApicInv, Ports, Drivers, NEW c \in CPUs, declined \subseteq declined',
           SerialOpen(c) \/ SerialBaud(c) \/ SerialStartTx(c) \/ SerialHandle(c)
    PROVE  Drivers'
<1> DEFINE i == Port(c)[2]
<1>1. PICK from, to, v : DriverStep(c, from, to, v) /\ Turns(from, to, uart[i], v)
  BY SerialSteps
<1>2. PortStep(i, v) /\ guest[c].drv # "off"
  BY <1>1, DriverStepKeeps
<1>3. RowIs(c, i) /\ i \in 0..3 /\ c \in SerialUsers
  BY <1>1, DriverOwnsPort DEF DriverStep, SerialStep
<1>4. /\ guest[c].drv = from /\ guest' = [guest EXCEPT ![c].drv = to]
      /\ guest \in [CPUs -> [pc : 0..(4 * Len(ProgramLines)), drv : DriverSteps]]
  BY <1>1 DEF DriverStep, SerialStep, ApicInv, ApicTypes
<1>5. guest'[c].drv = to /\ \A b \in CPUs : b # c => guest'[b] = guest[b]
  BY <1>4
<1>9. from = "tx" /\ to = "isr" => i \in declined'
  BY <1>1 DEF DriverStep, SerialStep
<1> HIDE DEF i
<1>6. i \notin declined => Sees(from, uart[i])
  BY <1>2, <1>3, <1>4, DriversAre DEF Watched, Fine
<1>7. i \notin declined' => Sees(to, v) /\ (Waits(to, v) => v.edges > 0 \/ Waits(from, uart[i]))
  BY <1>1, <1>6, <1>9 DEF Turns
<1>8. QED
  BY <1>2, <1>3, <1>4, <1>5, <1>7, PortKeepsDrivers

LEMMA EventKeepsDrivers ==
    ASSUME Tables, ApicInv, Ports, Drivers, NEW i \in 0..3, UartEvent(i), declined \subseteq declined'
    PROVE  Drivers'
<1>1. PICK v : /\ PortStep(i, v) /\ v.dlab = uart[i].dlab /\ v.ier = uart[i].ier
               /\ \/ v.status = uart[i].status /\ v.pin = uart[i].pin
                  \/ uart[i].ier # {} /\ v.status # {} /\ (v.edges > 0 \/ uart[i].pin)
  BY UartEventSteps
<1>2. UNCHANGED <<guest, ichTable>>
  BY <1>1, UartEventSteps DEF PortStep, toolVars
<1>3. ASSUME NEW c \in CPUs, Watched(c, i) PROVE Drivers'
  <2> DEFINE drv == guest[c].drv
             u == uart[i]
  <2>1. Sees(drv, u)
    BY <1>3, DriversAre DEF Fine
  <2> HIDE DEF u, drv
  <2>2. Sees(drv, v) /\ (Waits(drv, v) => v.edges > 0 \/ Waits(drv, u))
    BY <1>1, <2>1 DEF Sees, Waits, u
  <2>3. guest'[c].drv = drv /\ drv # "off" /\ RowIs(c, i)
    BY <1>2, <1>3 DEF drv, Watched
  <2>4. QED
    BY <1>1, <1>2, <2>2, <2>3, PortKeepsDrivers DEF drv, u
<1>4. ASSUME \A c \in CPUs : ~Watched(c, i) PROVE Drivers'
  <2>1. /\ \A b \in CPUs : irq[b] \subseteq irq'[b]
        /\ \A j \in 0..3 : j # i => uart'[j] = uart[j]
    BY <1>1, PortSteps
  <2>2. ASSUME NEW c \in CPUs, NEW r \in 0..3, Watched(c, r)' PROVE Fine(c, r)'
    <3>1. Watched(c, r)
      BY <1>2, <2>2 DEF Watched, RowIs
    <3>2. QED
      BY <1>2, <1>4, <2>1, <3>1, DriversAre, StillFine
  <2>3. QED
    BY <2>2, IchConstants DEF Drivers, Watched, Fine
<1>5. QED
  BY <1>3, <1>4

LEMMA DriversKept ==
    ASSUME Tables, Tables', ApicInv, Ports, Drivers, [Next]_vars
    PROVE  Drivers'
<1>9. declined \subseteq declined'
  BY DeclinedGrows
<1>1. CASE PrmStep \/ UNCHANGED vars
  <2>1. TableGrows
    BY TableStep DEF Tables
  <2>2. UNCHANGED restOfChip
    BY <1>1, PrmLeavesChip DEF vars, restOfChip
  <2>3. QED
    BY <2>1, <2>2, DriversFrame
<1>2. CASE Boot
  BY <1>2, <1>9, BootKeepsDrivers
<1>3. ASSUME NEW c \in CPUs, ApicWrite(c) PROVE Drivers'
  BY <1>3, <1>9, ApicWriteKeepsDrivers
<1>4. ASSUME NEW c \in CPUs, SerialOpen(c) \/ SerialBaud(c) \/ SerialStartTx(c) \/ SerialHandle(c)
      PROVE  Drivers'
  BY <1>4, <1>9, SerialKeepsDrivers
<1>5. ASSUME NEW c \in CPUs, TakeInterrupt(c) \/ TakeStray(c) PROVE Drivers'
  BY <1>5, <1>9, TakeKeepsDrivers, StrayKeepsDrivers
<1>6. ASSUME NEW line \in Ticking, DeviceInterrupt(line) PROVE Drivers'
  BY <1>6, <1>9, DeviceKeepsDrivers
<1>7. ASSUME NEW i \in 0..(Components - 1), UartEvent(i) PROVE Drivers'
  BY <1>7, <1>9, EventKeepsDrivers, IchConstants
<1>8. QED
  BY <1>1, <1>2, <1>3, <1>4, <1>5, <1>6, <1>7, Zenon DEF Next, PrmStep, ToolStep

(* As long as the driver of a port answered every transmit interrupt with  *)
(* a character: although the pin is edge triggered and characters arrive   *)
(* at any time, an idle driver whose port has something pending has the    *)
(* interrupt at its local APIC, or an event will raise it.                 *)
THEOREM NoInterruptLost == Spec => []NoLostInterrupt
<1>1. Init => Drivers
  BY DriversStart
<1>2. IInv /\ IInv' /\ Drivers /\ [Next]_vars => Drivers'
  BY DriversKept DEF IInv, Tables
<1>3. IInv /\ Drivers => NoLostInterrupt
  <2> SUFFICES ASSUME IInv, Drivers, NEW c \in CPUs, guest[c].drv = "idle", HasPort(c), Port(c)[2] \notin declined,
                      LET u == uart[Port(c)[2]] IN u.status # {} \/ (u.data > 0 /\ "RX" \in u.ier)
               PROVE  <<GuestDSid(c), 4>> \in irq[c] \/ uart[Port(c)[2]].events \cap uart[Port(c)[2]].ier # {}
    BY DEF NoLostInterrupt, Informed
  <2> DEFINE i == Port(c)[2]
             u == uart[i]
  <2>1. cpu[c].active /\ Tables
    BY DEF IInv, ApicInv, ApicTypes, Tables
  <2>2. GuestDSid(c) = c /\ c \in SerialUsers /\ RowIs(c, i)
    BY <2>1, PortIs
  <2>3. i \in 0..3
    BY <2>1, <2>2, RowsAre, BootConstants DEF Tables
  <2>4. Consistent(u)
    BY <2>3, IchConstants DEF IInv, Ports
  <2>5. Waits("idle", u) => <<c, 4>> \in irq[c]
    BY <2>2, <2>3, DriversAre DEF Watched, Fine
  <2>6. CASE u.status # {}
    BY <2>2, <2>5, <2>6 DEF Waits
  <2>7. CASE u.status = {}
    BY <2>4, <2>7 DEF Consistent
  <2>8. QED
    BY <2>6, <2>7
<1>4. QED
  BY <1>1, <1>2, <1>3, Invariant, PTL DEF Spec
=============================================================================
