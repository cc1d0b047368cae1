-------------------------------- MODULE LDoms --------------------------------
(***************************************************************************)
(* Logical domains on the chipset.  The kickstart script sets up the ICH   *)
(* control plane for a domain (ich --assign, ich --irqmap) and boots it    *)
(* (biosloader, in LDomBoot); the booted guest reaches the ICH components  *)
(* its row of the table selects (PARDg5VICHCP::remapAddr), programs its    *)
(* own copy of the IO APIC (I82094AX) and drives its serial port (Uart),   *)
(* while timers and PCI devices interrupt.  Scripts run one after the      *)
(* other; everything else interleaves with their single word stores.       *)
(*                                                                         *)
(* Addresses are the names of components: a regbase word is set or still   *)
(* all ones.  Only the redirection entries of lines a table row maps are   *)
(* kept, and of an entry its mask, mode and destination.                   *)
(***************************************************************************)
EXTENDS LDomBoot, Uart

CONSTANTS
    Kickstarts,     \* the domains that are kickstarted, in order
    IchRows,        \* param_table_entries of the ICH control plane
    Ticking,        \* the lines that timers and PCI devices raise
    ProgramLines,   \* the redirection entries a guest programs, in its order
    SerialUsers,    \* the domains that use their serial port
    Terminals,      \* the serial ports somebody types at
    MaxData         \* characters that wait in a terminal

TableSize == 24                     \* lines of the IO APIC
Components == 4                     \* compoments_nr: sets of COM and PIT
Lines == 0..(TableSize - 1)
IdeLine(d) == 10 + d
LogicalLines == {2, 4, 8} \cup {IdeLine(d) : d \in LDomIds}
NoLine == -1
Nowhere == <<"nowhere", 0>>

\* Lines 4 to 7 are the serial ports' own, and a guest that uses its port has
\* routed the serial line before it opens the port.
ASSUME LDomsAssumption == /\ IchRows \in Nat \ {0} /\ Ticking \subseteq Lines \ (4..7)
                          /\ Kickstarts \in Seq(LDomIds)
                          /\ ProgramLines \in Seq(LogicalLines)
                          /\ SerialUsers \subseteq LDomIds
                          /\ SerialUsers # {} => \E k \in DOMAIN ProgramLines : ProgramLines[k] = 4

VARIABLES
    started,        \* how many entries of Kickstarts have begun
    tool,           \* the running ich command
    ichTable,       \* paramTable of the ICH control plane
    regSel,         \* regSelVector
    redir,          \* redirTableVector
    uart,           \* the serial ports
    irq,            \* interrupt messages at each local APIC: <<DSid, line>>
    stray,          \* local APICs with a message made of some other memory
    guest,          \* the software of each CPU
    declined        \* history: ports whose driver had nothing to send

apicVars == <<regSel, redir>>
toolVars == <<started, tool, ichTable>>
vars == <<bootVars, toolVars, apicVars, uart, irq, stray, guest, declined>>

EmptyIchRow == [valid |-> FALSE, DSid |-> NoDSid, selected |-> NoDSid,
                regbase |-> {}, intlines |-> [l \in Lines |-> NoLine]]
NoTool == [pc |-> "off", DSid |-> NoDSid, row |-> 0, k |-> 0, buf |-> NoLine]
NoGuest == [pc |-> 0, drv |-> "off"]
Booted == [pc |-> 0, drv |-> "boot"]

\* After PARDg5VICH::init: line 4 is open, to APIC 0; the others are masked.
InitialEntry(l) == [mask |-> l # 4, logical |-> FALSE, dest |-> 0]

Init ==
    /\ BootInit
    /\ started = 0 /\ tool = NoTool
    /\ ichTable = [r \in 0..(IchRows - 1) |-> EmptyIchRow]
    /\ regSel = [d \in LDomIds |-> <<NoLine, "bottom">>]
    /\ redir = [d \in LDomIds |-> [l \in LogicalLines |-> InitialEntry(l)]]
    /\ uart = [i \in 0..(Components - 1) |-> NewUart]
    /\ irq = [c \in CPUs |-> {}] /\ stray = {}
    /\ guest = [c \in CPUs |-> NoGuest] /\ declined = {}

-----------------------------------------------------------------------------
(* PARDg5VICHCP::remapAddr: the first row with the DSid, valid or not.     *)
FirstRow(R) == CHOOSE r \in R : \A q \in R : r <= q
IchRowsOf(d) == {r \in DOMAIN ichTable : ichTable[r].DSid = d}

RemapAddr(d, comp) ==
    IF IchRowsOf(d) = {} THEN Nowhere
    ELSE LET row == ichTable[FirstRow(IchRowsOf(d))]
         IN  IF row.selected \notin 0..(Components - 1) \/ comp \notin row.regbase THEN Nowhere
             ELSE IF comp \in {"COM", "PIT"} THEN <<comp, row.selected>> ELSE <<comp, 0>>

(* remapInterrupt: every row that maps the line, valid or not.             *)
RemapInterrupt(line) ==
    {<<ichTable[r].DSid, ichTable[r].intlines[line]>> :
        r \in {q \in DOMAIN ichTable : ichTable[q].intlines[line] # NoLine}}

(* The CPUs an interrupt of a domain goes to.  In logical mode every guest *)
(* has given its CPU logical id 1; a domain has one CPU, so that lowest    *)
(* priority delivery selects it.                                           *)
BugApics(d, entry) == IF entry.logical THEN {c \in CPUs : cpu[c].active} ELSE {entry.dest} \cap CPUs
Apics(d, entry) ==
    IF entry.logical
    THEN {c \in CPUs : cpu[c].active /\ cpu[c].apic = d /\ entry.dest = 1}
    ELSE {entry.dest} \cap CPUs

(* signalInterrupt.  A row whose intlines are written before its DSid has  *)
(* DSid 0xFFFF, an index far outside redirTableVector.  The simulator      *)
(* dies, which ends the behaviour here, or takes what it reads there for   *)
(* an entry: masked, or with any vector and destination, of which the CPUs *)
(* that run are kept.                                                      *)
SignalInterrupt(line) ==
    /\ irq' = [c \in CPUs |-> irq[c] \cup
                  {t \in RemapInterrupt(line) :
                      /\ t[1] \in LDomIds
                      /\ ~redir[t[1]][t[2]].mask
                      /\ c \in Apics(t[1], redir[t[1]][t[2]])}]
    /\ \E dest \in SUBSET {c \in CPUs : cpu[c].active} :
         /\ dest # {} => \E t \in RemapInterrupt(line) : t[1] \notin LDomIds
         /\ stray' = stray \cup dest

(* A serial port changes; its pin is on line 4 + i.                        *)
UartBecomes(i, u) ==
    /\ uart' = [uart EXCEPT ![i] = [u EXCEPT !.edges = 0]]
    /\ IF u.edges > 0 THEN SignalInterrupt(4 + i) ELSE UNCHANGED <<irq, stray>>

-----------------------------------------------------------------------------
(* kickstart and ich.  ich_assign stops at the first row that is free or   *)
(* is the domain's own; it writes words 1 to 16 of the row in order, which *)
(* are regbase and the intlines, two to a word, and word 0, with flags,    *)
(* DSid and selected, last.                                                *)
BugIchWords == [k \in 1..17 |-> k - 1]
IchWords == [k \in 1..17 |-> k % 17]
Regbase == <<"COM", "CMOS", "PIT", "APIC">>

AssignedLine(row, l) == IF l = row THEN 2 ELSE IF l = row + 4 THEN 4 ELSE IF l = 8 THEN 8 ELSE NoLine
PairOf(w) == {2 * (w - 5), 2 * (w - 5) + 1}

StoreWord(row, d, w) ==
    LET old == ichTable[row]
        lines == [l \in Lines |-> IF l \in PairOf(w) THEN AssignedLine(row, l) ELSE old.intlines[l]]
    IN  ichTable' = [ichTable EXCEPT ![row] =
            IF w = 0 THEN [old EXCEPT !.valid = TRUE, !.DSid = d, !.selected = row]
            ELSE IF w \in DOMAIN Regbase THEN [old EXCEPT !.regbase = old.regbase \cup {Regbase[w]}]
            ELSE [old EXCEPT !.intlines = lines]]

restOfChip == <<apicVars, uart, irq, stray, guest, declined>>

Kickstart ==
    /\ tool.pc = "off" /\ loader.pc = "off" /\ started < Len(Kickstarts)
    /\ started' = started + 1
    /\ tool' = [NoTool EXCEPT !.pc = "assign", !.DSid = Kickstarts[started + 1]]
    /\ UNCHANGED <<bootVars, ichTable, restOfChip>>

\* Registered already, or no free row (ENOMEM): the script goes on regardless.
IchAssign ==
    /\ tool.pc = "assign"
    /\ LET stop == {r \in DOMAIN ichTable : ~ichTable[r].valid \/ ichTable[r].DSid = tool.DSid}
       IN  tool' = IF stop = {} \/ ichTable[FirstRow(stop)].valid
                   THEN [tool EXCEPT !.pc = "irqmap"]
                   ELSE [tool EXCEPT !.pc = "words", !.row = FirstRow(stop), !.k = 1]
    /\ UNCHANGED <<bootVars, started, ichTable, restOfChip>>

IchAssignWord ==
    /\ tool.pc = "words"
    /\ StoreWord(tool.row, tool.DSid, IchWords[tool.k])
    /\ tool' = IF tool.k < Len(IchWords) THEN [tool EXCEPT !.k = @ + 1] ELSE [tool EXCEPT !.pc = "irqmap"]
    /\ UNCHANGED <<bootVars, started, restOfChip>>

\* The word read holds the line's neighbour, which is written back.
Neighbour(l) == IF l % 2 = 0 THEN l + 1 ELSE l - 1

IchIrqmapRead ==
    /\ tool.pc = "irqmap"
    /\ LET rows == {r \in IchRowsOf(tool.DSid) : ichTable[r].valid}
       IN  tool' = IF rows = {} THEN [tool EXCEPT !.pc = "boot"]
                   ELSE [tool EXCEPT !.pc = "irqwrite", !.row = FirstRow(rows),
                            !.buf = ichTable[FirstRow(rows)].intlines[Neighbour(IdeLine(tool.DSid))]]
    /\ UNCHANGED <<bootVars, started, ichTable, restOfChip>>

IchIrqmapWrite ==
    /\ tool.pc = "irqwrite"
    /\ LET l == IdeLine(tool.DSid)
       IN  ichTable' = [ichTable EXCEPT ![tool.row].intlines[l] = l,
                                        ![tool.row].intlines[Neighbour(l)] = tool.buf]
    /\ tool' = [tool EXCEPT !.pc = "boot"]
    /\ UNCHANGED <<bootVars, started, restOfChip>>

Biosloader ==
    /\ tool.pc = "boot"
    /\ LoaderStart(tool.DSid)
    /\ tool' = NoTool
    /\ UNCHANGED <<started, ichTable, restOfChip>>

Load ==
    /\ LoaderMemory \/ LoaderSegment \/ LoaderMask \/ LoaderValid
    /\ UNCHANGED <<toolVars, restOfChip>>

\* A CPU that is started, running or not, runs the kernel from its entry.
Boot ==
    /\ LoaderBoot
    /\ guest' = [c \in CPUs |-> IF RowsOf(loader.DSid) # {} /\ c \in sysTable[RowOf(loader.DSid)].cpuMask
                                THEN Booted ELSE guest[c]]
    /\ UNCHANGED <<toolVars, apicVars, uart, irq, stray, declined>>

-----------------------------------------------------------------------------
(* A guest programs redirection entries for logical delivery to id 1, the  *)
(* top half first, selecting the register before each write of IOWIN.      *)
GuestDSid(c) == cpu[c].dtb

\* regSelVector[pkt->getDSid()]
BugSelIndex(d) == 0
SelIndex(d) == d

WriteReg(entry, half) ==
    IF half = "top" THEN [entry EXCEPT !.dest = 1]
    ELSE [entry EXCEPT !.mask = FALSE, !.logical = TRUE]

ApicWrite(c) ==
    LET d == GuestDSid(c)
        n == guest[c].pc
        sel == regSel[SelIndex(d)]
    IN  /\ guest[c].drv = "boot" /\ n < 4 * Len(ProgramLines)
        /\ guest' = [guest EXCEPT ![c].pc = n + 1]
        /\ IF RemapAddr(d, "APIC") = Nowhere THEN UNCHANGED apicVars
           ELSE IF n % 2 = 0
           THEN /\ regSel' = [regSel EXCEPT ![SelIndex(d)] =
                     <<ProgramLines[n \div 4 + 1], IF (n \div 2) % 2 = 0 THEN "top" ELSE "bottom">>]
                /\ UNCHANGED redir
           ELSE /\ redir' = [redir EXCEPT ![d][sel[1]] = WriteReg(@, sel[2])]
                /\ UNCHANGED regSel
        /\ UNCHANGED <<bootVars, toolVars, uart, irq, stray, declined>>

(* The guest's serial driver, which behaves as the Linux driver that the   *)
(* comment in i8250x.cc refers to: it quiets the port, enables receive     *)
(* interrupts, and on an interrupt reads IIR until nothing is pending,     *)
(* reading all characters and sending or, with nothing left to send,       *)
(* disabling the transmit interrupt.                                       *)
Port(c) == RemapAddr(GuestDSid(c), "COM")
HasPort(c) == Port(c) # Nowhere /\ GuestDSid(c) \in SerialUsers

SerialStep(c, from, to, u) ==
    /\ guest[c].drv = from /\ HasPort(c)
    /\ guest' = [guest EXCEPT ![c].drv = to]
    /\ UartBecomes(Port(c)[2], u)
    /\ declined' = IF from = "tx" /\ to = "isr" THEN declined \cup {Port(c)[2]} ELSE declined
    /\ UNCHANGED <<bootVars, toolVars, apicVars>>

SerialOpen(c) ==
    LET u == uart[Port(c)[2]]
    IN  /\ HasPort(c)
        /\ \/ /\ guest[c].pc = 4 * Len(ProgramLines)
              /\ SerialStep(c, "boot", "found", WriteLCR(u, FALSE))
           \/ SerialStep(c, "found", "quiet", WriteIER(u, {}, FALSE))
           \/ SerialStep(c, "quiet", "flushed", ReadRBR(u))
           \/ SerialStep(c, "flushed", "cleared", ReadIIR(u))
           \/ SerialStep(c, "cleared", "idle", WriteIER(u, {"RX"}, FALSE))

\* set_termios, with interrupts off: the divisor latch, then back.
SerialBaud(c) ==
    LET u == uart[Port(c)[2]]
    IN  /\ HasPort(c)
        /\ SerialStep(c, "idle", "baud", WriteLCR(u, TRUE)) \/ SerialStep(c, "baud", "idle", WriteLCR(u, FALSE))

SerialStartTx(c) ==
    /\ HasPort(c)
    /\ \E recent \in BOOLEAN :
          SerialStep(c, "idle", "idle", WriteIER(uart[Port(c)[2]], {"RX", "TX"}, recent))

TakeInterrupt(c) ==
    \E t \in irq[c] :
        /\ irq' = [irq EXCEPT ![c] = @ \ {t}]
        /\ IF t[2] = 4 /\ HasPort(c) THEN /\ guest[c].drv = "idle"
                                          /\ guest' = [guest EXCEPT ![c].drv = "isr"]
           ELSE UNCHANGED guest
        /\ UNCHANGED <<bootVars, toolVars, apicVars, uart, stray, declined>>

\* The vector of a stray message may be the serial port's.
TakeStray(c) ==
    /\ c \in stray /\ stray' = stray \ {c}
    /\ \/ UNCHANGED guest
       \/ HasPort(c) /\ guest[c].drv = "idle" /\ guest' = [guest EXCEPT ![c].drv = "isr"]
    /\ UNCHANGED <<bootVars, toolVars, apicVars, uart, irq, declined>>

SerialHandle(c) ==
    LET u == uart[Port(c)[2]]
    IN  /\ HasPort(c)
        /\ \/ IIR(u) = "RX" /\ SerialStep(c, "isr", "rx", ReadIIR(u))
           \/ IIR(u) = "TX" /\ SerialStep(c, "isr", "tx", ReadIIR(u))
           \/ IIR(u) = "none" /\ SerialStep(c, "isr", "idle", ReadIIR(u))
           \/ SerialStep(c, "rx", IF u.data > 1 THEN "rx" ELSE "isr", ReadRBR(u))
           \/ SerialStep(c, "tx", "sent", WriteTHR(u))
           \/ SerialStep(c, "tx", "isr", WriteIER(u, {"RX"}, FALSE))
           \/ SerialStep(c, "sent", "isr", u)
           \/ SerialStep(c, "sent", "isr", WriteIER(u, {"RX"}, FALSE))

-----------------------------------------------------------------------------
(* Timers (the PITs tick from the start), the clock, PCI devices, and the  *)
(* serial ports' own events.                                               *)
DeviceInterrupt(line) ==
    /\ SignalInterrupt(line)
    /\ UNCHANGED <<bootVars, toolVars, apicVars, uart, guest, declined>>

UartEvent(i) ==
    /\ \/ \E bit \in uart[i].events : UartBecomes(i, Fire(uart[i], bit))
       \/ i \in Terminals /\ uart[i].data < MaxData /\ UartBecomes(i, DataAvailable(uart[i]))
    /\ UNCHANGED <<bootVars, toolVars, apicVars, guest, declined>>

Next ==
    \/ Kickstart \/ IchAssign \/ IchAssignWord \/ IchIrqmapRead \/ IchIrqmapWrite
    \/ Biosloader \/ Load \/ Boot
    \/ \E c \in CPUs : \/ ApicWrite(c) \/ SerialOpen(c) \/ SerialBaud(c) \/ SerialStartTx(c)
                       \/ TakeInterrupt(c) \/ TakeStray(c) \/ SerialHandle(c)
    \/ \E line \in Ticking : DeviceInterrupt(line)
    \/ \E i \in 0..(Components - 1) : UartEvent(i)

Spec == Init /\ [][Next]_vars

-----------------------------------------------------------------------------
(* A row that says it is valid is whole: every register window and the     *)
(* timer, serial and clock lines of its component set are in it, and no    *)
(* two valid rows belong to one domain or share a serial port.             *)
PublishedWhole ==
    \A r \in DOMAIN ichTable : ichTable[r].valid =>
        /\ ichTable[r].regbase = {Regbase[k] : k \in DOMAIN Regbase}
        /\ ichTable[r].intlines[r] = 2 /\ ichTable[r].intlines[r + 4] = 4 /\ ichTable[r].intlines[8] = 8
        /\ \A q \in DOMAIN ichTable \ {r} : ichTable[q].valid =>
              ichTable[q].DSid # ichTable[r].DSid /\ ichTable[q].selected # ichTable[r].selected

(* A CPU that runs carries its domain's tag in both TLBs and in its local  *)
(* APIC, and the domain's own memory, not that of a domain booted before,  *)
(* holds the whole boot image and all configuration segments.              *)
BootComplete ==
    \A c \in CPUs : cpu[c].active =>
        /\ cpu[c].itb = cpu[c].dtb /\ cpu[c].apic = cpu[c].dtb
        /\ Image \cup {<<Segments[s], TRUE>> : s \in DOMAIN Segments} \subseteq mem[cpu[c].dtb]

(* However two guests interleave their select and data writes, the entries *)
(* a guest has finished programming say what it wrote.                     *)
EntriesAsProgrammed ==
    \A c \in CPUs : guest[c].drv # "off" /\ RemapAddr(GuestDSid(c), "APIC") # Nowhere =>
        \A k \in DOMAIN ProgramLines : 4 * k <= guest[c].pc =>
            redir[GuestDSid(c)][ProgramLines[k]] = [mask |-> FALSE, logical |-> TRUE, dest |-> 1]

(* An interrupt that was remapped for a domain waits only at a local APIC  *)
(* tagged with that domain, although all guests use the same logical       *)
(* destination and rows change meanwhile.                                  *)
InterruptsStayHome == \A c \in CPUs : \A t \in irq[c] : t[1] = cpu[c].apic

(* "Only send interrupt to localApic with requested DSid" (i82094ax.cc),   *)
(* of any interrupt.  Does not hold: while the tool fills a new row in, a  *)
(* timer's interrupt has no domain, and the table that signalInterrupt     *)
(* looks its destination up in is not one.                                 *)
OnlyToRequestedDSid ==
    InterruptsStayHome /\ \A c \in stray : cpu[c].apic = NoDSid

(* An edge triggered interrupt is not lost: when the serial driver is      *)
(* idle and its port has something pending, or characters to read with     *)
(* the interrupt for them enabled, then the interrupt is at the local APIC *)
(* or an event that will raise it is scheduled.                            *)
Informed(c) ==
    LET u == uart[Port(c)[2]]
    IN  u.status # {} \/ (u.data > 0 /\ "RX" \in u.ier) =>
            <<GuestDSid(c), 4>> \in irq[c] \/ u.events \cap u.ier # {}

(* It holds as long as the driver answered every transmit interrupt of the *)
(* port with a character.                                                  *)
NoLostInterrupt ==
    \A c \in CPUs : guest[c].drv = "idle" /\ HasPort(c) /\ Port(c)[2] \notin declined => Informed(c)

(* The same whatever the driver has to send, as "Tx interrupts are cleared *)
(* on IIR reads" (i8250x.cc).  Does not hold: the read clears the status   *)
(* bit but leaves the pin raised, disabling the interrupt then does not    *)
(* lower it either, and the next interrupt makes no edge.                  *)
TxInterruptsCleared == \A c \in CPUs : guest[c].drv = "idle" /\ HasPort(c) => Informed(c)
=============================================================================
