------------------------------ MODULE IdeCtrl ------------------------------
(***************************************************************************)
(* PARDg5VIdeController (src/src/dev/pard/ide_ctrl.cc) with its disks, the *)
(* part of the PCI device base it uses (pcidev.cc), and the driver.        *)
(*                                                                         *)
(* A channel has a task file and a bus master (BMI) register block; its    *)
(* accesses go to the selected disk.  All disks share the controller's DMA *)
(* port, so a disk that finds it busy, or the controller draining, backs   *)
(* off.  The driver (external) follows the ATA protocol: it writes a       *)
(* command only when BSY and DRQ are clear, moves data when the disk asks  *)
(* for it, and may stop a DMA transfer at any moment (a timeout).          *)
(***************************************************************************)
EXTENDS IdeDisk, SequencesExt

CONSTANTS
    Disks,          \* <<channel, devID>>: channel 0 is primary, devID 0 master
    MaxSectors,     \* sectors of a command's transfer, at most
    Transfers,      \* bound: <<sec_count, LBA>> of the commands
    Workload,       \* bound: the commands that each channel's driver uses
    MaxCommands,    \* bound: commands the driver writes
    MaxDisturbances,    \* bound: drains, stopped transfers and control register writes
    BarAddrs        \* addresses that the firmware may give to each BAR

\* A channel with a slave has a master, and its driver uses ATA commands.
ASSUME DiskAssumption ==
    /\ Disks \subseteq {0, 1} \X {0, 1} /\ \A d \in Disks : <<d[1], 0>> \in Disks
    /\ \A d \in Disks : Workload[d[1]] \subseteq Commands

\* Transfers move at least one sector, which fits the driver's buffer.
ASSUME TransferAssumption == Transfers \subseteq (1 .. MaxSectors) \X Nat

VARIABLES
    disk,           \* [Disks -> fields of PARDg5VIdeDisk]
    chan,           \* selectBit and bmiRegs of each Channel
    mem,            \* memory of each channel's driver: data and PRD table
    received,       \* the words each channel's driver has read
    pci,            \* config.command, baseAddr, BARAddrs, Channel addresses
    drain,          \* getDrainState() of the controller
    commands, disturbances, panicked,
    busyReset       \* history: the driver reset a channel before it was quiet

vars == <<disk, chan, mem, received, pci, drain, commands, disturbances, panicked,
          busyReset>>

Channels == {d[1] : d \in Disks}
Bars == 0..4            \* command and control block of 0 and of 1, bus master
Addrs(b) == BarAddrs[b]
SizeMask == -1          \* ~(BARSize - 1), which a write of 0xffffffff leaves

Buffer == SingleDmaSize .. SingleDmaSize + MaxSectors - 1
HostSector(i) == [j \in 1..SectorWords |-> Word(2, i, j)]
Filled(F(_)) == [a \in 0 .. SingleDmaSize + MaxSectors - 1 |->
                    IF a \in Buffer THEN F(a - SingleDmaSize) ELSE ZeroSector]
Blank(i) == ZeroSector

ImageOf(d) ==
    [s \in 0 .. NumSectors - 1 |-> [j \in 1..SectorWords |-> Word(3 + 2 * d[1] + d[2], s, j)]]

\* The device's registers before any configuration write; the capabilities
\* are never used.
NewPci == [command |-> {}, bar |-> [b \in Bars |-> 0], addr |-> [b \in Bars |-> 0],
           window |-> [b \in Bars |-> 0]]

Init ==
    /\ disk \in [Disks -> UNION {NewDisks(d[2], ImageOf(d)) : d \in Disks}]
    /\ \A d, e \in Disks : disk[d] \in NewDisks(d[2], ImageOf(d)) /\ disk[d].nIEN = disk[e].nIEN
    /\ chan = [c \in Channels |-> [selectBit |-> 0, start |-> FALSE, active |-> FALSE]]
    /\ mem = [c \in Channels |-> [data |-> Filled(Blank), prds |-> << >>]]
    /\ received = [c \in Channels |-> << >>]
    /\ pci = NewPci
    /\ drain = "Running" /\ commands = 0 /\ disturbances = 0
    /\ panicked = FALSE /\ busyReset = FALSE

---------------------------------------------------------------------------
(* PCI configuration.                                                      *)

\* A BAR takes an address, or answers the sizing probe; the windows that
\* dispatchAccess compares with follow BARAddrs.
WriteBar(p, b, v) ==
    LET a == IF v \in {0, SizeMask} THEN p.addr[b] ELSE v
    IN  [p EXCEPT !.bar[b] = v, !.addr[b] = a, !.window[b] = IF a # 0 THEN a ELSE @]

\* The firmware enumerates before the first command, one BAR after another.
ConfigBar ==
    /\ commands = 0
    /\ \E b \in Bars : \E v \in Addrs(b) \cup {0, SizeMask} :
         /\ \A c \in 0 .. b - 1 : pci.bar[c] \in Addrs(c)
         /\ \A c \in b + 1 .. 4 : pci.addr[c] = 0
         /\ pci' = WriteBar(pci, b, v)
    /\ UNCHANGED <<disk, chan, mem, received, drain, commands, disturbances, panicked, busyReset>>

\* A 16-bit write of the command register keeps its low byte: not INTx.  To
\* bound the model, the BARs are at their highest address by then.
ConfigCommand ==
    /\ commands = 0 /\ \A b \in Bars : pci.bar[b] = Max(Addrs(b))
    /\ pci' = [pci EXCEPT !.command = {"IO", "BM", "INTX"} \ {"INTX"}]
    /\ UNCHANGED <<disk, chan, mem, received, drain, commands, disturbances, panicked, busyReset>>

---------------------------------------------------------------------------
(* The controller.                                                         *)

Selected(c) == <<c, chan[c].selectBit>>

\* Block b is the first, in the order of dispatchAccess, whose window has a.
Decodes(b, a) == pci.window[b] = a /\ \A x \in 0 .. b - 1 : pci.window[x] # a

\* What the driver reads in BAR b, and the addresses that the device claims.
ReadConfig(b) == pci.bar[b]
AddrRanges == {pci.addr[b] : b \in Bars} \ {0}

\* An access at the address that the driver finds in BAR b arrives there.
Reaches(b) ==
    "IO" \in pci.command /\ ReadConfig(b) \in AddrRanges /\ Decodes(b, ReadConfig(b))

\* setDmaComplete.  The interrupt status bits, which the controller sets here
\* and in intrPost and never reads, are left out.
Notify(ch, d, out) ==
    IF "dmaComplete" \in out
    THEN [ch EXCEPT ![d[1]].start = FALSE, ![d[1]].active = FALSE] ELSE ch

\* Disk d becomes k, and the controller does what the disk called it for.  A
\* panic ends the simulation.
Becomes(d, k, ch) ==
    /\ ~panicked
    /\ disk' = [disk EXCEPT ![d] = [k EXCEPT !.out = {}]]
    /\ chan' = Notify(ch, d, k.out)
    /\ panicked' = (panicked \/ "panic" \in k.out)

\* accessBMI, BMICommand.
WriteBMICommand(c, start) ==
    LET d == Selected(c)
        k == IF chan[c].start = start THEN disk[d]
             ELSE IF start THEN StartDma(disk[d]) ELSE AbortDma(disk[d])
    IN  Becomes(d, k, [chan EXCEPT ![c].active = IF chan[c].start = start THEN @ ELSE start,
                                   ![c].start = start])

---------------------------------------------------------------------------
(* The driver of a channel.                                                *)

Quiet(c) == \A d \in Disks : d[1] = c => disk[d].status \cap {"BSY", "DRQ"} = {}

Disturb == disturbances < MaxDisturbances /\ disturbances' = disturbances + 1

Select(c, bit) ==
    /\ commands < MaxCommands /\ Reaches(2 * c) /\ Quiet(c) /\ bit # chan[c].selectBit /\ <<c, bit>> \in Disks
    /\ Becomes(<<c, bit>>, Update(disk[<<c, bit>>], "SELECT_WRITE"),
               [chan EXCEPT ![c].selectBit = bit])
    /\ UNCHANGED <<mem, received, pci, drain, commands, disturbances, busyReset>>

\* Splits of n sectors over the entries of a PRD table: for each entry, the
\* sectors up to its end.
PrdTables(n) == {p \in UNION {[1..m -> 1..n] : m \in 1..n} :
                    p[Len(p)] = n /\ \A i \in 2 .. Len(p) : p[i - 1] < p[i]}

Command(c, cmd, n, lba) ==
    /\ Reaches(2 * c) /\ Quiet(c) /\ commands < MaxCommands /\ lba + n <= NumSectors
    /\ (cmd \in DmaCommands => "BM" \in pci.command)
    /\ \E p \in IF cmd \in DmaCommands THEN PrdTables(n) ELSE {<< >>} :
         mem' = [mem EXCEPT ![c] =
                   [data |-> IF cmd = "WRITEDMA" THEN Filled(HostSector) ELSE Filled(Blank),
                    prds |-> p]]
    /\ received' = [received EXCEPT ![c] = << >>]
    /\ commands' = commands + 1
    /\ Becomes(Selected(c), WriteCommand(disk[Selected(c)], cmd, n, lba), chan)
    /\ UNCHANGED <<pci, drain, disturbances, busyReset>>

Start(c) ==
    /\ Reaches(4) /\ ~chan[c].start
    /\ disk[Selected(c)].dmaState = "Dma_Start" /\ disk[Selected(c)].status \cap {"BSY", "DRQ"} = {"DRQ"}
    /\ WriteBMICommand(c, TRUE)
    /\ UNCHANGED <<mem, received, pci, drain, commands, disturbances, busyReset>>

Stop(c) ==
    /\ Reaches(4) /\ chan[c].start /\ Disturb
    /\ WriteBMICommand(c, FALSE)
    /\ UNCHANGED <<mem, received, pci, drain, commands, busyReset>>

ReadStatus(c) ==
    /\ Reaches(2 * c)
    /\ Becomes(Selected(c), Update(disk[Selected(c)], "STAT_READ"), chan)
    /\ UNCHANGED <<mem, received, pci, drain, commands, disturbances, busyReset>>

\* A read of the data register, of 16 or of 32 bits.
ReadData(c, words) ==
    LET k == disk[Selected(c)]
        k1 == Update(k, "DATA_READ_SHORT")
    IN  /\ Reaches(2 * c) /\ k.devState = "Transfer_Data_In" /\ words <= k.drqBytesLeft
        /\ received' = [received EXCEPT ![c] = @ \o IF words = 1 THEN <<DataWord(k)>>
                                                   ELSE <<DataWord(k), DataWord(k1)>>]
        /\ Becomes(Selected(c), IF words = 1 THEN k1 ELSE Update(k1, "DATA_READ_SHORT"), chan)
        /\ UNCHANGED <<mem, pci, drain, commands, disturbances, busyReset>>

\* The driver writes the words of the sectors HostSector(0), HostSector(1), ...
NextWord(k) ==
    LET i == k.cmdBytes - k.cmdBytesLeft
    IN  HostSector(i \div SectorWords)[(i % SectorWords) + 1]

WriteData(c, words) ==
    LET k == disk[Selected(c)]
        Write(r) == UpdateState(r, "DATA_WRITE_SHORT", TRUE, NextWord(r))
    IN  /\ Reaches(2 * c) /\ k.devState = "Transfer_Data_Out" /\ words <= k.drqBytesLeft
        /\ Becomes(Selected(c), IF words = 1 THEN Write(k) ELSE Write(Write(k)), chan)
        /\ UNCHANGED <<mem, received, pci, drain, commands, disturbances, busyReset>>

\* A write of the control register; the reset bit may be set at any moment.
Control(c, srst, nIEN) ==
    /\ Reaches(2 * c + 1)
    /\ LET ends == disk[Selected(c)].devState = "Device_Srst" /\ ~srst
       IN  IF ends THEN UNCHANGED disturbances ELSE Disturb
    /\ Becomes(Selected(c), WriteControl(disk[Selected(c)], srst, nIEN), chan)
    /\ busyReset' = (busyReset \/ (srst /\ ~Quiet(c)))
    /\ UNCHANGED <<mem, received, pci, drain, commands>>

Driver(c) ==
    \/ \E bit \in {0, 1} : Select(c, bit)
    \/ \E cmd \in Workload[c], t \in Transfers : Command(c, cmd, t[1], t[2])
    \/ Start(c) \/ Stop(c) \/ ReadStatus(c)
    \/ \E words \in {1, 2} : ReadData(c, words) \/ WriteData(c, words)
    \/ \E srst, nIEN \in BOOLEAN : Control(c, srst, nIEN)

---------------------------------------------------------------------------
(* Events of the disks, the DMA port, drains and checkpoints.              *)

DmaPending == \E d \in Disks : disk[d].flight # {}

ProcessEvent(d) ==
    /\ \E e \in disk[d].events :
         Becomes(d, Process(disk[d], e, DmaPending \/ drain # "Running", mem[d[1]].data), chan)
    /\ UNCHANGED <<mem, received, pci, drain, commands, disturbances, busyReset>>

PrdEnd(prds, i) == IF i = 0 THEN 0 ELSE prds[i]

PrdEntry(prds, i) ==
    IF i \notin DOMAIN prds THEN ZeroPrd
    ELSE [base |-> SingleDmaSize + PrdEnd(prds, i - 1),
          n |-> PrdEnd(prds, i) - PrdEnd(prds, i - 1), eot |-> i = Len(prds)]

\* The DMA port completes an action: PARDg5VDmaPort, module DmaPort.
CompleteDma(d) ==
    \E f \in disk[d].flight :
      LET k == [disk[d] EXCEPT !.flight = @ \ {f},
                  !.prd = IF f.event = "PrdRead" THEN PrdEntry(mem[d[1]].prds, f.addr) ELSE @]
      IN  /\ Becomes(d, Schedule(k, f.event), chan)
          /\ mem' = IF f.event = "WriteWait" THEN [mem EXCEPT ![d[1]].data[f.addr] = f.data]
                    ELSE mem
          /\ drain' = IF drain = "Draining" /\ disk[d].flight = {f} THEN "Drained" ELSE drain
          /\ UNCHANGED <<received, pci, commands, disturbances, busyReset>>

Drain ==
    /\ ~panicked /\ drain = "Running" /\ Disturb
    /\ drain' = IF DmaPending THEN "Draining" ELSE "Drained"
    /\ UNCHANGED <<disk, chan, mem, received, pci, commands, panicked, busyReset>>

\* The simulation goes on, or a later one starts from the checkpoint.
Resume ==
    /\ ~panicked /\ drain = "Drained" /\ drain' = "Running"
    /\ UNCHANGED <<disk, chan, mem, received, pci, commands, disturbances, panicked, busyReset>>

\* Configuration space, BARAddrs and the channels' addresses come back.
RestoredPci(p) == [command |-> p.command, bar |-> p.bar, addr |-> p.addr, window |-> p.window]

Restore ==
    /\ ~panicked /\ drain = "Drained" /\ drain' = "Running"
    /\ disk' = [d \in Disks |-> [Restored(disk[d]) EXCEPT !.out = {}]]
    /\ panicked' = (panicked \/ \E d \in Disks : "panic" \in Restored(disk[d]).out)
    /\ pci' = RestoredPci(pci)
    /\ UNCHANGED <<chan, mem, received, commands, disturbances, busyReset>>

Next ==
    \/ ConfigBar \/ ConfigCommand
    \/ \E c \in Channels : Driver(c)
    \/ \E d \in Disks : ProcessEvent(d) \/ CompleteDma(d)
    \/ Drain \/ Resume \/ Restore

Spec == Init /\ [][Next]_vars

\* gem5 processes every scheduled event, memory answers every DMA packet, and
\* a drained simulation goes on.
Fairness ==
    /\ \A d \in Disks : WF_vars(ProcessEvent(d) \/ CompleteDma(d))
    /\ WF_vars(Resume)

LiveSpec == Spec /\ Fairness

---------------------------------------------------------------------------
(* Properties.                                                             *)

\* As long as the driver resets a channel only when its disks are quiet, none of
\* the disk's panics and assertions fires, whatever the order of the driver's
\* accesses, the disk's events, aborts, drains and checkpoints: no interrupt is
\* posted twice or cleared when none is pending, no event is scheduled twice,
\* and the DMA engine's states agree (ide_disk.cc).
NoPanic == panicked => busyReset

\* The same without the condition: the states that doDmaTransfer finds are never
\* "inconsistent" (its panic).  Does not hold: writeControl forces the device
\* into reset whatever it is doing, and reset() deschedules no event.
NeverPanics == ~panicked

\* A command that completes has moved exactly the sectors it named, in order,
\* between the image and the driver's buffer, also when the PRD table has
\* several entries, when the transfer backed off, and when it was checkpointed
\* in the middle without its chunk generator (dmaReadDone, dmaWriteDone,
\* updateState, unserialize), unless a busy channel was reset.
Moved(k, m, words) ==
    /\ k.cmd = "READDMA" => \A i \in 0 .. k.sec - 1 : m[SingleDmaSize + i] = k.image[k.lba + i]
    /\ k.cmd \in {"WRITEDMA", "WRITE"} => \A i \in 0 .. k.sec - 1 : k.image[k.lba + i] = HostSector(i)
    /\ k.cmd = "READ" => words = FlattenSeq([i \in 1..k.sec |-> k.image[k.lba + i - 1]])
    /\ k.cmd = "IDENTIFY" => words = IdentifyBlock

TransfersComplete ==
    [][~busyReset' => \A d \in Disks :
         /\ disk[d].devState \in {"Transfer_Data_Dma", "Transfer_Data_In", "Transfer_Data_Out"}
         /\ disk'[d].devState \in {"Device_Idle_S", "Device_Idle_SI"}
         => Moved(disk'[d], mem'[d[1]].data, received'[d[1]])]_vars

\* An interrupt is pending exactly in the states that wait for the driver to
\* acknowledge one; a reset may find one pending and forgets it.  It holds as
\* long as no busy channel was reset.
IntrTracksState ==
    ~busyReset => \A d \in Disks :
      LET waiting == {"Device_Idle_SI", "Data_Ready_INTRQ_In", "Data_Ready_INTRQ_Out"}
      IN  /\ disk[d].devState \in waiting => disk[d].intrPending
          /\ disk[d].intrPending => disk[d].devState \in waiting \cup {"Device_Srst"}

\* A transfer in progress, aborted or not, has exactly one step to come: one
\* scheduled event or one action at the DMA port; and the start bit is set
\* for a transfer of the selected disk that nobody stopped ("these are all
\* mutually exclusive", ide_disk.cc:1071).  It holds as long as no busy channel
\* was reset.
DmaHasOneStep == ~busyReset =>
    /\ \A d \in Disks :
         Cardinality(disk[d].events) + Cardinality(disk[d].flight)
           = IF disk[d].dmaState = "Dma_Transfer" THEN 1 ELSE 0
    /\ \A c \in Channels :
         LET k == disk[Selected(c)]
         IN  /\ chan[c].start = chan[c].active
             /\ chan[c].start <=> k.dmaState = "Dma_Transfer" /\ ~k.dmaAborted

\* A transfer that was started, and one that was stopped, comes to an end,
\* although the disks share one DMA port that they poll, unless a busy channel
\* was reset.
DmaEnds ==
    \A d \in Disks :
      disk[d].dmaState = "Dma_Transfer" ~> disk[d].dmaState = "Dma_Idle" \/ busyReset
=============================================================================
