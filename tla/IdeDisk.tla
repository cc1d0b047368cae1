------------------------------ MODULE IdeDisk ------------------------------
(***************************************************************************)
(* PARDg5VIdeDisk (src/src/dev/pard/ide_disk.cc): the ATA state machine of *)
(* one disk and its DMA engine, as operators on a record that holds the    *)
(* disk's fields.  IdeCtrl puts disks on channels and runs them.           *)
(*                                                                         *)
(* Sizes are in words (uint16_t); a sector has SectorWords of them and a   *)
(* DMA page one sector, so that a PRD entry of n sectors is n chunks.      *)
(* Call-backs into the controller, and a panic or a failed assertion, are  *)
(* collected in the field out, which IdeCtrl empties after every call.     *)
(***************************************************************************)
EXTENDS Integers, Sequences, FiniteSets

CONSTANTS
    SectorWords,    \* SectorSize / sizeof(uint16_t)
    NumSectors,     \* sectors of an image
    SingleDmaSize   \* sectors of a PRD entry whose byteCount is 0

ASSUME SectorAssumption ==
    SectorWords \in Nat \ {0} /\ NumSectors \in Nat /\ SingleDmaSize \in Nat

NoCG == -1          \* dmaReadCG, dmaWriteCG = NULL
Zero == 0           \* what memset leaves in the data buffer
\* A distinct value for each word of each sector of each source of data.
Word(source, sector, j) == 100 * source + 10 * sector + j

BufSize == 2 * SingleDmaSize        \* MAX_DMA_SIZE
ZeroSector == [i \in 1..SectorWords |-> Zero]
ZeroBuffer == [i \in 1..BufSize |-> ZeroSector]
\* memset: byteCount 0 reads as MAX_SINGLE_DMA_SIZE, at address 0.
ZeroPrd == [base |-> 0, n |-> SingleDmaSize, eot |-> FALSE]

\* One representative of the non-data commands, and the data commands.
Commands == {"RECAL", "IDENTIFY", "READ", "WRITE", "READDMA", "WRITEDMA"}
DmaCommands == {"READDMA", "WRITEDMA"}

\* The fields reset() sets; nIENBit, the image, the chunk generators and the
\* events that are scheduled are not among them.
BugReset(k, id) ==
    [k EXCEPT !.buf = ZeroBuffer, !.dmaState = "Dma_Idle", !.status = {}, !.dmaAborted = FALSE,
              !.devState = IF id = 0 THEN "Device_Idle_S" ELSE "Device_Idle_NS"]
Reset(k, id) ==
    [k EXCEPT !.buf = ZeroBuffer, !.cmd = "none", !.sec = 0, !.lba = 0, !.prd = ZeroPrd,
              !.prdAddr = 0, !.curSector = 0, !.cmdBytes = 0, !.cmdBytesLeft = 0,
              !.drqBytesLeft = 0, !.dmaRead = FALSE, !.intrPending = FALSE,
              !.dmaAborted = FALSE, !.dmaState = "Dma_Idle", !.status = {},
              !.devState = IF id = 0 THEN "Device_Idle_S" ELSE "Device_Idle_NS"]

Panic(k) == [k EXCEPT !.out = @ \cup {"panic"}]
Require(p, k) == IF p THEN k ELSE Panic(k)
Schedule(k, e) == [Require(e \notin k.events, k) EXCEPT !.events = @ \cup {e}]
SetComplete(k) == [k EXCEPT !.status = {"SEEK"}]

IntrPost(k) ==
    [Require(~k.intrPending, k) EXCEPT !.intrPending = TRUE, !.out = @ \cup {"intrPost"}]
BugIntrClear(k) == k
IntrClear(k) ==
    [Require(k.intrPending, k) EXCEPT !.intrPending = FALSE]

\* A command ends: with an interrupt unless the driver masked it.
Idle(k) ==
    IF k.nIEN THEN [k EXCEPT !.devState = "Device_Idle_S"]
              ELSE IntrPost([k EXCEPT !.devState = "Device_Idle_SI"])

---------------------------------------------------------------------------
(* Programmed I/O.                                                         *)

IdentifyBlock == [j \in 1..SectorWords |-> Word(1, 0, j)]

PrepareDataIn(k) ==
    LET b == IF k.cmd = "IDENTIFY" THEN [k EXCEPT !.buf[1] = IdentifyBlock]
             ELSE IF k.curSector \notin DOMAIN k.image THEN Panic(k)
             ELSE [k EXCEPT !.buf[1] = k.image[k.curSector], !.curSector = @ + 1]
        r == [b EXCEPT !.status = (@ \ {"BSY"}) \cup {"DRQ"}, !.drqBytesLeft = SectorWords]
    IN  IF k.nIEN THEN [r EXCEPT !.devState = "Transfer_Data_In"]
                  ELSE IntrPost([r EXCEPT !.devState = "Data_Ready_INTRQ_In"])

\* The word that cmdReg.data holds.
DataWord(k) == k.buf[1][SectorWords - k.drqBytesLeft + 1]

TransferDataIn(k) ==
    LET r == [k EXCEPT !.drqBytesLeft = @ - 1, !.cmdBytesLeft = @ - 1]
    IN  IF r.drqBytesLeft # 0 THEN r
        ELSE IF r.cmdBytesLeft = 0
             THEN [SetComplete(r) EXCEPT !.devState = "Device_Idle_S"]
             ELSE PrepareDataIn([r EXCEPT !.devState = "Prepare_Data_In",
                                          !.status = (@ \ {"DRQ"}) \cup {"BSY"}])

PrepareDataOut(k) ==
    LET r == [k EXCEPT !.status = (@ \ {"BSY"}) \cup {"DRQ"},
                       !.buf = ZeroBuffer,
                       !.drqBytesLeft = SectorWords]
    IN  IF k.cmdBytesLeft = 0 THEN Idle(SetComplete(k))
        ELSE IF k.cmdBytesLeft = k.cmdBytes \/ k.nIEN
             THEN [r EXCEPT !.devState = "Transfer_Data_Out"]
             ELSE IntrPost([r EXCEPT !.devState = "Data_Ready_INTRQ_Out"])

WriteDisk(k, data) ==
    IF k.curSector \notin DOMAIN k.image THEN Panic(k)
    ELSE [k EXCEPT !.image[k.curSector] = data, !.curSector = @ + 1]

TransferDataOut(k, w) ==
    LET r == [k EXCEPT !.buf[1][SectorWords - k.drqBytesLeft + 1] = w,
                       !.drqBytesLeft = @ - 1, !.cmdBytesLeft = @ - 1]
    IN  IF r.drqBytesLeft # 0 THEN r
        ELSE PrepareDataOut([WriteDisk(r, r.buf[1])
                EXCEPT !.devState = "Prepare_Data_Out",
                       !.status = (@ \ {"DRQ"}) \cup {"BSY", "SEEK"}])

---------------------------------------------------------------------------
(* Commands and the state machine.                                         *)

StartCommand(k) ==
    LET size == IF k.cmd = "IDENTIFY" THEN SectorWords ELSE k.sec * SectorWords
        r == [k EXCEPT !.status = (@ \ {"DRQ"}) \cup {"BSY"}, !.dmaRead = k.cmd = "WRITEDMA"]
        d == [r EXCEPT !.cmdBytes = size, !.cmdBytesLeft = size,
                       !.curSector = IF k.cmd = "IDENTIFY" THEN @ ELSE k.lba]
    IN  CASE k.cmd = "RECAL" -> Idle(SetComplete(r))
          [] k.cmd \in {"IDENTIFY", "READ"} -> PrepareDataIn(d)
          [] k.cmd = "WRITE" -> PrepareDataOut(d)
          [] k.cmd \in DmaCommands ->
               [Require(k.dmaState = "Dma_Idle", d)
                  EXCEPT !.status = (@ \ {"BSY"}) \cup {"DRQ"},
                         !.devState = "Transfer_Data_Dma", !.dmaState = "Dma_Start"]

\* ctrl->setDmaComplete(this), then the end of the command.
DmaComplete(k) == Idle([SetComplete(k) EXCEPT !.out = @ \cup {"dmaComplete"}])

\* What updateState does for an action, in each state.  selected is
\* isDEVSelect(); word is the data register a write has filled.  The states
\* Command_Execution and Prepare_* are left in the call that enters them.
UpdateState(k, action, selected, word) ==
    CASE k.devState = "Device_Srst" /\ action = "SRST_SET" ->
           [k EXCEPT !.status = @ \cup {"BSY"}]
      [] k.devState = "Device_Srst" /\ action = "SRST_CLEAR" ->
           Reset(k, k.devID)
      [] k.devState = "Device_Idle_S" /\ action = "SELECT_WRITE" /\ ~selected ->
           [k EXCEPT !.devState = "Device_Idle_NS"]
      [] k.devState = "Device_Idle_S" /\ action = "CMD_WRITE" ->
           StartCommand(k)
      [] k.devState = "Device_Idle_SI" /\ action = "SELECT_WRITE" /\ ~selected ->
           IntrClear([k EXCEPT !.devState = "Device_Idle_NS"])
      [] k.devState = "Device_Idle_SI" /\ (action = "STAT_READ" \/ k.nIEN)
            /\ ~(action = "SELECT_WRITE" /\ ~selected) ->
           IntrClear([k EXCEPT !.devState = "Device_Idle_S"])
      [] k.devState = "Device_Idle_SI" /\ action = "CMD_WRITE" /\ ~k.nIEN ->
           StartCommand(IntrClear(k))
      [] k.devState = "Device_Idle_NS" /\ action = "SELECT_WRITE" /\ selected ->
           IF k.intrPending /\ ~k.nIEN
           THEN IntrPost([k EXCEPT !.devState = "Device_Idle_SI"])
           ELSE [k EXCEPT !.devState = "Device_Idle_S"]
      [] k.devState = "Data_Ready_INTRQ_In" /\ action = "STAT_READ" ->
           IntrClear([k EXCEPT !.devState = "Transfer_Data_In"])
      [] k.devState = "Transfer_Data_In" /\ action = "DATA_READ_SHORT" ->
           TransferDataIn(k)
      [] k.devState = "Data_Ready_INTRQ_Out" /\ action = "STAT_READ" ->
           IntrClear([k EXCEPT !.devState = "Transfer_Data_Out"])
      [] k.devState = "Transfer_Data_Out" /\ action = "DATA_WRITE_SHORT" ->
           TransferDataOut(k, word)
      [] k.devState = "Transfer_Data_Dma" /\ action = "CMD_ERROR" ->
           [k EXCEPT !.dmaAborted = TRUE, !.devState = "Device_Dma_Abort"]
      [] k.devState = "Transfer_Data_Dma" /\ action = "DMA_DONE" ->
           DmaComplete(k)
      [] k.devState = "Device_Dma_Abort" /\ action = "CMD_ERROR" ->
           DmaComplete([k EXCEPT !.dmaAborted = FALSE, !.dmaState = "Dma_Idle"])
      [] OTHER -> k

Update(k, action) == UpdateState(k, action, TRUE, Zero)

---------------------------------------------------------------------------
(* The DMA engine.  busy: the controller's DMA port has an action pending, *)
(* or the controller is draining.  flight holds the actions of this disk   *)
(* that the port has not completed.                                        *)

\* An action at the DMA port, with the event that its completion schedules.
Dma(event, addr, data) == [event |-> event, addr |-> addr, data |-> data]

StartDma(k) ==
    LET r == Require(k.dmaState = "Dma_Start" /\ k.devState = "Transfer_Data_Dma", k)
    IN  Schedule([r EXCEPT !.prdAddr = 1, !.dmaState = "Dma_Transfer"], "Transfer")

BugAbortDma(k) == DmaComplete([k EXCEPT !.dmaState = "Dma_Idle"])
AbortDma(k) ==
    Update(Require(k.dmaState # "Dma_Idle" /\ k.devState = "Transfer_Data_Dma", k), "CMD_ERROR")

DoDmaTransfer(k, busy) ==
    IF k.dmaAborted THEN Update(k, "CMD_ERROR")
    ELSE IF k.dmaState # "Dma_Transfer" \/ k.devState # "Transfer_Data_Dma" THEN Panic(k)
    ELSE IF busy THEN Schedule(k, "Transfer")
    ELSE [k EXCEPT !.flight = @ \cup {Dma("PrdRead", k.prdAddr, ZeroSector)}]

\* The end of a PRD entry: of the transfer, or on to the next entry.
EndOfPrd(k, busy) ==
    IF k.prd.eot
    THEN Update([Require(k.cmdBytesLeft = 0, k) EXCEPT !.dmaState = "Dma_Idle"], "DMA_DONE")
    ELSE DoDmaTransfer(k, busy)

\* doDmaDataRead waits for the disk; doDmaDataWrite reads the sectors of the
\* entry into the buffer first.
DmaPrdReadDone(k) ==
    LET r == [k EXCEPT !.prdAddr = @ + 1]
        sectors == [i \in 1..BufSize |-> IF i <= k.prd.n /\ k.curSector + i - 1 \in DOMAIN k.image
                                         THEN k.image[k.curSector + i - 1] ELSE ZeroSector]
    IN  IF k.dmaAborted THEN Update(k, "CMD_ERROR")
        ELSE IF k.dmaRead THEN Schedule(r, "ReadWait")
        ELSE Schedule([Require(k.curSector + k.prd.n <= NumSectors, r)
                EXCEPT !.buf = sectors, !.curSector = @ + k.prd.n,
                       !.cmdBytesLeft = @ - k.prd.n * SectorWords], "WriteWait")

\* writeDisk for each sector of the entry.
DmaReadDone(k, busy) ==
    LET n == k.prd.n
        r == [k EXCEPT !.image = [s \in DOMAIN @ |->
                                    IF s \in k.curSector .. k.curSector + n - 1
                                    THEN k.buf[s - k.curSector + 1] ELSE @[s]],
                       !.curSector = @ + n, !.cmdBytesLeft = @ - n * SectorWords]
    IN  EndOfPrd(Require(k.curSector + n <= NumSectors, r), busy)

\* One chunk of the entry goes to the DMA port, from or to mem[base + i]; when
\* all have, the entry is done.  mem is what memory holds at an address.
DoDmaRead(k, busy, mem) ==
    LET r == IF k.cg = NoCG
             THEN [k EXCEPT !.cg = 0, !.buf = ZeroBuffer] ELSE k
    IN  IF k.dmaAborted THEN Update([k EXCEPT !.cg = NoCG], "CMD_ERROR")
        ELSE IF busy THEN Schedule(r, "ReadWait")
        ELSE IF r.cg < r.prd.n
             THEN [r EXCEPT !.cg = @ + 1, !.buf[r.cg + 1] = mem[r.prd.base + r.cg],
                            !.flight = @ \cup {Dma("ReadWait", r.prd.base + r.cg, ZeroSector)}]
             ELSE DmaReadDone([r EXCEPT !.cg = NoCG], busy)

BugDoDmaWrite(k, busy) ==
    LET r == IF k.cg = NoCG THEN [k EXCEPT !.cg = 0] ELSE k
    IN  IF k.dmaAborted THEN Update([k EXCEPT !.cg = NoCG], "CMD_ERROR")
        ELSE IF busy THEN r
        ELSE IF r.cg < r.prd.n
             THEN [r EXCEPT !.cg = @ + 1,
                            !.flight = @ \cup {Dma("WriteWait", r.prd.base + r.cg, r.buf[r.cg + 1])}]
             ELSE EndOfPrd([r EXCEPT !.cg = NoCG], busy)
DoDmaWrite(k, busy) ==
    LET r == IF k.cg = NoCG THEN [k EXCEPT !.cg = 0] ELSE k
    IN  IF k.dmaAborted THEN Update([k EXCEPT !.cg = NoCG], "CMD_ERROR")
        ELSE IF busy THEN Schedule(r, "WriteWait")
        ELSE IF r.cg < r.prd.n
             THEN [r EXCEPT !.cg = @ + 1,
                            !.flight = @ \cup {Dma("WriteWait", r.prd.base + r.cg, r.buf[r.cg + 1])}]
             ELSE EndOfPrd([r EXCEPT !.cg = NoCG], busy)

\* The event e of the disk is processed.
Process(k, e, busy, mem) ==
    LET r == [k EXCEPT !.events = @ \ {e}]
    IN  CASE e = "Transfer" -> DoDmaTransfer(r, busy)
          [] e = "PrdRead" -> DmaPrdReadDone(r)
          [] e = "ReadWait" -> DoDmaRead(r, busy, mem)
          [] e = "WriteWait" -> DoDmaWrite(r, busy)

---------------------------------------------------------------------------
(* The device registers, control register and checkpoints.                 *)

\* The task file and then the command register are written.
WriteCommand(k, cmd, sec, lba) ==
    Update([k EXCEPT !.cmd = cmd, !.sec = sec, !.lba = lba], "CMD_WRITE")

WriteControl(k, srst, nIEN) ==
    LET r == IF srst THEN Update([k EXCEPT !.devState = "Device_Srst"], "SRST_SET")
             ELSE IF k.devState = "Device_Srst" THEN Update(k, "SRST_CLEAR") ELSE k
    IN  [r EXCEPT !.nIEN = nIEN]

\* serialize, and unserialize into a new disk: everything but the chunk
\* generator comes back, and the event that was scheduled is scheduled again.
BugRestored(k) == [k EXCEPT !.cg = NoCG, !.buf = ZeroBuffer]
Restored(k) == [Require(Cardinality(k.events) <= 1, k) EXCEPT !.cg = NoCG]

\* A new disk: nIENBit is not initialised.
NewDisks(id, image) ==
    { Reset([devID |-> id, image |-> image, nIEN |-> n, cg |-> NoCG, events |-> {},
             flight |-> {}, out |-> {}, buf |-> ZeroBuffer, cmd |-> "none", sec |-> 0,
             lba |-> 0, prd |-> ZeroPrd, prdAddr |-> 0, curSector |-> 0, cmdBytes |-> 0,
             cmdBytesLeft |-> 0, drqBytesLeft |-> 0, dmaRead |-> FALSE,
             intrPending |-> FALSE, dmaAborted |-> FALSE, dmaState |-> "Dma_Idle",
             status |-> {}, devState |-> "Device_Idle_NS"], id) : n \in BOOLEAN }
=============================================================================
