------------------------------ MODULE IOHubCP ------------------------------
(***************************************************************************)
(* The assignment of PCI devices to logical domains (LDoms): the parameter *)
(* table of the IO hub's control plane (iohub_cp.cc), the DSid tag that    *)
(* each device puts on its DMA, and the PRM's command line tool "ioh",     *)
(* which edits the table one row at a time.                                *)
(*                                                                         *)
(* An entry is eight bytes, so one access of the control plane network     *)
(* reads or writes a whole row (CPNetwork shows that an access is atomic). *)
(* The tool reads rows one after the other, decides, and writes one row:   *)
(* nothing keeps another run of the tool from writing in between.  Serial  *)
(* says whether the operator runs one tool at a time.                      *)
(***************************************************************************)
EXTENDS Integers

CONSTANTS
  Procs,        \* runs of the tool that may overlap
  Devices,      \* the PCI devices behind the hub
  DSids,        \* the LDoms' tags; 0 is the content of an unused row
  NRows,        \* param_table_entries
  RowIds,       \* number of row numbers the tool's address can express: 2^8
  Serial        \* TRUE: runs of the tool do not overlap

ASSUME ConstantAssumption ==
  /\ DSids \subseteq Nat /\ 0 \in DSids
  /\ NRows \in Nat \ {0}
  /\ RowIds \in Nat /\ NRows < RowIds
  /\ Serial \in BOOLEAN

VARIABLES
  paramTable,   \* the rows of the control plane's parameter table
  devDSid,      \* the tag of each device (PARDg5VDmaDevice::_DSid)
  pc, op,       \* what each run of the tool is doing, and for which request
  row, freeRow, \* its position in the table, the first free row it has seen
  param,        \* the row it is about to write back
  asked,        \* history: the <<DSid, device>> pairs assignments asked for
  granted,      \* history: the pairs that finished runs assigned, not released
  shared        \* history: devices with two guests since they last had none

tableVars == <<paramTable, devDSid>>
toolVars  == <<pc, op, row, freeRow, param>>
cpVars == <<paramTable, devDSid, pc, op, row, freeRow, param, asked, granted, shared>>

----------------------------------------------------------------------------

NoDSid == -1
Rows == 0 .. NRows - 1
ParamEntry == [valid : BOOLEAN, DSid : DSids, mask : SUBSET Devices]
EmptyEntry == [valid |-> FALSE, DSid |-> 0, mask |-> {}]
Request == [cmd : {"assign", "release"}, DSid : DSids, mask : SUBSET Devices]

NoRequest == [cmd |-> "release", DSid |-> 0, mask |-> {}]

CPInit ==
  /\ paramTable = [r \in Rows |-> EmptyEntry]
  /\ devDSid = [d \in Devices |-> NoDSid]
  /\ pc = [p \in Procs |-> "idle"]
  /\ op = [p \in Procs |-> NoRequest]
  /\ row = [p \in Procs |-> 0]
  /\ freeRow = [p \in Procs |-> -1]
  /\ param = [p \in Procs |-> EmptyEntry]
  /\ asked = {}
  /\ granted = {}
  /\ shared = {}

----------------------------------------------------------------------------
(* The control plane.                                                      *)

BugRetagNoAssign(old, new, d) ==
  IF new.valid /\ d \notin new.mask /\ d \in old.mask
    THEN NoDSid
    ELSE devDSid[d]

\* The tag of device d after row "old" has been replaced by row "new": only
\* the bits of the mask that changed count, and only in a valid row.
Retag(old, new, d) ==
  IF new.valid /\ (d \in new.mask) # (d \in old.mask)
    THEN IF d \in new.mask THEN new.DSid ELSE NoDSid
    ELSE devDSid[d]

UpdateTable(r, new) ==
  /\ paramTable' = [paramTable EXCEPT ![r] = new]
  /\ devDSid' = [d \in Devices |-> Retag(paramTable[r], new, d)]

\* The rows of the table that give device d to an LDom.
RowsOf(table, d) == {r \in Rows : table[r].valid /\ d \in table[r].mask}

\* The mask of the first valid row of the LDom: the devices it may see.
GetDeviceMask(dsid) ==
  {d \in Devices :
     \E r \in Rows :
       /\ paramTable[r].valid /\ paramTable[r].DSid = dsid
       /\ \A q \in Rows : q < r =>
            ~(paramTable[q].valid /\ paramTable[q].DSid = dsid)
       /\ d \in paramTable[r].mask}

\* A row number beyond the table reads as all ones, which the tool takes for
\* the end of the table.
IsEOF(r) == r >= NRows

\* The tool's next row number, cut to the width of the address field.
BugNextRow(r) == (r + 1) % NRows
NextRow(r) == IF r + 1 = RowIds THEN 0 ELSE r + 1

----------------------------------------------------------------------------
(* The tool.                                                               *)

\* The run ends, and its local variables with it.
Return(p) ==
  /\ pc' = [pc EXCEPT ![p] = "idle"]
  /\ op' = [op EXCEPT ![p] = NoRequest]
  /\ row' = [row EXCEPT ![p] = 0]
  /\ freeRow' = [freeRow EXCEPT ![p] = -1]
  /\ param' = [param EXCEPT ![p] = EmptyEntry]

\* ioh --assign or --release starts; assigning no known device is refused.
StartTool(p, o) ==
  /\ pc[p] = "idle"
  /\ Serial => \A q \in Procs : pc[q] = "idle"
  /\ o.cmd = "assign" => o.mask # {}
  /\ pc' = [pc EXCEPT ![p] = "scan"]
  /\ op' = [op EXCEPT ![p] = o]
  /\ row' = [row EXCEPT ![p] = 0]
  /\ freeRow' = [freeRow EXCEPT ![p] = -1]
  /\ asked' = IF o.cmd = "assign"
                THEN asked \cup ({o.DSid} \X o.mask)
                ELSE asked
  /\ UNCHANGED <<paramTable, devDSid, param, granted, shared>>

BugSelects(e, dsid) == e.valid /\ e.DSid = dsid /\ e.mask # {}
Selects(e, dsid) == e.valid /\ e.DSid = dsid

\* The LDom's row is found: it is the one to change.
ScanFound(p) ==
  /\ pc[p] = "scan" /\ ~IsEOF(row[p])
  /\ Selects(paramTable[row[p]], op[p].DSid)
  /\ pc' = [pc EXCEPT ![p] = "write"]
  /\ param' = [param EXCEPT ![p] = paramTable[row[p]]]
  /\ UNCHANGED <<paramTable, devDSid, op, row, freeRow, asked, granted, shared>>

\* Another row: remember the first free one (assign only), and go on.
ScanNext(p) ==
  /\ pc[p] = "scan" /\ ~IsEOF(row[p])
  /\ ~Selects(paramTable[row[p]], op[p].DSid)
  /\ row' = [row EXCEPT ![p] = NextRow(@)]
  /\ freeRow' = [freeRow EXCEPT ![p] =
                   IF /\ op[p].cmd = "assign"
                      /\ ~paramTable[row[p]].valid
                      /\ @ = -1
                     THEN row[p] ELSE @]
  /\ UNCHANGED <<paramTable, devDSid, pc, op, param, asked, granted, shared>>

\* The end of the table, and a free row for the new LDom.
ScanRegister(p) ==
  /\ pc[p] = "scan" /\ IsEOF(row[p])
  /\ op[p].cmd = "assign" /\ freeRow[p] # -1
  /\ pc' = [pc EXCEPT ![p] = "write"]
  /\ row' = [row EXCEPT ![p] = freeRow[p]]
  /\ param' = [param EXCEPT ![p] =
                 [valid |-> TRUE, DSid |-> op[p].DSid, mask |-> {}]]
  /\ UNCHANGED <<paramTable, devDSid, op, freeRow, asked, granted, shared>>

\* The end of the table: no free row (-ENOMEM), or no row to release (-ENODEV).
ScanFail(p) ==
  /\ pc[p] = "scan" /\ IsEOF(row[p])
  /\ op[p].cmd = "assign" => freeRow[p] = -1
  /\ Return(p)
  /\ UNCHANGED <<paramTable, devDSid, asked, granted, shared>>

\* The mask written back; releasing no known device releases all of them.
BugNewMask(o, mask) ==
  IF o.cmd = "assign" THEN mask \cup o.mask ELSE mask \cap o.mask
NewMask(o, mask) ==
  IF o.cmd = "assign" THEN mask \cup o.mask
  ELSE IF o.mask = {} THEN {}
  ELSE mask \ o.mask

\* The devices with two guests, once the table is as given.
NextShared(table) ==
  {d \in Devices : \/ \E r, q \in RowsOf(table, d) : r # q
                   \/ d \in shared /\ RowsOf(table, d) # {}}

\* What the LDoms hold once request o is done.
NextGranted(o) ==
  CASE o.cmd = "assign" -> granted \cup ({o.DSid} \X o.mask)
    [] o.cmd = "release" /\ o.mask = {} -> granted \ ({o.DSid} \X Devices)
    [] OTHER -> granted \ ({o.DSid} \X o.mask)

WriteRow(p) ==
  /\ pc[p] = "write"
  /\ UpdateTable(row[p], [param[p] EXCEPT !.mask = NewMask(op[p], @)])
  /\ granted' = NextGranted(op[p])
  /\ shared' = NextShared(paramTable')
  /\ Return(p)
  /\ UNCHANGED asked

ToolStep(p) == \/ ScanFound(p) \/ ScanNext(p) \/ ScanRegister(p)
               \/ ScanFail(p) \/ WriteRow(p)

CPNext == \E p \in Procs : (\E o \in Request : StartTool(p, o)) \/ ToolStep(p)

CPSpec == CPInit /\ [][CPNext]_cpVars

\* A run of the tool that has started is scheduled until it returns.
CPFairSpec == CPSpec /\ \A p \in Procs : WF_cpVars(ToolStep(p))

----------------------------------------------------------------------------
(* Properties.                                                             *)

CPTypeOK ==
  /\ paramTable \in [Rows -> ParamEntry]
  /\ devDSid \in [Devices -> DSids \cup {NoDSid}]
  /\ pc \in [Procs -> {"idle", "scan", "write"}]
  /\ op \in [Procs -> Request]
  /\ row \in [Procs -> 0 .. NRows]
  /\ freeRow \in [Procs -> Rows \cup {-1}]
  /\ param \in [Procs -> ParamEntry]
  /\ asked \subseteq DSids \X Devices
  /\ granted \subseteq DSids \X Devices
  /\ shared \subseteq Devices

\* However runs of the tool overlap, a device never carries the tag of an LDom
\* it was not assigned to by somebody, and an LDom never sees such a device
\* (iohub_cp.cc, updateTable and getDeviceMask; ioh_list.c, ioh_assign).
OnlyAsAsked ==
  /\ \A d \in Devices : devDSid[d] # NoDSid => <<devDSid[d], d>> \in asked
  /\ \A l \in DSids : \A d \in GetDeviceMask(l) : <<l, d>> \in asked

\* An LDom sees exactly the devices that finished runs of the tool assigned to it
\* and did not release since: ioh_assign registers "a new param entry", and both
\* commands "update" the mask of the row they select.  Holds when runs do not
\* overlap.  Does not hold when they do: a second run writes the row that the
\* first one chose, or a mask that it read before the first one wrote.
MaskAsGranted ==
  \A l \in DSids : GetDeviceMask(l) = {d \in Devices : <<l, d>> \in granted}

\* With one tool at a time an LDom has one row, so that the first one, which is
\* all that getDeviceMask and ioh_release look at, is the whole assignment.
OneRowPerLDom ==
  \A r, q \in Rows :
    /\ paramTable[r].valid /\ paramTable[q].valid
    /\ paramTable[r].DSid = paramTable[q].DSid
    => r = q

\* With one tool at a time a device that tags its DMA with an LDom is one that
\* this LDom sees: the tag, the row and the mask change together.
TaggedIsVisible ==
  \A d \in Devices :
    devDSid[d] # NoDSid => d \in GetDeviceMask(devDSid[d])

\* With one tool at a time, a device that has not been given to two LDoms at
\* once since it was last free is tagged with its LDom, and with none when it
\* is free: neither a tag nor a bit of the mask is left behind.
TagFollowsTable ==
  \A d \in Devices \ shared :
    /\ \A r \in RowsOf(paramTable, d) : devDSid[d] = paramTable[r].DSid
    /\ RowsOf(paramTable, d) = {} => devDSid[d] = NoDSid

\* Every run of the tool comes to the end of the table and returns, although
\* the end is recognised only by what a row beyond the table reads as.
ToolReturns == \A p \in Procs : pc[p] = "scan" ~> pc[p] = "idle"
=============================================================================
