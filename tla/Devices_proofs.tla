--------------------------- MODULE Devices_proofs ---------------------------
(***************************************************************************)
(* Proofs about the components a device's DMA goes through, for any values *)
(* of their constants: IOHubCP, which assigns devices to LDoms, DmaPort,   *)
(* which sends a device's DMA with its tag, and IdeCtrl, the disks.        *)
(***************************************************************************)
EXTENDS IOHubCP, DmaPort, IdeCtrl, FiniteSetTheorems, SequenceTheorems, TLAPS

----------------------------------------------------------------------------
(* The assignment of devices: type correctness.                             *)

\* The table, the tags and the tool's variables keep their types; a run of the
\* tool never looks further than the row after the last.
THEOREM AssignmentTypes == CPSpec => []CPTypeOK
<1> USE ConstantAssumption DEF Rows, NoDSid, NoRequest, EmptyEntry, ParamEntry,
        Request
<1>1. CPInit => CPTypeOK
  BY DEF CPInit, CPTypeOK
<1>2. CPTypeOK /\ [CPNext]_cpVars => CPTypeOK'
  <2> SUFFICES ASSUME CPTypeOK, [CPNext]_cpVars PROVE CPTypeOK'
    OBVIOUS
  <2>1. ASSUME NEW p \in Procs, NEW o \in Request, StartTool(p, o) PROVE CPTypeOK'
    <3>1. asked' \subseteq DSids \X Devices
      BY <2>1 DEF CPTypeOK, StartTool
    <3> QED BY <2>1, <3>1 DEF CPTypeOK, StartTool
  <2>2. ASSUME NEW p \in Procs, ScanFound(p) PROVE CPTypeOK'
    BY <2>2 DEF CPTypeOK, ScanFound, IsEOF
  <2>3. ASSUME NEW p \in Procs, ScanNext(p) PROVE CPTypeOK'
    <3>1. row[p] \in Rows /\ NextRow(row[p]) \in 0 .. NRows
      BY <2>3 DEF CPTypeOK, ScanNext, IsEOF, NextRow
    <3> QED BY <2>3, <3>1 DEF CPTypeOK, ScanNext
  <2>4. ASSUME NEW p \in Procs, ScanRegister(p) PROVE CPTypeOK'
    BY <2>4 DEF CPTypeOK, ScanRegister
  <2>5. ASSUME NEW p \in Procs, ScanFail(p) PROVE CPTypeOK'
    BY <2>5 DEF CPTypeOK, ScanFail, Return
  <2>6. ASSUME NEW p \in Procs, WriteRow(p) PROVE CPTypeOK'
    <3> DEFINE new == [param[p] EXCEPT !.mask = NewMask(op[p], @)]
    <3>1. new \in ParamEntry
      BY <2>6 DEF CPTypeOK, NewMask
    <3>2. devDSid' \in [Devices -> DSids \cup {NoDSid}]
      BY <2>6, <3>1 DEF CPTypeOK, WriteRow, UpdateTable, Retag
    <3>3. paramTable' \in [Rows -> ParamEntry]
      BY <2>6, <3>1 DEF CPTypeOK, WriteRow, UpdateTable
    <3>4. shared' \subseteq Devices
      BY <2>6 DEF WriteRow, NextShared
    <3>5. granted' \subseteq DSids \X Devices
      BY <2>6 DEF CPTypeOK, WriteRow, NextGranted
    <3> QED BY <2>6, <3>2, <3>3, <3>4, <3>5 DEF CPTypeOK, WriteRow, Return
  <2>7. CASE UNCHANGED cpVars
    BY <2>7 DEF CPTypeOK, cpVars
  <2> QED
    BY <2>1, <2>2, <2>3, <2>4, <2>5, <2>6, <2>7 DEF CPNext, ToolStep
<1> QED BY <1>1, <1>2, PTL DEF CPSpec

----------------------------------------------------------------------------
(* Tags and masks hold only what was asked for, however runs overlap.      *)

\* The strengthening: a row, a tag, and what a run is about to write are all
\* made of pairs that some assignment named.
AskedInv ==
  /\ \A d \in Devices : devDSid[d] # NoDSid => <<devDSid[d], d>> \in asked
  /\ \A r \in Rows : paramTable[r].valid =>
       \A d \in paramTable[r].mask : <<paramTable[r].DSid, d>> \in asked
  /\ \A p \in Procs : pc[p] # "idle" /\ op[p].cmd = "assign" =>
       \A d \in op[p].mask : <<op[p].DSid, d>> \in asked
  /\ \A p \in Procs : pc[p] = "write" =>
       /\ param[p].valid /\ param[p].DSid = op[p].DSid
       /\ \A d \in param[p].mask : <<op[p].DSid, d>> \in asked

\* What WriteRow writes, in terms of the fields.
LEMMA Written ==
  ASSUME CPTypeOK, NEW p \in Procs, WriteRow(p), param[p].valid,
         param[p].DSid = op[p].DSid, row[p] \in Rows
  PROVE  /\ paramTable'[row[p]].valid
         /\ paramTable'[row[p]].DSid = op[p].DSid
         /\ paramTable'[row[p]].mask = NewMask(op[p], param[p].mask)
         /\ \A r \in Rows : r # row[p] => paramTable'[r] = paramTable[r]
         /\ \A d \in Devices :
              devDSid'[d] = Retag(paramTable[row[p]], paramTable'[row[p]], d)
<1> DEFINE new == [param[p] EXCEPT !.mask = NewMask(op[p], @)]
<1>1. /\ new.valid = param[p].valid /\ new.DSid = param[p].DSid
      /\ new.mask = NewMask(op[p], param[p].mask)
  BY DEF CPTypeOK, ParamEntry
<1>2. paramTable' = [paramTable EXCEPT ![row[p]] = new]
  BY DEF WriteRow, UpdateTable
<1>3. devDSid' = [d \in Devices |-> Retag(paramTable[row[p]], new, d)]
  BY DEF WriteRow, UpdateTable
<1>4. paramTable'[row[p]] = new /\ \A r \in Rows : r # row[p] => paramTable'[r] = paramTable[r]
  BY <1>2 DEF CPTypeOK
<1> QED BY <1>1, <1>3, <1>4

\* A run that has chosen a row has chosen one of the table.
RowChosen == \A p \in Procs : pc[p] = "write" => row[p] \in Rows

\* It holds in every reachable state.
LEMMA RowChosenInv == CPSpec => []RowChosen
<1> USE ConstantAssumption DEF Rows
<1>1. CPInit => RowChosen
  BY DEF CPInit, RowChosen
<1>2. CPTypeOK /\ RowChosen /\ [CPNext]_cpVars => RowChosen'
  <2> SUFFICES ASSUME CPTypeOK, RowChosen, [CPNext]_cpVars PROVE RowChosen'
    OBVIOUS
  <2> USE DEF RowChosen, CPTypeOK
  <2>1. ASSUME NEW p \in Procs, NEW o \in Request, StartTool(p, o) PROVE RowChosen'
    BY <2>1 DEF StartTool
  <2>2. ASSUME NEW p \in Procs, ScanFound(p) PROVE RowChosen'
    BY <2>2 DEF ScanFound, IsEOF
  <2>3. ASSUME NEW p \in Procs, ScanNext(p) PROVE RowChosen'
    BY <2>3 DEF ScanNext
  <2>4. ASSUME NEW p \in Procs, ScanRegister(p) PROVE RowChosen'
    BY <2>4 DEF ScanRegister
  <2>5. ASSUME NEW p \in Procs, ScanFail(p) PROVE RowChosen'
    BY <2>5 DEF ScanFail, Return
  <2>6. ASSUME NEW p \in Procs, WriteRow(p) PROVE RowChosen'
    BY <2>6 DEF WriteRow, Return
  <2>7. CASE UNCHANGED cpVars
    BY <2>7 DEF cpVars
  <2> QED
    BY <2>1, <2>2, <2>3, <2>4, <2>5, <2>6, <2>7 DEF CPNext, ToolStep
<1> QED BY <1>1, <1>2, AssignmentTypes, PTL DEF CPSpec

\* It holds in every reachable state.
LEMMA AskedInvariant == CPSpec => []AskedInv
<1>1. CPInit => AskedInv
  BY DEF CPInit, AskedInv, EmptyEntry
<1>2. CPTypeOK /\ RowChosen /\ AskedInv /\ [CPNext]_cpVars => AskedInv'
  <2> SUFFICES ASSUME CPTypeOK, RowChosen, AskedInv, [CPNext]_cpVars PROVE AskedInv'
    OBVIOUS
  <2>1. ASSUME NEW p \in Procs, NEW o \in Request, StartTool(p, o) PROVE AskedInv'
    <3>1. asked \subseteq asked'
      BY <2>1 DEF StartTool
    <3>2. o.cmd = "assign" => \A d \in o.mask : <<o.DSid, d>> \in asked'
      BY <2>1 DEF StartTool
    <3>3. \A q \in Procs : pc'[q] = "write" => q # p /\ pc[q] = "write"
      BY <2>1 DEF StartTool, CPTypeOK
    <3>4. \A q \in Procs : op'[q] = IF q = p THEN o ELSE op[q]
      BY <2>1 DEF StartTool, CPTypeOK
    <3>5. \A q \in Procs : q # p => pc'[q] = pc[q]
      BY <2>1 DEF StartTool, CPTypeOK
    <3>6. UNCHANGED <<paramTable, devDSid, param>>
      BY <2>1 DEF StartTool
    <3> QED BY <3>1, <3>2, <3>3, <3>4, <3>5, <3>6 DEF AskedInv
  <2>2. ASSUME NEW p \in Procs, ScanFound(p) PROVE AskedInv'
    BY <2>2, ConstantAssumption DEF AskedInv, ScanFound, CPTypeOK, Selects, IsEOF, Rows
  <2>3. ASSUME NEW p \in Procs, ScanNext(p) PROVE AskedInv'
    BY <2>3 DEF AskedInv, ScanNext
  <2>4. ASSUME NEW p \in Procs, ScanRegister(p) PROVE AskedInv'
    BY <2>4 DEF AskedInv, ScanRegister, CPTypeOK
  <2>5. ASSUME NEW p \in Procs, ScanFail(p) PROVE AskedInv'
    BY <2>5 DEF AskedInv, ScanFail, Return, CPTypeOK
  <2>6. ASSUME NEW p \in Procs, WriteRow(p) PROVE AskedInv'
    <3> DEFINE s == row[p]
    <3>1. /\ pc[p] = "write" /\ s \in Rows /\ param[p].valid
          /\ param[p].DSid = op[p].DSid
      BY <2>6 DEF AskedInv, RowChosen, WriteRow
    <3>2. \A d \in NewMask(op[p], param[p].mask) : <<op[p].DSid, d>> \in asked
      BY <3>1 DEF AskedInv, NewMask, CPTypeOK, Request
    <3>3. /\ paramTable'[s].valid /\ paramTable'[s].DSid = op[p].DSid
          /\ paramTable'[s].mask = NewMask(op[p], param[p].mask)
          /\ \A r \in Rows : r # s => paramTable'[r] = paramTable[r]
          /\ \A d \in Devices : devDSid'[d] = Retag(paramTable[s], paramTable'[s], d)
      BY <2>6, <3>1, Written
    <3>4. asked' = asked
      BY <2>6 DEF WriteRow
    <3>5. \A d \in Devices : devDSid'[d] # NoDSid => <<devDSid'[d], d>> \in asked'
      BY <3>2, <3>3, <3>4 DEF AskedInv, Retag
    <3>6. \A r \in Rows : paramTable'[r].valid =>
            \A d \in paramTable'[r].mask : <<paramTable'[r].DSid, d>> \in asked'
      BY <3>2, <3>3, <3>4 DEF AskedInv
    <3>7. \A q \in Procs : pc'[q] # "idle" =>
            q # p /\ pc'[q] = pc[q] /\ op'[q] = op[q] /\ param'[q] = param[q]
      BY <2>6 DEF WriteRow, Return, CPTypeOK
    <3> QED BY <3>4, <3>5, <3>6, <3>7 DEF AskedInv
  <2>7. CASE UNCHANGED cpVars
    BY <2>7 DEF AskedInv, cpVars
  <2> QED
    BY <2>1, <2>2, <2>3, <2>4, <2>5, <2>6, <2>7 DEF CPNext, ToolStep
<1> QED BY <1>1, <1>2, AssignmentTypes, RowChosenInv, PTL DEF CPSpec

\* However many runs of the tool overlap, a device is tagged with, and visible
\* to, only LDoms that it was assigned to by some run.
THEOREM Asked == CPSpec => []OnlyAsAsked
<1>1. AskedInv => OnlyAsAsked
  BY DEF AskedInv, OnlyAsAsked, GetDeviceMask
<1> QED BY <1>1, AskedInvariant, PTL

----------------------------------------------------------------------------
(* One tool at a time.                                                     *)

\* A free row has an empty mask, so that registering an LDom in it compares
\* the new mask with the empty one.
FreeRowsEmpty == \A r \in Rows : ~paramTable[r].valid => paramTable[r].mask = {}

OneTool == \A p, q \in Procs : pc[p] # "idle" /\ pc[q] # "idle" => p = q

\* No row the run has passed belongs to its LDom, and the free row it remembers
\* is free.
Scanned ==
  \A p \in Procs : pc[p] = "scan" =>
    /\ \A r \in Rows : r < row[p] => ~Selects(paramTable[r], op[p].DSid)
    /\ freeRow[p] # -1 => ~paramTable[freeRow[p]].valid

\* The row a run is about to write is its LDom's only row or a free one, and
\* has not changed since the run read it.
Chosen ==
  \A p \in Procs : pc[p] = "write" =>
    /\ row[p] \in Rows
    /\ param[p].valid /\ param[p].DSid = op[p].DSid
    /\ param[p].mask = paramTable[row[p]].mask
    /\ paramTable[row[p]].valid => paramTable[row[p]].DSid = op[p].DSid
    /\ \A r \in Rows : Selects(paramTable[r], op[p].DSid) => r = row[p]

\* A tag is backed by a row.
Backed ==
  \A d \in Devices : devDSid[d] # NoDSid =>
    \E r \in RowsOf(paramTable, d) : paramTable[r].DSid = devDSid[d]

\* What was granted is what some row says.
RowsGranted ==
  \A l \in DSids, d \in Devices :
    <<l, d>> \in granted <=> \E r \in RowsOf(paramTable, d) : paramTable[r].DSid = l

SerialInv ==
  /\ OneTool /\ FreeRowsEmpty /\ Scanned /\ Chosen
  /\ OneRowPerLDom /\ Backed /\ TagFollowsTable /\ RowsGranted

\* The step that writes a row, on the tables and tags alone.
LEMMA WriteKeeps ==
  ASSUME Serial, CPTypeOK, SerialInv, NEW p \in Procs, WriteRow(p)
  PROVE  (FreeRowsEmpty /\ OneRowPerLDom /\ Backed /\ TagFollowsTable /\ RowsGranted)'
<1> DEFINE s == row[p]
<1>1. /\ s \in Rows /\ param[p].valid /\ param[p].DSid = op[p].DSid
      /\ param[p].mask = paramTable[s].mask
      /\ paramTable[s].valid => paramTable[s].DSid = op[p].DSid
      /\ \A r \in Rows : Selects(paramTable[r], op[p].DSid) => r = s
  BY DEF WriteRow, SerialInv, Chosen
<1>2. /\ paramTable'[s].valid /\ paramTable'[s].DSid = op[p].DSid
      /\ paramTable'[s].mask = NewMask(op[p], param[p].mask)
      /\ \A r \in Rows : r # s => paramTable'[r] = paramTable[r]
      /\ \A d \in Devices : devDSid'[d] = Retag(paramTable[s], paramTable'[s], d)
  BY <1>1, Written
<1>3. FreeRowsEmpty'
  BY <1>2 DEF FreeRowsEmpty, SerialInv
<1>4. OneRowPerLDom'
  BY <1>1, <1>2 DEF OneRowPerLDom, SerialInv, Selects
<1>5. Backed'
  <2> SUFFICES ASSUME NEW d \in Devices, devDSid'[d] # NoDSid
               PROVE  \E r \in RowsOf(paramTable', d) : paramTable'[r].DSid = devDSid'[d]
    BY DEF Backed
  <2>1. CASE d \in paramTable'[s].mask /\ d \notin paramTable[s].mask
    BY <1>1, <1>2, <2>1 DEF Retag, RowsOf
  <2>2. CASE d \notin paramTable'[s].mask /\ d \in paramTable[s].mask
    BY <1>2, <2>2 DEF Retag
  <2>3. CASE (d \in paramTable'[s].mask) = (d \in paramTable[s].mask)
    <3>1. devDSid'[d] = devDSid[d]
      BY <1>2, <2>3 DEF Retag
    <3>2. PICK r \in RowsOf(paramTable, d) : paramTable[r].DSid = devDSid[d]
      BY <3>1 DEF SerialInv, Backed
    <3>3. r \in RowsOf(paramTable', d) /\ paramTable'[r].DSid = devDSid'[d]
      BY <1>1, <1>2, <2>3, <3>1, <3>2 DEF RowsOf
    <3> QED BY <3>3
  <2> QED BY <2>1, <2>2, <2>3
<1>6. TagFollowsTable'
  <2> SUFFICES ASSUME NEW d \in Devices, d \notin shared'
               PROVE  /\ \A r \in RowsOf(paramTable', d) :
                           devDSid'[d] = paramTable'[r].DSid
                      /\ RowsOf(paramTable', d) = {} => devDSid'[d] = NoDSid
    BY DEF TagFollowsTable
  <2>1. /\ \A r, q \in RowsOf(paramTable', d) : r = q
        /\ d \in shared => RowsOf(paramTable', d) = {}
    BY DEF WriteRow, NextShared
  <2>2. ASSUME RowsOf(paramTable', d) = {} PROVE devDSid'[d] = NoDSid
    BY <1>5, <2>2 DEF Backed
  <2>3. ASSUME NEW r \in RowsOf(paramTable', d)
        PROVE  devDSid'[d] = paramTable'[r].DSid
    <3>1. d \notin shared
      BY <2>1, <2>3
    <3>2. r \in Rows /\ paramTable'[r].valid /\ d \in paramTable'[r].mask
      BY <2>3 DEF RowsOf
    <3>3. CASE r = s
      <4>1. CASE d \notin paramTable[s].mask
        BY <1>2, <3>2, <3>3, <4>1 DEF Retag
      <4>2. CASE d \in paramTable[s].mask
        <5>1. s \in RowsOf(paramTable, d)
          BY <1>1, <4>2 DEF SerialInv, FreeRowsEmpty, RowsOf
        <5>2. devDSid[d] = paramTable[s].DSid /\ paramTable[s].DSid = op[p].DSid
          BY <1>1, <3>1, <5>1 DEF SerialInv, TagFollowsTable, RowsOf
        <5> QED BY <1>2, <3>2, <3>3, <4>2, <5>2 DEF Retag
      <4> QED BY <4>1, <4>2
    <3>4. CASE r # s
      <4>1. s \notin RowsOf(paramTable', d)
        BY <2>1, <2>3, <3>4
      <4>2. d \notin paramTable'[s].mask
        BY <1>1, <1>2, <4>1 DEF RowsOf
      <4>3. r \in RowsOf(paramTable, d) /\ devDSid[d] = paramTable[r].DSid
        BY <1>2, <3>1, <3>2, <3>4 DEF RowsOf, SerialInv, TagFollowsTable
      <4>4. d \notin paramTable[s].mask
        <5> SUFFICES ASSUME d \in paramTable[s].mask PROVE FALSE
          OBVIOUS
        <5>1. s \in RowsOf(paramTable, d)
          BY <1>1 DEF SerialInv, FreeRowsEmpty, RowsOf
        <5>2. devDSid[d] = paramTable[s].DSid
          BY <3>1, <5>1 DEF SerialInv, TagFollowsTable
        <5> QED BY <3>4, <4>3, <5>1, <5>2 DEF SerialInv, OneRowPerLDom, RowsOf
      <4> QED BY <1>2, <3>4, <4>2, <4>3, <4>4, <3>2 DEF Retag
    <3> QED BY <3>3, <3>4
  <2> QED BY <2>2, <2>3
<1>7. RowsGranted'
  <2> SUFFICES ASSUME NEW l \in DSids, NEW d \in Devices
               PROVE  <<l, d>> \in granted' <=>
                        \E r \in RowsOf(paramTable', d) : paramTable'[r].DSid = l
    BY DEF RowsGranted
  <2>1. <<l, d>> \in granted <=>
          \E r \in RowsOf(paramTable, d) : paramTable[r].DSid = l
    BY DEF SerialInv, RowsGranted
  <2>2. granted' = NextGranted(op[p]) /\ op[p] \in Request
    BY DEF WriteRow, CPTypeOK
  <2>3. CASE l # op[p].DSid
    <3>1. <<l, d>> \in granted' <=> <<l, d>> \in granted
      BY <2>2, <2>3 DEF NextGranted
    <3>2. \A r \in Rows : (r \in RowsOf(paramTable', d) /\ paramTable'[r].DSid = l) <=>
                          (r \in RowsOf(paramTable, d) /\ paramTable[r].DSid = l)
      BY <1>1, <1>2, <2>3 DEF RowsOf
    <3> QED BY <2>1, <3>1, <3>2 DEF RowsOf
  <2>4. CASE l = op[p].DSid
    <3>1. (\E r \in RowsOf(paramTable', d) : paramTable'[r].DSid = l) <=>
            d \in NewMask(op[p], paramTable[s].mask)
      BY <1>1, <1>2, <2>4 DEF RowsOf, Selects
    <3>2. (\E r \in RowsOf(paramTable, d) : paramTable[r].DSid = l) <=>
            d \in paramTable[s].mask
      BY <1>1, <2>4 DEF RowsOf, Selects, SerialInv, FreeRowsEmpty
    <3>3. <<l, d>> \in granted' <=>
            IF op[p].cmd = "assign" THEN <<l, d>> \in granted \/ d \in op[p].mask
            ELSE <<l, d>> \in granted /\ op[p].mask # {} /\ d \notin op[p].mask
      BY <2>2, <2>4 DEF NextGranted, Request
    <3> QED BY <2>1, <3>1, <3>2, <3>3 DEF NewMask
  <2> QED BY <2>3, <2>4
<1> QED BY <1>3, <1>4, <1>5, <1>6, <1>7

\* With serial runs of the tool, the invariant holds in every reachable state.
LEMMA SerialInvariant == Serial => (CPSpec => []SerialInv)
<1> SUFFICES ASSUME Serial PROVE CPSpec => []SerialInv
  OBVIOUS
<1>1. CPInit => SerialInv
  BY DEF CPInit, SerialInv, OneTool, FreeRowsEmpty, Scanned, Chosen,
         OneRowPerLDom, Backed, TagFollowsTable, RowsGranted, RowsOf, EmptyEntry
<1>2. CPTypeOK /\ SerialInv /\ [CPNext]_cpVars => SerialInv'
  <2> SUFFICES ASSUME CPTypeOK, SerialInv, [CPNext]_cpVars PROVE SerialInv'
    OBVIOUS
  <2> DEFINE TableInv == /\ FreeRowsEmpty /\ OneRowPerLDom /\ Backed
                         /\ TagFollowsTable /\ RowsGranted
  <2>0. ASSUME UNCHANGED <<paramTable, devDSid, granted, shared>> PROVE TableInv'
    BY <2>0 DEF SerialInv, FreeRowsEmpty, OneRowPerLDom, Backed,
                TagFollowsTable, RowsGranted, RowsOf
  <2>1. ASSUME NEW p \in Procs, NEW o \in Request, StartTool(p, o) PROVE SerialInv'
    <3>1. TableInv'
      BY <2>0, <2>1 DEF StartTool
    <3>2. pc' = [pc EXCEPT ![p] = "scan"] /\ \A q \in Procs : pc[q] = "idle"
      BY <2>1 DEF StartTool
    <3>3. OneTool' /\ Chosen'
      BY <3>2 DEF OneTool, Chosen, CPTypeOK
    <3>4. Scanned'
      <4>1. row'[p] = 0 /\ freeRow'[p] = -1 /\ \A q \in Procs : pc'[q] = "scan" => q = p
        BY <2>1, <3>2 DEF StartTool, CPTypeOK
      <4> QED BY <4>1 DEF Scanned, Rows
    <3> QED BY <3>1, <3>3, <3>4 DEF SerialInv
  <2>2. ASSUME NEW p \in Procs, ScanFound(p) PROVE SerialInv'
    <3>1. TableInv'
      BY <2>0, <2>2 DEF ScanFound
    <3>2. OneTool' /\ Scanned'
      BY <2>2 DEF OneTool, Scanned, ScanFound, SerialInv, CPTypeOK
    <3>3. row[p] \in Rows
      BY <2>2, ConstantAssumption DEF ScanFound, IsEOF, CPTypeOK, Rows
    <3>4. \A q \in Procs : pc'[q] = "write" => q = p
      BY <2>2 DEF ScanFound, SerialInv, OneTool, CPTypeOK
    <3>5. Chosen'
      BY <2>2, <3>3, <3>4 DEF ScanFound, Chosen, SerialInv, OneRowPerLDom,
                              Selects, CPTypeOK
    <3> QED BY <3>1, <3>2, <3>5 DEF SerialInv
  <2>3. ASSUME NEW p \in Procs, ScanNext(p) PROVE SerialInv'
    <3>1. TableInv'
      BY <2>0, <2>3 DEF ScanNext
    <3>2. OneTool'
      BY <2>3 DEF OneTool, ScanNext, SerialInv
    <3>3. Chosen'
      BY <2>3 DEF Chosen, ScanNext, SerialInv, CPTypeOK
    <3>4. Scanned'
      <4>1. row[p] \in Rows /\ NextRow(row[p]) = row[p] + 1
        BY <2>3, ConstantAssumption DEF ScanNext, IsEOF, CPTypeOK, Rows, NextRow
      <4>2. \A r \in Rows : r < row[p] + 1 => ~Selects(paramTable[r], op[p].DSid)
        BY <2>3, <4>1 DEF ScanNext, Scanned, SerialInv, Rows
      <4>3. row'[p] = row[p] + 1 /\ \A q \in Procs : pc'[q] = "scan" => q = p
        BY <2>3, <4>1 DEF ScanNext, SerialInv, OneTool, CPTypeOK
      <4>4. freeRow'[p] # -1 => ~paramTable[freeRow'[p]].valid
        BY <2>3 DEF ScanNext, Scanned, SerialInv, CPTypeOK
      <4> QED BY <2>3, <4>2, <4>3, <4>4 DEF Scanned, ScanNext
    <3> QED BY <3>1, <3>2, <3>3, <3>4 DEF SerialInv
  <2>4. ASSUME NEW p \in Procs, ScanRegister(p) PROVE SerialInv'
    <3>1. TableInv'
      BY <2>0, <2>4 DEF ScanRegister
    <3>2. OneTool' /\ Scanned'
      BY <2>4 DEF OneTool, Scanned, ScanRegister, SerialInv, CPTypeOK
    <3>3. /\ freeRow[p] \in Rows /\ ~paramTable[freeRow[p]].valid
          /\ \A r \in Rows : ~Selects(paramTable[r], op[p].DSid)
      BY <2>4, ConstantAssumption DEF ScanRegister, IsEOF, Scanned, SerialInv, CPTypeOK, Rows
    <3>4. \A q \in Procs : pc'[q] = "write" => q = p
      BY <2>4 DEF ScanRegister, SerialInv, OneTool, CPTypeOK
    <3>5. paramTable[freeRow[p]].mask = {}
      BY <3>3 DEF SerialInv, FreeRowsEmpty
    <3>6. Chosen'
      BY <2>4, <3>3, <3>4, <3>5 DEF ScanRegister, Chosen, CPTypeOK
    <3> QED BY <3>1, <3>2, <3>6 DEF SerialInv
  <2>5. ASSUME NEW p \in Procs, ScanFail(p) PROVE SerialInv'
    <3>1. TableInv'
      BY <2>0, <2>5 DEF ScanFail
    <3>2. \A q \in Procs : pc'[q] = "idle"
      BY <2>5 DEF ScanFail, Return, SerialInv, OneTool, CPTypeOK
    <3> QED BY <3>1, <3>2 DEF SerialInv, OneTool, Scanned, Chosen
  <2>6. ASSUME NEW p \in Procs, WriteRow(p) PROVE SerialInv'
    <3>1. TableInv'
      BY <2>6, WriteKeeps
    <3>2. \A q \in Procs : pc'[q] = "idle"
      BY <2>6 DEF WriteRow, Return, SerialInv, OneTool, CPTypeOK
    <3> QED BY <3>1, <3>2 DEF SerialInv, OneTool, Scanned, Chosen
  <2>7. CASE UNCHANGED cpVars
    BY <2>7 DEF cpVars, SerialInv, OneTool, FreeRowsEmpty, Scanned, Chosen,
                OneRowPerLDom, Backed, TagFollowsTable, RowsGranted, RowsOf
  <2> QED
    BY <2>1, <2>2, <2>3, <2>4, <2>5, <2>6, <2>7 DEF CPNext, ToolStep
<1> QED BY <1>1, <1>2, AssignmentTypes, PTL DEF CPSpec

\* When runs of the tool do not overlap, an LDom has at most one row, so that
\* getDeviceMask and ioh_release, which stop at the first, see all of it.
THEOREM UniqueRow == Serial => (CPSpec => []OneRowPerLDom)
<1>1. SerialInv => OneRowPerLDom
  BY DEF SerialInv
<1> QED BY <1>1, SerialInvariant, PTL

\* When runs of the tool do not overlap, an LDom sees exactly the devices that
\* runs assigned to it and did not release since.
THEOREM AsGranted == Serial => (CPSpec => []MaskAsGranted)
<1>1. CPTypeOK /\ SerialInv => MaskAsGranted
  <2> SUFFICES ASSUME CPTypeOK, SerialInv, NEW l \in DSids, NEW d \in Devices
               PROVE  d \in GetDeviceMask(l) <=> <<l, d>> \in granted
    BY DEF MaskAsGranted, GetDeviceMask
  <2>1. \A r, q \in Rows : q < r /\ paramTable[r].valid /\ paramTable[r].DSid = l =>
          ~(paramTable[q].valid /\ paramTable[q].DSid = l)
    BY ConstantAssumption DEF SerialInv, OneRowPerLDom, Rows
  <2>2. d \in GetDeviceMask(l) <=>
          \E r \in RowsOf(paramTable, d) : paramTable[r].DSid = l
    BY <2>1 DEF GetDeviceMask, RowsOf
  <2> QED BY <2>2 DEF SerialInv, RowsGranted
<1> QED BY <1>1, SerialInvariant, AssignmentTypes, PTL

\* When runs do not overlap, an LDom sees every device that carries its tag.
THEOREM TagsVisible == Serial => (CPSpec => []TaggedIsVisible)
<1>1. CPTypeOK /\ SerialInv => TaggedIsVisible
  <2> SUFFICES ASSUME CPTypeOK, SerialInv, NEW d \in Devices, devDSid[d] # NoDSid
               PROVE  d \in GetDeviceMask(devDSid[d])
    BY DEF TaggedIsVisible
  <2>1. PICK r \in Rows : /\ paramTable[r].valid /\ d \in paramTable[r].mask
                          /\ paramTable[r].DSid = devDSid[d]
    BY DEF SerialInv, Backed, RowsOf
  <2>2. \A q \in Rows : q < r =>
          ~(paramTable[q].valid /\ paramTable[q].DSid = devDSid[d])
    BY <2>1, ConstantAssumption DEF SerialInv, OneRowPerLDom, Rows
  <2> QED BY <2>1, <2>2 DEF GetDeviceMask
<1> QED BY <1>1, SerialInvariant, AssignmentTypes, PTL

\* When runs do not overlap, a device that was never given to two LDoms at once
\* carries the tag of its LDom, and none when it is free.
THEOREM TagsFollow == Serial => (CPSpec => []TagFollowsTable)
<1>1. SerialInv => TagFollowsTable
  BY DEF SerialInv
<1> QED BY <1>1, SerialInvariant, PTL

----------------------------------------------------------------------------
(* The DMA port.                                                           *)

\* What the lemmas use of the constants.
Sizes ==
  LineSize \in Nat \ {0} /\ MaxAddr \in Nat /\ MaxSize \in Nat /\ MaxActions \in Nat

\* The assumption on the constants, under that name.
LEMMA SizesHold == Sizes
BY SizeAssumption DEF Sizes

\* The bytes of a packet; packets of one action that share none.
Span(p) == p.addr .. (p.addr + p.size - 1)
Apart(p, q) == p.act = q.act => p.addr + p.size <= q.addr \/ q.addr + q.size <= p.addr

\* A byte lies in its line.
LEMMA LinesOf ==
  ASSUME Sizes, NEW x \in Nat
  PROVE  /\ LineOf(x) \in Nat
         /\ LineOf(x) * LineSize <= x /\ x < (LineOf(x) + 1) * LineSize
BY DEF Sizes, LineOf

\* Multiples of the line size, which the provers do not order by themselves.
LEMMA LinesGrow ==
  ASSUME Sizes, NEW i \in Nat, NEW j \in Nat, i <= j
  PROVE  i * LineSize \in Nat /\ i * LineSize <= j * LineSize /\ (i + 1) * LineSize = i * LineSize + LineSize
<1>1. LineSize \in Nat
  BY DEF Sizes
<1>2. i * LineSize \in Nat /\ j * LineSize \in Nat /\ (i + 1) * LineSize = i * LineSize + LineSize
  BY <1>1
<1>3. j * LineSize = i * LineSize + (j - i) * LineSize /\ (j - i) * LineSize \in Nat
  BY <1>1
<1> QED BY <1>2, <1>3

\* A later byte lies in the same line or a later one.
LEMMA LinesRise ==
  ASSUME Sizes, NEW x \in Nat, NEW y \in Nat, x <= y
  PROVE  LineOf(x) <= LineOf(y)
<1>1. LineOf(x) \in Nat /\ LineOf(y) \in Nat /\ LineOf(x) * LineSize <= x /\ y < (LineOf(y) + 1) * LineSize
  BY LinesOf
<1>2. SUFFICES ASSUME LineOf(y) + 1 <= LineOf(x) PROVE FALSE
  BY <1>1
<1>3. (LineOf(y) + 1) * LineSize <= LineOf(x) * LineSize
  <2>1. LineOf(y) + 1 \in Nat
    BY <1>1
  <2> QED BY <1>1, <1>2, <2>1, LinesGrow
<1>4. (LineOf(y) + 1) * LineSize \in Nat /\ LineOf(x) * LineSize \in Nat
  <2>1. LineSize \in Nat
    BY DEF Sizes
  <2>2. LineOf(y) + 1 \in Nat
    BY <1>1
  <2> HIDE DEF LineOf
  <2> QED BY <1>1, <2>1, <2>2
<1> QED BY <1>1, <1>3, <1>4

\* What ChunkGenerator yields: pieces of at least one byte that lie in the range
\* asked for, follow one another without overlap and leave no byte out.
LEMMA ChunksAre ==
  ASSUME Sizes, NEW addr \in Nat, NEW size \in Nat \ {0}
  PROVE  LET P == Chunks(addr, size)
             n == Len(P)
         IN  /\ n \in Nat \ {0} /\ P \in Seq([addr : Nat, size : Nat]) /\ DOMAIN P = 1 .. n
             /\ \A k \in 1 .. n : P[k].size >= 1 /\ P[k].addr >= addr /\ P[k].addr + P[k].size <= addr + size
             /\ \A j, k \in 1 .. n : j < k => P[j].addr + P[j].size <= P[k].addr
             /\ \A b \in addr .. (addr + size - 1) : \E k \in 1 .. n : b \in P[k].addr .. (P[k].addr + P[k].size - 1)
<1> DEFINE l == LineOf(addr)
           m == LineOf(addr + size - 1)
           n == m - l + 1
           first(k) == IF k = 1 THEN addr ELSE (l + k - 1) * LineSize
           past(k) == Smaller(addr + size, (l + k) * LineSize)
           P == Chunks(addr, size)
<1>1. addr + size - 1 \in Nat /\ addr <= addr + size - 1
  OBVIOUS
<1>2. /\ l \in Nat /\ m \in Nat /\ l <= m
      /\ l * LineSize <= addr /\ addr < (l + 1) * LineSize
      /\ m * LineSize <= addr + size - 1 /\ addr + size - 1 < (m + 1) * LineSize
  BY <1>1, LinesOf, LinesRise
<1>3. P = [k \in 1 .. n |-> [addr |-> first(k), size |-> past(k) - first(k)]]
  BY DEF Chunks
<1>4. n \in Nat \ {0}
  BY <1>2
<1> HIDE DEF l, m, P
<1>5. \A k \in 1 .. n : (l + k) \in Nat /\ (l + k - 1) \in Nat /\ (l + k) * LineSize \in Nat /\ (l + k - 1) * LineSize \in Nat
                        /\ (l + k - 1) * LineSize + LineSize = (l + k) * LineSize
  <2> TAKE k \in 1 .. n
  <2>1. (l + k) \in Nat /\ (l + k - 1) \in Nat /\ (l + k - 1) + 1 = l + k
    BY <1>2, <1>4
  <2> QED BY <2>1, LinesGrow
<1>6. \A k \in 1 .. n : /\ first(k) \in Nat /\ past(k) \in Nat /\ first(k) >= addr /\ past(k) <= addr + size
                        /\ past(k) <= (l + k) * LineSize /\ first(k) >= (l + k - 1) * LineSize
                        /\ first(k) + 1 <= past(k)
  <2> TAKE k \in 1 .. n
  <2>1. (l + 1) * LineSize \in Nat /\ (l + 1) * LineSize = l * LineSize + LineSize /\ l * LineSize \in Nat /\ m * LineSize \in Nat
    BY <1>2, LinesGrow
  <2>4. LineSize \in Nat /\ LineSize > 0
    BY DEF Sizes
  <2>2. CASE k = 1
    <3>1. first(k) = addr /\ (l + k) * LineSize = (l + 1) * LineSize /\ (l + k - 1) * LineSize = l * LineSize
      BY <2>2, <1>2
    <3> QED BY <1>2, <2>1, <3>1 DEF Smaller
  <2>3. CASE k # 1
    <3>1. l + 1 <= l + k - 1 /\ l + k - 1 <= m /\ l + 1 \in Nat
      BY <1>2, <1>4, <2>3
    <3>2. (l + 1) * LineSize <= (l + k - 1) * LineSize /\ (l + k - 1) * LineSize <= m * LineSize
      BY <1>2, <1>5, <3>1, LinesGrow
    <3>3. first(k) = (l + k - 1) * LineSize
      BY <2>3
    <3>4. (l + k - 1) * LineSize \in Nat /\ (l + k) * LineSize \in Nat /\ (l + k - 1) * LineSize + LineSize = (l + k) * LineSize
      BY <1>5
    <3>5. past(k) = addr + size \/ past(k) = (l + k) * LineSize
      BY DEF Smaller
    <3>6. past(k) <= addr + size /\ past(k) <= (l + k) * LineSize /\ past(k) \in Nat
      BY <3>4 DEF Smaller
    <3> HIDE DEF past, first
    <3> QED BY <1>2, <2>1, <2>4, <3>2, <3>3, <3>4, <3>5, <3>6
  <2> QED BY <2>2, <2>3
<1> HIDE DEF n, first, past
<1>7. DOMAIN P = 1 .. n /\ Len(P) = n /\ P \in Seq([addr : Nat, size : Nat])
  <2>1. \A k \in 1 .. n : [addr |-> first(k), size |-> past(k) - first(k)] \in [addr : Nat, size : Nat]
    BY <1>6
  <2> QED BY <1>3, <1>4, <2>1
<1>8. \A k \in 1 .. n : P[k].addr = first(k) /\ P[k].size = past(k) - first(k) /\ P[k].addr + P[k].size = past(k)
  BY <1>3, <1>6
<1>9. \A j, k \in 1 .. n : j < k => past(j) <= first(k)
  <2> SUFFICES ASSUME NEW j \in 1 .. n, NEW k \in 1 .. n, j < k PROVE past(j) <= first(k)
    OBVIOUS
  <2>1. l + j <= l + k - 1
    BY <1>2, <1>4
  <2>2. (l + j) * LineSize <= (l + k - 1) * LineSize
    BY <1>5, <2>1, LinesGrow
  <2> QED BY <1>5, <1>6, <2>2
<1>10. ASSUME NEW b \in addr .. (addr + size - 1) PROVE \E k \in 1 .. n : b \in P[k].addr .. (P[k].addr + P[k].size - 1)
  <2> DEFINE k == LineOf(b) - l + 1
  <2>1. b \in Nat /\ LineOf(b) \in Nat /\ LineOf(b) * LineSize <= b /\ b < (LineOf(b) + 1) * LineSize
    BY <1>10, LinesOf
  <2>2. l <= LineOf(b) /\ LineOf(b) <= m
    BY <1>1, <1>10, <2>1, LinesRise DEF l, m
  <2>3. k \in 1 .. n /\ l + k = LineOf(b) + 1 /\ l + k - 1 = LineOf(b)
    BY <1>2, <2>1, <2>2 DEF n
  <2> HIDE DEF k
  <2>4. first(k) <= b /\ b < past(k)
    BY <1>5, <1>10, <2>1, <2>3 DEF first, past, Smaller
  <2> QED BY <1>6, <1>8, <2>1, <2>3, <2>4
<1>11. \A k \in 1 .. n : P[k].size >= 1 /\ P[k].addr >= addr /\ P[k].addr + P[k].size <= addr + size
  BY <1>6, <1>8
<1>12. \A j, k \in 1 .. n : j < k => P[j].addr + P[j].size <= P[k].addr
  BY <1>8, <1>9
<1> QED BY <1>4, <1>7, <1>10, <1>11, <1>12 DEF P

\* The packets of a list; those that have no answer, queued or sent; the bytes of
\* action a among the packets O.
Elems(s) == {s[i] : i \in DOMAIN s}
Outstanding == Elems(transmitList) \cup below
Bytes(a, O) == UNION {Span(p) : p \in {q \in O : q.act = a}}

\* A packet is queued once, and not also below.
Unique(l) == \A i, j \in DOMAIN l : l[i] = l[j] => i = j
OnceIn(l, b) == Unique(l) /\ \A i \in DOMAIN l : l[i] \notin b
\* A packet without an answer lies in its action and has its tag; two of one
\* action share no byte; pendingCount counts them; as long as any is queued a
\* send is scheduled or a retry awaited.
Owned == \A p \in Outstanding : p.act \in DOMAIN reqState /\ WithinAction(p) /\ p.size >= 1
Disjoint == \A p, q \in Outstanding : p # q => Apart(p, q)
Counted == IsFiniteSet(Outstanding) /\ pendingCount = Cardinality(Outstanding)
SendDue == transmitList # << >> <=> sendEvent \/ inRetry
\* The bytes answered and those outstanding make up the action, and its event has
\* been scheduled once they are all answered.  This is what CompletedOnce needs:
\* that numBytes reaches totBytes with the last packet, and not with an earlier
\* one, is a statement about the bytes that are still out.
Acked ==
  \A a \in DOMAIN reqState :
    LET st == reqState[a] IN
    /\ IsFiniteSet(Bytes(a, Outstanding))
    /\ st.numBytes + Cardinality(Bytes(a, Outstanding)) = st.totBytes
    /\ st.completions = IF st.numBytes = st.totBytes THEN 1 ELSE 0

\* The inductive invariant.
PortInv ==
  /\ PortTypeOK
  /\ OnceIn(transmitList, below) /\ Owned /\ Disjoint /\ Counted /\ SendDue /\ Acked

\* The entries of a sequence.
LEMMA InSeq ==
  ASSUME NEW S, NEW s \in Seq(S)
  PROVE  \A i \in DOMAIN s : s[i] \in S
OBVIOUS

\* Packets puts the action and the tag on what ChunkGenerator yields.
LEMMA PacketsAre ==
  ASSUME Sizes, NEW a \in Nat, NEW addr \in Nat, NEW size \in Nat \ {0}, NEW tag \in Tag
  PROVE  LET P == Packets(a, addr, size, tag)
             n == Len(P)
         IN  /\ n \in Nat \ {0} /\ P \in Seq(DmaPacket) /\ DOMAIN P = 1 .. n
             /\ \A k \in 1 .. n : /\ P[k].act = a /\ P[k].DSid = tag /\ P[k].size >= 1
                                  /\ P[k].addr >= addr /\ P[k].addr + P[k].size <= addr + size
             /\ \A j, k \in 1 .. n : j < k => P[j].addr + P[j].size <= P[k].addr
             /\ \A b \in addr .. (addr + size - 1) : \E k \in 1 .. n : b \in Span(P[k])
<1> DEFINE C == Chunks(addr, size)
           n == Len(C)
           P == Packets(a, addr, size, tag)
<1>1. /\ n \in Nat \ {0} /\ C \in Seq([addr : Nat, size : Nat]) /\ DOMAIN C = 1 .. n
      /\ \A k \in 1 .. n : C[k].size >= 1 /\ C[k].addr >= addr /\ C[k].addr + C[k].size <= addr + size
      /\ \A j, k \in 1 .. n : j < k => C[j].addr + C[j].size <= C[k].addr
      /\ \A b \in addr .. (addr + size - 1) : \E k \in 1 .. n : b \in C[k].addr .. (C[k].addr + C[k].size - 1)
  BY ChunksAre
<1>2. P = [k \in DOMAIN C |-> [act |-> a, addr |-> C[k].addr, size |-> C[k].size, DSid |-> tag]]
  BY DEF Packets
<1> HIDE DEF C, P
<1>3. \A k \in 1 .. n : C[k] \in [addr : Nat, size : Nat]
  <2>1. C \in Seq([addr : Nat, size : Nat]) /\ DOMAIN C = 1 .. n
    BY <1>1
  <2> HIDE DEF n
  <2> QED BY <2>1, InSeq
<1>4. P \in Seq(DmaPacket) /\ Len(P) = n /\ DOMAIN P = 1 .. n
  <2>1. \A k \in 1 .. n : [act |-> a, addr |-> C[k].addr, size |-> C[k].size, DSid |-> tag] \in DmaPacket
    BY <1>3 DEF DmaPacket
  <2> QED BY <1>1, <1>2, <2>1
<1>5. \A k \in 1 .. n : P[k].act = a /\ P[k].DSid = tag /\ P[k].addr = C[k].addr /\ P[k].size = C[k].size
  BY <1>1, <1>2
<1> HIDE DEF n
<1>6. \A b \in addr .. (addr + size - 1) : \E k \in 1 .. n : b \in Span(P[k])
  BY <1>1, <1>5 DEF Span
<1>7. /\ n \in Nat \ {0}
      /\ \A k \in 1 .. n : C[k].addr \in Nat /\ C[k].size \in Nat
  BY <1>1, <1>3
<1>8. \A k \in 1 .. n : /\ P[k].act = a /\ P[k].DSid = tag /\ P[k].size >= 1
                      /\ P[k].addr >= addr /\ P[k].addr + P[k].size <= addr + size
  BY <1>1, <1>5
<1>9. \A j, k \in 1 .. n : j < k => P[j].addr + P[j].size <= P[k].addr
  BY <1>1, <1>5
<1> QED BY <1>4, <1>6, <1>7, <1>8, <1>9 DEF P

\* What the packets of an action are, as a set: apart, and together all its bytes.
LEMMA PacketSet ==
  ASSUME Sizes, NEW a \in Nat, NEW addr \in Nat, NEW size \in Nat \ {0}, NEW tag \in Tag
  PROVE  LET P == Packets(a, addr, size, tag)
         IN  /\ P \in Seq(DmaPacket) /\ Len(P) \in Nat \ {0} /\ DOMAIN P = 1 .. Len(P)
             /\ \A p \in Elems(P) : /\ p \in DmaPacket /\ p.act = a /\ p.DSid = tag /\ p.size >= 1
                                    /\ p.addr >= addr /\ p.addr + p.size <= addr + size
             /\ Unique(P)
             /\ \A p, q \in Elems(P) : p # q => Apart(p, q)
             /\ Bytes(a, Elems(P)) = addr .. (addr + size - 1)
<1> DEFINE P == Packets(a, addr, size, tag)
           n == Len(P)
<1>1. /\ n \in Nat \ {0} /\ P \in Seq(DmaPacket) /\ DOMAIN P = 1 .. n
      /\ \A k \in 1 .. n : /\ P[k].act = a /\ P[k].DSid = tag /\ P[k].size >= 1
                           /\ P[k].addr >= addr /\ P[k].addr + P[k].size <= addr + size
      /\ \A j, k \in 1 .. n : j < k => P[j].addr + P[j].size <= P[k].addr
      /\ \A b \in addr .. (addr + size - 1) : \E k \in 1 .. n : b \in Span(P[k])
  BY PacketsAre
<1> HIDE DEF P, n
<1>2. \A k \in 1 .. n : P[k].addr \in Nat /\ P[k].size \in Nat
  <2> TAKE k \in 1 .. n
  <2>1. P[k] \in DmaPacket
    BY <1>1
  <2> QED BY <2>1 DEF DmaPacket
<1>3. \A j, k \in 1 .. n : j # k => P[j] # P[k] /\ Apart(P[j], P[k])
  <2> SUFFICES ASSUME NEW j \in 1 .. n, NEW k \in 1 .. n, j # k PROVE P[j] # P[k] /\ Apart(P[j], P[k])
    OBVIOUS
  <2>1. CASE j < k
    <3>1. P[j].addr + P[j].size <= P[k].addr /\ P[j].size >= 1
      BY <1>1, <2>1
    <3>2. P[j].addr # P[k].addr
      BY <1>2, <3>1
    <3> QED BY <3>1, <3>2 DEF Apart
  <2>2. CASE k < j
    <3>1. P[k].addr + P[k].size <= P[j].addr /\ P[k].size >= 1
      BY <1>1, <2>2
    <3>2. P[j].addr # P[k].addr
      BY <1>2, <3>1
    <3> QED BY <3>1, <3>2 DEF Apart
  <2> QED BY <1>1, <2>1, <2>2
<1>4. Unique(P)
  BY <1>1, <1>3 DEF Unique
<1>5. \A p, q \in Elems(P) : p # q => Apart(p, q)
  BY <1>1, <1>3 DEF Elems
<1>6. Bytes(a, Elems(P)) = addr .. (addr + size - 1)
  <2>1. {q \in Elems(P) : q.act = a} = {P[k] : k \in 1 .. n}
    BY <1>1 DEF Elems
  <2>2. \A k \in 1 .. n : Span(P[k]) \subseteq addr .. (addr + size - 1)
    <3> SUFFICES ASSUME NEW k \in 1 .. n, NEW x \in Span(P[k]) PROVE x \in addr .. (addr + size - 1)
      OBVIOUS
    <3>1. P[k].addr \in Nat /\ P[k].size \in Nat /\ P[k].addr >= addr /\ P[k].addr + P[k].size <= addr + size
      BY <1>1, <1>2
    <3> QED BY <3>1 DEF Span
  <2> QED BY <1>1, <2>1, <2>2 DEF Bytes
<1>7. \A p \in Elems(P) : /\ p \in DmaPacket /\ p.act = a /\ p.DSid = tag /\ p.size >= 1
                         /\ p.addr >= addr /\ p.addr + p.size <= addr + size
  <2>1. \A k \in 1 .. n : P[k] \in DmaPacket
    BY <1>1
  <2> QED BY <1>1, <2>1 DEF Elems
<1>8. P \in Seq(DmaPacket) /\ Len(P) \in Nat \ {0} /\ DOMAIN P = 1 .. Len(P)
  BY <1>1 DEF n
<1> QED BY <1>4, <1>5, <1>6, <1>7, <1>8 DEF P

\* A list without repetition has as many members as entries.
LEMMA ElemsCount ==
  ASSUME NEW S, NEW l \in Seq(S), Unique(l)
  PROVE  IsFiniteSet(Elems(l)) /\ Cardinality(Elems(l)) = Len(l)
<1> DEFINE n == Len(l)
<1>1. n \in Nat /\ DOMAIN l = 1 .. n
  OBVIOUS
<1>2. IsFiniteSet(1 .. n) /\ Cardinality(1 .. n) = n
  BY <1>1, FS_Interval
<1>3. l \in Surjection(1 .. n, Elems(l)) /\ l \in Injection(1 .. n, Elems(l))
  BY <1>1 DEF Elems, Unique, Surjection, Injection, IsInjective
<1> QED BY <1>2, <1>3, FS_Surjection

\* Whether the head is sent or refused, the packets outstanding stay the same.
LEMMA Trying ==
  ASSUME NEW l \in Seq(DmaPacket), l # << >>, below \in SUBSET DmaPacket, OnceIn(l, below),
         TrySendTimingReq(l)
  PROVE  /\ transmitList' \in Seq(DmaPacket) /\ below' \in SUBSET DmaPacket
         /\ sendEvent' \in BOOLEAN /\ inRetry' \in BOOLEAN
         /\ Outstanding' = Elems(l) \cup below
         /\ OnceIn(transmitList', below') /\ SendDue'
<1>1. CASE SendHead(l)
  <2>1. /\ Tail(l) \in Seq(DmaPacket) /\ Len(Tail(l)) = Len(l) - 1 /\ Head(l) = l[1] /\ Head(l) \in DmaPacket
        /\ \A i \in 1 .. Len(l) - 1 : Tail(l)[i] = l[i + 1]
        /\ DOMAIN l = 1 .. Len(l) /\ DOMAIN Tail(l) = 1 .. (Len(l) - 1) /\ Len(l) \in Nat \ {0}
    OBVIOUS
  <2>2. Elems(l) = Elems(Tail(l)) \cup {Head(l)}
    <3>1. \A i \in DOMAIN l : l[i] \in Elems(Tail(l)) \cup {Head(l)}
      <4> TAKE i \in DOMAIN l
      <4>1. CASE i = 1
        BY <2>1, <4>1
      <4>2. CASE i # 1
        <5>1. i - 1 \in DOMAIN Tail(l) /\ Tail(l)[i - 1] = l[i]
          BY <2>1, <4>2
        <5> QED BY <5>1 DEF Elems
      <4> QED BY <4>1, <4>2
    <3>2. \A i \in DOMAIN Tail(l) : Tail(l)[i] \in Elems(l)
      <4> TAKE i \in DOMAIN Tail(l)
      <4>1. i + 1 \in DOMAIN l /\ Tail(l)[i] = l[i + 1]
        BY <2>1
      <4> QED BY <4>1 DEF Elems
    <3>3. Head(l) \in Elems(l)
      BY <2>1 DEF Elems
    <3> QED BY <3>1, <3>2, <3>3 DEF Elems
  <2>3. OnceIn(Tail(l), below \cup {Head(l)})
    <3>1. \A i \in DOMAIN Tail(l) : i + 1 \in DOMAIN l /\ i + 1 # 1 /\ 1 \in DOMAIN l /\ Tail(l)[i] = l[i + 1]
      BY <2>1
    <3>2. \A i \in DOMAIN Tail(l) : Tail(l)[i] \notin below \cup {Head(l)}
      BY <2>1, <3>1 DEF OnceIn, Unique
    <3>3. Unique(Tail(l))
      <4> SUFFICES ASSUME NEW i \in DOMAIN Tail(l), NEW j \in DOMAIN Tail(l), Tail(l)[i] = Tail(l)[j] PROVE i = j
        BY DEF Unique
      <4>1. i + 1 = j + 1
        BY <3>1 DEF OnceIn, Unique
      <4> QED BY <2>1, <4>1
    <3> QED BY <3>2, <3>3 DEF OnceIn
  <2>4. transmitList' = Tail(l) /\ below' = below \cup {Head(l)} /\ inRetry' = FALSE /\ sendEvent' = (Tail(l) # << >>)
    BY <1>1 DEF SendHead
  <2>5. Outstanding' = Elems(l) \cup below
    BY <2>2, <2>4 DEF Outstanding, Elems
  <2> QED BY <2>1, <2>3, <2>4, <2>5 DEF SendDue
<1>2. CASE RefuseHead(l)
  <2>1. transmitList' = l /\ below' = below /\ inRetry' = TRUE /\ sendEvent' = FALSE
    BY <1>2 DEF RefuseHead
  <2>2. Outstanding' = Elems(l) \cup below
    BY <2>1 DEF Outstanding, Elems
  <2> QED BY <2>1, <2>2 DEF SendDue
<1> QED BY <1>1, <1>2 DEF TrySendTimingReq

\* A DMA action in timing mode adds its packets to those outstanding.
LEMMA ActionKeeps ==
  ASSUME Sizes, PortInv, NEW addr \in Nat, NEW size \in Nat \ {0}, DmaActionTiming(addr, size)
  PROVE  PortInv'
<1> DEFINE a == Len(reqState) + 1
           P == Packets(a, addr, size, DSid)
           l == transmitList \o P
           st == NewReqState(addr, size, 0, 0)
<1>1. addr \in Nat /\ size \in Nat \ {0}
  OBVIOUS
<1>2. /\ DSid \in Tag /\ transmitList \in Seq(DmaPacket) /\ pendingCount \in Nat
      /\ reqState \in Seq(DmaReqState) /\ below \in SUBSET DmaPacket
      /\ sendEvent \in BOOLEAN /\ inRetry \in BOOLEAN
  BY DEF PortInv, PortTypeOK
<1>3. a \in Nat /\ DOMAIN reqState = 1 .. Len(reqState) /\ a \notin DOMAIN reqState /\ Len(reqState) \in Nat
  BY <1>2
<1> HIDE DEF a
<1>5. /\ P \in Seq(DmaPacket) /\ Len(P) \in Nat \ {0} /\ DOMAIN P = 1 .. Len(P)
      /\ \A p \in Elems(P) : /\ p \in DmaPacket /\ p.act = a /\ p.DSid = DSid /\ p.size >= 1
                             /\ p.addr >= addr /\ p.addr + p.size <= addr + size
      /\ Unique(P)
      /\ \A p, q \in Elems(P) : p # q => Apart(p, q)
      /\ Bytes(a, Elems(P)) = addr .. (addr + size - 1)
  <2>1. DSid \in Tag /\ a \in Nat
    BY <1>2, <1>3
  <2>2. ASSUME NEW x \in Nat, NEW t \in Tag
        PROVE  LET Q == Packets(x, addr, size, t)
               IN  /\ Q \in Seq(DmaPacket) /\ Len(Q) \in Nat \ {0} /\ DOMAIN Q = 1 .. Len(Q)
                   /\ \A p \in Elems(Q) : /\ p \in DmaPacket /\ p.act = x /\ p.DSid = t /\ p.size >= 1
                                          /\ p.addr >= addr /\ p.addr + p.size <= addr + size
                   /\ Unique(Q)
                   /\ \A p, q \in Elems(Q) : p # q => Apart(p, q)
                   /\ Bytes(x, Elems(Q)) = addr .. (addr + size - 1)
    BY ONLY Sizes, addr \in Nat, size \in Nat \ {0}, x \in Nat, t \in Tag, PacketSet
  <2> QED BY <2>1, <2>2, Zenon
<1> USE DEF a
<1>4. P \in Seq(DmaPacket) /\ Len(P) \in Nat \ {0} /\ DOMAIN P = 1 .. Len(P)
  BY <1>5
<1>6. /\ SendDma(l) /\ pendingCount' = pendingCount + Len(P) /\ reqState' = Append(reqState, st)
      /\ UNCHANGED <<DSid, drainManager, timingMode>>
  BY DEF DmaActionTiming, QueueDma
<1> HIDE DEF P
<1>7. /\ l \in Seq(DmaPacket) /\ l # << >> /\ Elems(l) = Elems(transmitList) \cup Elems(P)
      /\ DOMAIN l = 1 .. (Len(transmitList) + Len(P))
      /\ \A i \in DOMAIN l : l[i] = IF i <= Len(transmitList) THEN transmitList[i] ELSE P[i - Len(transmitList)]
  <2>1. l \in Seq(DmaPacket) /\ Len(l) = Len(transmitList) + Len(P) /\ DOMAIN l = 1 .. (Len(transmitList) + Len(P))
    BY <1>2, <1>4
  <2>2. \A i \in DOMAIN l : l[i] = IF i <= Len(transmitList) THEN transmitList[i] ELSE P[i - Len(transmitList)]
    BY <1>2, <1>4, <2>1
  <2>3. l # << >>
    BY <1>2, <1>4, <2>1
  <2>4. DOMAIN transmitList = 1 .. Len(transmitList) /\ Len(transmitList) \in Nat
    BY <1>2
  <2>5. ASSUME NEW i \in DOMAIN transmitList PROVE transmitList[i] \in Elems(l)
    <3>1. i \in DOMAIN l /\ l[i] = transmitList[i]
      BY <1>4, <2>1, <2>2, <2>4
    <3> HIDE DEF l
    <3> QED BY <3>1 DEF Elems
  <2>6. ASSUME NEW k \in DOMAIN P PROVE P[k] \in Elems(l)
    <3>1. k + Len(transmitList) \in DOMAIN l /\ l[k + Len(transmitList)] = P[k]
      BY <1>4, <2>1, <2>2, <2>4
    <3> HIDE DEF l
    <3> QED BY <3>1 DEF Elems
  <2>7. ASSUME NEW i \in DOMAIN l PROVE l[i] \in Elems(transmitList) \cup Elems(P)
    <3>1. CASE i <= Len(transmitList)
      <4>1. i \in DOMAIN transmitList /\ l[i] = transmitList[i]
        BY <2>1, <2>2, <2>4, <3>1
      <4> HIDE DEF l
      <4> QED BY <4>1 DEF Elems
    <3>2. CASE ~(i <= Len(transmitList))
      <4>1. i - Len(transmitList) \in DOMAIN P /\ l[i] = P[i - Len(transmitList)]
        BY <1>4, <2>1, <2>2, <2>4, <3>2
      <4> HIDE DEF l
      <4> QED BY <4>1 DEF Elems
    <3> QED BY <3>1, <3>2
  <2> HIDE DEF l
  <2>8. Elems(l) = Elems(transmitList) \cup Elems(P)
    BY <2>5, <2>6, <2>7 DEF Elems
  <2> QED BY <2>1, <2>2, <2>3, <2>8
<1>8. \A p \in Elems(P) : p \in DmaPacket /\ p.act = a /\ p.DSid = DSid /\ p.size >= 1 /\ p.addr >= addr /\ p.addr + p.size <= addr + size
  BY <1>5
<1>9. \A p \in Outstanding : p.act \in DOMAIN reqState /\ p.act # a
  BY <1>3 DEF PortInv, Owned
<1>10. OnceIn(l, below)
  <2>1. \A i \in DOMAIN l : l[i] \notin below
    <3>1. \A p \in Elems(l) : p \notin below
      <4>1. \A p \in Elems(transmitList) : p \notin below
        BY DEF PortInv, OnceIn, Elems
      <4>2. \A p \in Elems(P) : p \notin below
        BY <1>8, <1>9 DEF Outstanding
      <4> QED BY <1>7, <4>1, <4>2
    <3> HIDE DEF l
    <3> QED BY <3>1 DEF Elems
  <2>2. Unique(l)
    <3> SUFFICES ASSUME NEW i \in DOMAIN l, NEW j \in DOMAIN l, l[i] = l[j] PROVE i = j
      BY DEF Unique
    <3> DEFINE n == Len(transmitList)
    <3>1. n \in Nat /\ DOMAIN transmitList = 1 .. n /\ i \in Int /\ j \in Int /\ i >= 1 /\ j >= 1
      BY <1>2, <1>4, <1>7
    <3>2. \A x \in 1 .. n : transmitList[x].act # a
      BY <1>9, <3>1 DEF Outstanding, Elems
    <3>3. \A x, y \in 1 .. n : transmitList[x] = transmitList[y] => x = y
      BY <3>1 DEF PortInv, OnceIn, Unique
    <3>4. \A x, y \in 1 .. Len(P) : P[x] = P[y] => x = y
      BY <1>4, <1>5 DEF Unique
    <3>5. /\ i <= n => i \in 1 .. n /\ l[i] = transmitList[i]
          /\ ~(i <= n) => i - n \in 1 .. Len(P) /\ l[i] = P[i - n]
      BY <1>4, <1>7, <3>1
    <3>6. /\ j <= n => j \in 1 .. n /\ l[j] = transmitList[j]
          /\ ~(j <= n) => j - n \in 1 .. Len(P) /\ l[j] = P[j - n]
      BY <1>4, <1>7, <3>1
    <3> HIDE DEF l, n
    <3>7. CASE i <= n /\ j <= n
      BY <3>3, <3>5, <3>6, <3>7
    <3>8. CASE ~(i <= n) /\ ~(j <= n)
      <4>1. i - n = j - n
        BY <3>4, <3>5, <3>6, <3>8
      <4> QED BY <3>1, <4>1
    <3>11. \A k \in 1 .. Len(P) : P[k].act = a
      BY <1>4, <1>8 DEF Elems
    <3>9. CASE i <= n /\ ~(j <= n)
      BY <3>11, <3>2, <3>5, <3>6, <3>9
    <3>10. CASE ~(i <= n) /\ j <= n
      BY <3>11, <3>2, <3>5, <3>6, <3>10
    <3> QED BY <3>7, <3>8, <3>9, <3>10
  <2> QED BY <2>1, <2>2 DEF OnceIn
<1>11. Elems(l) \cup below = Outstanding \cup Elems(P)
  BY <1>7 DEF Outstanding
<1> HIDE DEF l
<1>12. /\ transmitList' \in Seq(DmaPacket) /\ below' \in SUBSET DmaPacket
       /\ sendEvent' \in BOOLEAN /\ inRetry' \in BOOLEAN
       /\ Outstanding' = Outstanding \cup Elems(P)
       /\ OnceIn(transmitList', below') /\ SendDue'
  <2>1. CASE inRetry \/ sendEvent
    <3>1. transmitList' = l /\ UNCHANGED <<inRetry, sendEvent, below>>
      BY <1>6, <2>1 DEF SendDma
    <3>2. Outstanding' = Elems(l) \cup below
      BY <3>1 DEF Outstanding, Elems
    <3>3. SendDue'
      BY <1>7, <2>1, <3>1 DEF SendDue
    <3> QED BY <1>2, <1>7, <1>10, <1>11, <3>1, <3>2, <3>3
  <2>2. CASE ~(inRetry \/ sendEvent)
    <3>1. TrySendTimingReq(l)
      BY <1>6, <2>2 DEF SendDma
    <3> QED BY <1>2, <1>7, <1>10, <1>11, <3>1, Trying
  <2> QED BY <2>1, <2>2
<1>13. st \in DmaReqState /\ st.addr = addr /\ st.totBytes = size /\ st.numBytes = 0 /\ st.DSid = DSid /\ st.completions = 0
  BY <1>1, <1>2 DEF NewReqState, DmaReqState
<1> HIDE DEF st, a
<1>14. /\ reqState' \in Seq(DmaReqState) /\ DOMAIN reqState' = DOMAIN reqState \cup {a} /\ reqState'[a] = st
       /\ \A b \in DOMAIN reqState : reqState'[b] = reqState[b]
  BY <1>2, <1>6, <1>13 DEF a
<1>15. PortTypeOK'
  BY <1>2, <1>4, <1>6, <1>12, <1>14 DEF PortInv, PortTypeOK
<1>16. Owned'
  <2> SUFFICES ASSUME NEW p \in Outstanding' PROVE p.act \in DOMAIN reqState' /\ WithinAction(p)' /\ p.size >= 1
    BY DEF Owned
  <2>1. CASE p \in Outstanding
    <3>1. p.act \in DOMAIN reqState /\ WithinAction(p) /\ p.size >= 1
      BY <2>1 DEF PortInv, Owned
    <3> QED BY <1>14, <3>1 DEF WithinAction
  <2>2. CASE p \in Elems(P)
    BY <1>8, <1>13, <1>14, <2>2 DEF WithinAction
  <2> QED BY <1>12, <2>1, <2>2
<1>17. Disjoint'
  <2> SUFFICES ASSUME NEW p \in Outstanding', NEW q \in Outstanding', p # q PROVE Apart(p, q)
    BY DEF Disjoint
  <2>1. CASE p \in Outstanding /\ q \in Outstanding
    BY <2>1 DEF PortInv, Disjoint
  <2>2. CASE p \in Elems(P) /\ q \in Elems(P)
    BY <1>5, <2>2
  <2>3. CASE (p \in Outstanding /\ q \in Elems(P)) \/ (q \in Outstanding /\ p \in Elems(P))
    BY <1>8, <1>9, <2>3 DEF Apart
  <2> QED BY <1>12, <2>1, <2>2, <2>3
<1>18. Counted'
  <2>1. IsFiniteSet(Elems(P)) /\ Cardinality(Elems(P)) = Len(P)
    BY <1>4, <1>5, ElemsCount
  <2>2. IsFiniteSet(Outstanding) /\ pendingCount = Cardinality(Outstanding)
    BY DEF PortInv, Counted
  <2>3. Outstanding \cap Elems(P) = {}
    BY <1>8, <1>9
  <2>4. IsFiniteSet(Outstanding \cup Elems(P)) /\ Cardinality(Outstanding \cup Elems(P)) = Cardinality(Outstanding) + Cardinality(Elems(P)) - Cardinality(Outstanding \cap Elems(P))
    BY <2>1, <2>2, FS_Union
  <2>5. Cardinality(Outstanding \cap Elems(P)) = 0
    BY <2>3, FS_EmptySet
  <2> QED BY <1>2, <1>4, <1>6, <1>12, <2>1, <2>2, <2>4, <2>5 DEF Counted
<1>19. Acked'
  <2> SUFFICES ASSUME NEW b \in DOMAIN reqState'
               PROVE  /\ IsFiniteSet(Bytes(b, Outstanding'))
                      /\ reqState'[b].numBytes + Cardinality(Bytes(b, Outstanding')) = reqState'[b].totBytes
                      /\ reqState'[b].completions = IF reqState'[b].numBytes = reqState'[b].totBytes THEN 1 ELSE 0
    BY DEF Acked
  <2>1. CASE b \in DOMAIN reqState
    <3>1. {q \in Outstanding' : q.act = b} = {q \in Outstanding : q.act = b}
      BY <1>3, <1>8, <1>12, <2>1
    <3>2. Bytes(b, Outstanding') = Bytes(b, Outstanding)
      BY <3>1 DEF Bytes
    <3> QED BY <1>14, <2>1, <3>2 DEF PortInv, Acked
  <2>2. CASE b = a
    <3>1. {q \in Outstanding' : q.act = a} = {q \in Elems(P) : q.act = a}
      BY <1>9, <1>12
    <3>2. Bytes(b, Outstanding') = addr .. (addr + size - 1)
      BY <1>5, <2>2, <3>1 DEF Bytes
    <3>3. IsFiniteSet(addr .. (addr + size - 1)) /\ Cardinality(addr .. (addr + size - 1)) = size
      BY <1>1, FS_Interval
    <3> QED BY <1>1, <1>13, <1>14, <2>2, <3>2, <3>3
  <2> QED BY <1>14, <2>1, <2>2
<1> QED BY <1>12, <1>15, <1>16, <1>17, <1>18, <1>19 DEF PortInv

\* Steps after which the same packets are outstanding, and the same bytes are due.
LEMMA SameOutstanding ==
  ASSUME PortInv, Outstanding' = Outstanding, reqState' = reqState, pendingCount' = pendingCount
  PROVE  Owned' /\ Disjoint' /\ Counted' /\ Acked'
<1>1. Owned'
  BY DEF PortInv, Owned, WithinAction
<1>2. Disjoint'
  BY DEF PortInv, Disjoint
<1>3. Counted'
  BY DEF PortInv, Counted
<1>4. Acked'
  BY DEF PortInv, Acked, Bytes
<1> QED BY <1>1, <1>2, <1>3, <1>4

\* sendEvent fires, or the memory system retries.
LEMMA SendKeeps ==
  ASSUME PortInv, sendEvent \/ inRetry, TrySendTimingReq(transmitList),
         UNCHANGED <<DSid, pendingCount, drainManager, reqState, timingMode>>
  PROVE  PortInv'
<1>1. /\ transmitList \in Seq(DmaPacket) /\ transmitList # << >> /\ below \in SUBSET DmaPacket
      /\ OnceIn(transmitList, below)
  BY DEF PortInv, PortTypeOK, SendDue
<1>2. /\ transmitList' \in Seq(DmaPacket) /\ below' \in SUBSET DmaPacket
      /\ sendEvent' \in BOOLEAN /\ inRetry' \in BOOLEAN
      /\ Outstanding' = Elems(transmitList) \cup below
      /\ OnceIn(transmitList', below') /\ SendDue'
  BY <1>1, Trying
<1>3. Owned' /\ Disjoint' /\ Counted' /\ Acked'
  <2>1. Outstanding' = Outstanding
    BY <1>2 DEF Outstanding
  <2> QED BY <2>1, SameOutstanding
<1>4. PortTypeOK'
  BY <1>2 DEF PortInv, PortTypeOK
<1> QED BY <1>2, <1>3, <1>4 DEF PortInv

\* An action in atomic mode adds a record that is complete.
LEMMA AtomicKeeps ==
  ASSUME PortInv, NEW addr \in Nat, NEW size \in Nat \ {0}, DmaActionAtomic(addr, size)
  PROVE  PortInv'
<1> DEFINE st == NewReqState(addr, size, size, 1)
<1>1. /\ DSid \in Tag /\ reqState \in Seq(DmaReqState)
  BY DEF PortInv, PortTypeOK
<1>2. st \in DmaReqState /\ st.numBytes = st.totBytes /\ st.completions = 1 /\ st.numBytes \in Nat
  BY <1>1 DEF NewReqState, DmaReqState
<1>3. /\ reqState' = Append(reqState, st)
      /\ UNCHANGED <<DSid, transmitList, sendEvent, inRetry, pendingCount, drainManager, timingMode, below>>
  BY DEF DmaActionAtomic
<1> HIDE DEF st
<1>4. /\ reqState' \in Seq(DmaReqState) /\ DOMAIN reqState' = DOMAIN reqState \cup {Len(reqState) + 1}
      /\ Len(reqState) + 1 \notin DOMAIN reqState /\ reqState'[Len(reqState) + 1] = st
      /\ \A b \in DOMAIN reqState : reqState'[b] = reqState[b]
  BY <1>1, <1>2, <1>3
<1>5. Outstanding' = Outstanding
  BY <1>3 DEF Outstanding, Elems
<1>6. PortTypeOK' /\ OnceIn(transmitList', below') /\ SendDue' /\ Disjoint' /\ Counted'
  <2>1. PortTypeOK'
    BY <1>3, <1>4 DEF PortInv, PortTypeOK
  <2>2. OnceIn(transmitList', below') /\ SendDue'
    BY <1>3 DEF PortInv, SendDue
  <2>3. Disjoint'
    BY <1>5 DEF PortInv, Disjoint
  <2>4. Counted'
    BY <1>3, <1>5 DEF PortInv, Counted
  <2> QED BY <2>1, <2>2, <2>3, <2>4
<1>7. Owned'
  BY <1>4, <1>5 DEF PortInv, Owned, WithinAction
<1>8. Acked'
  <2> SUFFICES ASSUME NEW b \in DOMAIN reqState'
               PROVE  /\ IsFiniteSet(Bytes(b, Outstanding))
                      /\ reqState'[b].numBytes + Cardinality(Bytes(b, Outstanding)) = reqState'[b].totBytes
                      /\ reqState'[b].completions = IF reqState'[b].numBytes = reqState'[b].totBytes THEN 1 ELSE 0
    BY <1>5 DEF Acked, Bytes
  <2>1. CASE b \in DOMAIN reqState
    BY <1>4, <2>1 DEF PortInv, Acked
  <2>2. CASE b = Len(reqState) + 1
    <3>1. {q \in Outstanding : q.act = b} = {}
      BY <1>4, <2>2 DEF PortInv, Owned
    <3>2. Bytes(b, Outstanding) = {}
      BY <3>1 DEF Bytes
    <3>3. IsFiniteSet(Bytes(b, Outstanding)) /\ Cardinality(Bytes(b, Outstanding)) = 0
      BY <3>2, FS_EmptySet
    <3>4. reqState'[b] = st
      BY <1>4, <2>2
    <3> QED BY <1>2, <3>3, <3>4
  <2> QED BY <1>4, <2>1, <2>2
<1> QED BY <1>6, <1>7, <1>8 DEF PortInv

\* What handleResp does to the record of the action.
LEMMA AckIs ==
  ASSUME NEW r \in DmaReqState, NEW p \in DmaPacket
  PROVE  LET st == Ack(r, p)
             new == [st EXCEPT !.completions = Complete(st)]
         IN  /\ new \in DmaReqState /\ new.addr = r.addr /\ new.totBytes = r.totBytes /\ new.DSid = r.DSid
             /\ new.numBytes = r.numBytes + p.size
             /\ new.completions = r.completions + (IF new.totBytes = new.numBytes THEN 1 ELSE 0)
<1> DEFINE st == Ack(r, p)
           n == Complete(st)
           new == [st EXCEPT !.completions = n]
<1>1. p.size \in Nat /\ r.numBytes \in Nat /\ r.completions \in Nat
  BY DEF DmaPacket, DmaReqState
<1>2. /\ st \in DmaReqState /\ st.addr = r.addr /\ st.totBytes = r.totBytes /\ st.DSid = r.DSid
      /\ st.numBytes = r.numBytes + p.size /\ st.completions = r.completions
  BY <1>1 DEF Ack, DmaReqState
<1>3. n \in Nat /\ n = r.completions + (IF st.totBytes = st.numBytes THEN 1 ELSE 0)
  BY <1>1, <1>2 DEF Complete
<1> HIDE DEF st, n
<1>4. /\ new \in DmaReqState /\ new.addr = st.addr /\ new.totBytes = st.totBytes /\ new.DSid = st.DSid
      /\ new.numBytes = st.numBytes /\ new.completions = n
  BY <1>2, <1>3 DEF DmaReqState
<1> HIDE DEF new
<1>5. /\ new \in DmaReqState /\ new.addr = r.addr /\ new.totBytes = r.totBytes /\ new.DSid = r.DSid
      /\ new.numBytes = r.numBytes + p.size
      /\ new.completions = r.completions + (IF new.totBytes = new.numBytes THEN 1 ELSE 0)
  BY <1>2, <1>3, <1>4
<1> QED BY <1>5 DEF new, n, st

\* An answer takes one packet, and its bytes, from those outstanding.
LEMMA ResponseKeeps ==
  ASSUME PortInv, RecvTimingResp
  PROVE  PortInv' /\ (pendingCount' = 0 => Outstanding' = {})
<1>1. PICK p \in below : /\ below' = below \ {p} /\ HandleResp(p)
                         /\ UNCHANGED <<DSid, transmitList, sendEvent, inRetry, timingMode>>
  BY DEF RecvTimingResp
<1> DEFINE a == p.act
           old == reqState[a]
           st == Ack(old, p)
           new == [st EXCEPT !.completions = Complete(st)]
<1>2. /\ reqState \in Seq(DmaReqState) /\ below \in SUBSET DmaPacket /\ pendingCount \in Nat
      /\ p \in DmaPacket /\ p.size \in Nat /\ p.addr \in Nat /\ p \in Outstanding
  BY DEF PortInv, PortTypeOK, DmaPacket, Outstanding
<1>3. a \in DOMAIN reqState /\ WithinAction(p) /\ p.size >= 1 /\ old \in DmaReqState
  BY <1>2 DEF PortInv, Owned
<1>4. /\ old.numBytes \in Nat /\ old.totBytes \in Nat /\ old.completions \in Nat /\ old.addr \in Nat
  BY <1>3 DEF DmaReqState
<1>5. /\ new \in DmaReqState /\ new.addr = old.addr /\ new.totBytes = old.totBytes /\ new.DSid = old.DSid
      /\ new.numBytes = old.numBytes + p.size
      /\ new.completions = old.completions + (IF new.totBytes = new.numBytes THEN 1 ELSE 0)
  BY <1>2, <1>3, AckIs
<1>6. pendingCount' = pendingCount - 1 /\ reqState' = [reqState EXCEPT ![a] = new]
  BY <1>1 DEF HandleResp
<1>7. drainManager' \in BOOLEAN
  BY <1>1 DEF HandleResp, SignalDrain, PortInv, PortTypeOK
<1> HIDE DEF old, new, st
<1>8. /\ reqState' \in Seq(DmaReqState) /\ DOMAIN reqState' = DOMAIN reqState /\ reqState'[a] = new
      /\ \A b \in DOMAIN reqState : b # a => reqState'[b] = reqState[b]
  BY <1>2, <1>3, <1>5, <1>6
<1> HIDE DEF a
<1>9. Outstanding' = Outstanding \ {p}
  <2>1. p \notin Elems(transmitList)
    BY DEF PortInv, OnceIn, Elems
  <2>2. Elems(transmitList)' = Elems(transmitList)
    BY <1>1 DEF Elems
  <2> QED BY <1>1, <2>1, <2>2 DEF Outstanding
<1>10. Counted' /\ pendingCount' \in Nat /\ (pendingCount' = 0 => Outstanding' = {})
  <2>1. IsFiniteSet(Outstanding) /\ pendingCount = Cardinality(Outstanding)
    BY DEF PortInv, Counted
  <2>2. IsFiniteSet(Outstanding \ {p}) /\ Cardinality(Outstanding \ {p}) = Cardinality(Outstanding) - 1
    BY <1>2, <2>1, FS_RemoveElement
  <2>3. Cardinality(Outstanding \ {p}) \in Nat
    BY <2>2, FS_CardinalityType
  <2>4. Cardinality(Outstanding \ {p}) = 0 => Outstanding \ {p} = {}
    BY <2>2, FS_EmptySet
  <2> QED BY <1>6, <1>9, <2>1, <2>2, <2>3, <2>4 DEF Counted
<1>11. PortTypeOK'
  BY <1>1, <1>7, <1>8, <1>10 DEF PortInv, PortTypeOK
<1>12. OnceIn(transmitList', below') /\ SendDue'
  BY <1>1 DEF PortInv, OnceIn, SendDue, Unique
<1>13. Owned'
  <2> SUFFICES ASSUME NEW q \in Outstanding' PROVE q.act \in DOMAIN reqState' /\ WithinAction(q)' /\ q.size >= 1
    BY DEF Owned
  <2>1. q.act \in DOMAIN reqState /\ WithinAction(q) /\ q.size >= 1
    BY <1>9 DEF PortInv, Owned
  <2>2. reqState'[q.act].DSid = reqState[q.act].DSid /\ reqState'[q.act].addr = reqState[q.act].addr
        /\ reqState'[q.act].totBytes = reqState[q.act].totBytes
    BY <1>5, <1>8, <2>1 DEF old
  <2> QED BY <1>8, <2>1, <2>2 DEF WithinAction
<1>14. Disjoint'
  BY <1>9 DEF PortInv, Disjoint
<1>15. Acked'
  <2> SUFFICES ASSUME NEW b \in DOMAIN reqState'
               PROVE  /\ IsFiniteSet(Bytes(b, Outstanding'))
                      /\ reqState'[b].numBytes + Cardinality(Bytes(b, Outstanding')) = reqState'[b].totBytes
                      /\ reqState'[b].completions = IF reqState'[b].numBytes = reqState'[b].totBytes THEN 1 ELSE 0
    BY DEF Acked
  <2>1. CASE b # a
    <3>1. {q \in Outstanding' : q.act = b} = {q \in Outstanding : q.act = b}
      BY <1>9, <2>1 DEF a
    <3>2. Bytes(b, Outstanding') = Bytes(b, Outstanding)
      BY <3>1 DEF Bytes
    <3> QED BY <1>8, <2>1, <3>2 DEF PortInv, Acked
  <2>2. CASE b = a
    <3> DEFINE B == Bytes(a, Outstanding)
    <3>1. /\ IsFiniteSet(B) /\ old.numBytes + Cardinality(B) = old.totBytes
          /\ old.completions = IF old.numBytes = old.totBytes THEN 1 ELSE 0
      BY <1>3 DEF PortInv, Acked, old
    <3>2. Span(p) \subseteq B
      BY <1>2 DEF Bytes, a
    <3>3. IsFiniteSet(Span(p)) /\ Cardinality(Span(p)) = p.size
      <4>1. p.addr \in Int /\ p.addr + p.size - 1 \in Int /\ ~(p.addr > p.addr + p.size - 1)
        BY <1>2, <1>3
      <4>2. IsFiniteSet(p.addr .. (p.addr + p.size - 1)) /\ Cardinality(p.addr .. (p.addr + p.size - 1)) = (p.addr + p.size - 1) - p.addr + 1
        BY <4>1, FS_Interval
      <4> QED BY <1>2, <4>2 DEF Span
    <3>4. Bytes(a, Outstanding') = B \ Span(p)
      <4>1. ASSUME NEW q \in Outstanding, q.act = a, q # p PROVE Span(q) \cap Span(p) = {}
        <5>1. Apart(p, q) /\ q \in DmaPacket
          BY <1>2, <4>1 DEF PortInv, Disjoint, Outstanding, PortTypeOK, Elems
        <5>2. q.addr \in Nat /\ q.size \in Nat
          BY <5>1 DEF DmaPacket
        <5>3. p.addr + p.size <= q.addr \/ q.addr + q.size <= p.addr
          BY <4>1, <5>1 DEF Apart, a
        <5> QED BY <1>2, <5>2, <5>3 DEF Span
      <4>2. \A x : x \in Bytes(a, Outstanding') <=> \E q \in Outstanding : q # p /\ q.act = a /\ x \in Span(q)
        BY <1>9 DEF Bytes
      <4>3. \A x : x \in B <=> \E q \in Outstanding : q.act = a /\ x \in Span(q)
        BY DEF Bytes
      <4> HIDE DEF B
      <4>4. \A x : x \in Bytes(a, Outstanding') <=> x \in B \ Span(p)
        <5> TAKE x
        <5>1. ASSUME x \in Bytes(a, Outstanding') PROVE x \in B \ Span(p)
          BY <4>1, <4>2, <4>3, <5>1
        <5>2. ASSUME x \in B \ Span(p) PROVE x \in Bytes(a, Outstanding')
          BY <4>2, <4>3, <5>2
        <5> QED BY <5>1, <5>2
      <4> QED BY <4>4
    <3>5. IsFiniteSet(B \ Span(p)) /\ Cardinality(B \ Span(p)) = Cardinality(B) - Cardinality(B \cap Span(p))
      BY <3>1, FS_Difference
    <3>6. B \cap Span(p) = Span(p) /\ Cardinality(B) \in Nat /\ Cardinality(B \ Span(p)) \in Nat
      BY <3>1, <3>2, <3>5, FS_CardinalityType
    <3>7. Cardinality(B \ Span(p)) = Cardinality(B) - p.size
      BY <3>3, <3>5, <3>6
    <3> HIDE DEF B
    <3>8. new.numBytes + Cardinality(Bytes(a, Outstanding')) = new.totBytes
      BY <1>2, <1>4, <1>5, <3>1, <3>4, <3>6, <3>7
    <3>9. old.completions = 0
      BY <1>2, <1>3, <1>4, <3>1, <3>6, <3>7
    <3> QED BY <1>4, <1>5, <1>8, <2>2, <3>4, <3>5, <3>8, <3>9
  <2> QED BY <2>1, <2>2
<1> QED BY <1>10, <1>11, <1>12, <1>13, <1>14, <1>15 DEF PortInv

\* Every step keeps the invariant.
LEMMA PortInvariant == PortSpec => []PortInv
<1>1. PortInit => PortInv
  <2> SUFFICES ASSUME PortInit PROVE PortInv
    OBVIOUS
  <2>1. transmitList = << >> /\ below = {} /\ reqState = << >> /\ pendingCount = 0
    BY DEF PortInit
  <2>2. PortTypeOK
    <3>1. DSid \in Tag /\ sendEvent \in BOOLEAN /\ inRetry \in BOOLEAN /\ drainManager \in BOOLEAN /\ timingMode \in BOOLEAN
      BY DEF PortInit, Tag
    <3>2. transmitList \in Seq(DmaPacket) /\ reqState \in Seq(DmaReqState) /\ below \in SUBSET DmaPacket /\ pendingCount \in Nat
      BY <2>1
    <3> QED BY <3>1, <3>2 DEF PortTypeOK
  <2>3. Outstanding = {}
    BY <2>1 DEF Outstanding, Elems
  <2>4. Owned /\ Disjoint /\ Acked
    BY <2>1, <2>3 DEF Owned, Disjoint, Acked
  <2>5. Counted
    BY <2>1, <2>3, FS_EmptySet DEF Counted
  <2>6. OnceIn(transmitList, below) /\ SendDue
    BY DEF PortInit, OnceIn, SendDue, Unique
  <2> QED BY <2>2, <2>4, <2>5, <2>6 DEF PortInv
<1>2. PortInv /\ [PortNext]_dmaVars => PortInv'
  <2> SUFFICES ASSUME PortInv, [PortNext]_dmaVars PROVE PortInv'
    OBVIOUS
  <2>1. CASE DmaAction
    <3>1. PICK addr \in 0 .. MaxAddr, size \in 1 .. MaxSize : DmaActionTiming(addr, size) \/ DmaActionAtomic(addr, size)
      BY <2>1 DEF DmaAction
    <3>2. MaxAddr \in Nat /\ MaxSize \in Nat
      BY SizesHold DEF Sizes
    <3>3. addr \in Nat /\ size \in Nat \ {0}
      BY <3>2
    <3> QED BY <3>1, <3>3, SizesHold, ActionKeeps, AtomicKeeps
  <2>2. CASE ProcessSendEvent
    BY <2>2, SendKeeps DEF ProcessSendEvent
  <2>3. CASE RecvRetry
    BY <2>3, SendKeeps DEF RecvRetry
  <2>4. CASE RecvTimingResp
    BY <2>4, ResponseKeeps
  <2>5. CASE DrainPort \/ SetDSid \/ UNCHANGED dmaVars
    <3>1. UNCHANGED <<transmitList, sendEvent, inRetry, pendingCount, reqState, timingMode, below>>
      BY <2>5 DEF DrainPort, SetDSid, dmaVars, portVars
    <3>2. DSid' \in Tag /\ drainManager' \in BOOLEAN
      BY <2>5 DEF DrainPort, SetDSid, dmaVars, portVars, PortInv, PortTypeOK, Tag
    <3>3. Outstanding' = Outstanding
      BY <3>1 DEF Outstanding, Elems
    <3>4. Owned' /\ Disjoint' /\ Counted' /\ Acked'
      BY <3>1, <3>3, SameOutstanding
    <3>5. PortTypeOK'
      BY <3>1, <3>2 DEF PortInv, PortTypeOK
    <3>6. OnceIn(transmitList', below') /\ SendDue'
      BY <3>1 DEF PortInv, SendDue
    <3> QED BY <3>4, <3>5, <3>6 DEF PortInv
  <2> QED BY <2>1, <2>2, <2>3, <2>4, <2>5 DEF PortNext
<1> QED BY <1>1, <1>2, PTL DEF PortSpec

\* DMA isolation, for any line size, addresses, sizes, tags and number of actions:
\* a packet carries the tag its device had at dmaAction and lies inside the range
\* asked for, however often the control plane retags the device in between.
THEOREM DmaIsolation == PortSpec => []PacketsOfAction
<1>1. PortInv => PacketsOfAction
  BY DEF PortInv, Owned, PacketsOfAction, Outstanding, Elems
<1> QED BY <1>1, PortInvariant, PTL

\* The completion event is scheduled once, by the answer to the last packet,
\* whatever the order of the answers.
THEOREM DmaCompletion == PortSpec => []CompletedOnce
<1>1. PortInv => CompletedOnce
  <2> SUFFICES ASSUME PortInv, NEW a \in DOMAIN reqState
               PROVE  /\ reqState[a].numBytes <= reqState[a].totBytes
                      /\ reqState[a].numBytes = reqState[a].totBytes <=> Queued(a) = {} /\ InMemory(a) = {}
                      /\ reqState[a].completions = IF reqState[a].numBytes = reqState[a].totBytes THEN 1 ELSE 0
    BY DEF CompletedOnce
  <2> DEFINE B == Bytes(a, Outstanding)
  <2>1. /\ IsFiniteSet(B) /\ reqState[a].numBytes + Cardinality(B) = reqState[a].totBytes
        /\ reqState[a].completions = IF reqState[a].numBytes = reqState[a].totBytes THEN 1 ELSE 0
    BY DEF PortInv, Acked
  <2>2. reqState[a] \in DmaReqState
    BY DEF PortInv, PortTypeOK
  <2>3. reqState[a].numBytes \in Nat /\ reqState[a].totBytes \in Nat
    BY <2>2 DEF DmaReqState
  <2>4. Cardinality(B) \in Nat /\ (Cardinality(B) = 0 <=> B = {})
    BY <2>1, FS_CardinalityType, FS_EmptySet
  <2>5. (\E p \in Outstanding : p.act = a) <=> ~(Queued(a) = {} /\ InMemory(a) = {})
    BY DEF Outstanding, Elems, Queued, InMemory
  <2>6. B = {} <=> ~ \E p \in Outstanding : p.act = a
    <3>1. ASSUME NEW p \in Outstanding PROVE p.addr \in Span(p)
      <4>1. p \in DmaPacket /\ p.size >= 1
        BY <3>1 DEF PortInv, Owned, Outstanding, PortTypeOK, Elems
      <4>2. p.addr \in Nat /\ p.size \in Nat
        BY <4>1 DEF DmaPacket
      <4> QED BY <4>1, <4>2 DEF Span
    <3> QED BY <3>1 DEF Bytes
  <2> HIDE DEF B
  <2> QED BY <2>1, <2>3, <2>4, <2>5, <2>6
<1> QED BY <1>1, PortInvariant, PTL

\* signalDrainDone comes with the last answer: nothing is queued or in flight.
THEOREM DrainIdle == PortSpec => DrainSignalledIdle
<1>1. PortInv /\ [PortNext]_dmaVars => (drainManager /\ ~drainManager' => transmitList' = << >> /\ below' = {})
  <2> SUFFICES ASSUME PortInv, [PortNext]_dmaVars, drainManager, ~drainManager' PROVE transmitList' = << >> /\ below' = {}
    OBVIOUS
  <2>1. RecvTimingResp
    BY DEF PortNext, dmaVars, portVars, DmaAction, DmaActionTiming, DmaActionAtomic, ProcessSendEvent, RecvRetry, DrainPort, SetDSid
  <2>2. pendingCount' = 0
    BY <2>1 DEF RecvTimingResp, HandleResp, SignalDrain
  <2>3. Outstanding' = {} /\ PortInv'
    BY <2>1, <2>2, ResponseKeeps
  <2>4. transmitList' \in Seq(DmaPacket) /\ DOMAIN transmitList' = {} /\ below' = {}
    BY <2>3 DEF Outstanding, Elems, PortInv, PortTypeOK
  <2> QED BY <2>4
<1> QED BY <1>1, PortInvariant, PTL DEF PortSpec, DrainSignalledIdle

----------------------------------------------------------------------------
(* The disks and their controller.                                         *)

\* The record of a disk.
DiskFields == {"devID", "image", "nIEN", "cg", "events", "flight", "out", "buf", "cmd", "sec", "lba", "prd",
           "prdAddr", "curSector", "cmdBytes", "cmdBytesLeft", "drqBytesLeft", "dmaRead",
           "intrPending", "dmaAborted", "dmaState", "status", "devState"}
IsDisk(k) == DOMAIN k = DiskFields /\ k = [f \in DiskFields |-> k[f]]

\* States that wait for the driver to acknowledge an interrupt, and those of a
\* resting disk in which none is pending.
Waiting == {"Device_Idle_SI", "Data_Ready_INTRQ_In", "Data_Ready_INTRQ_Out"}
Unaware == {"Device_Idle_S", "Device_Idle_NS", "Transfer_Data_In", "Transfer_Data_Out"}
EventNames == {"Transfer", "PrdRead", "ReadWait", "WriteWait"}

\* No event and no action at the DMA port; exactly one of both.
NoStep(k) == k.events = {} /\ k.flight = {}
OneStep(k) ==
  \/ \E e \in EventNames : k.events = {e} /\ k.flight = {}
  \/ \E f \in k.flight : f.event \in EventNames /\ k.events = {} /\ k.flight = {f}

\* The four phases of a disk: no DMA command; one the driver has not started; one
\* that goes on; one that was stopped, whose next step ends it.  A disk in the
\* last three asks for the driver (DRQ), so that no command reaches it.
Resting(k) ==
  /\ k.dmaState = "Dma_Idle" /\ k.dmaAborted = FALSE
  /\ \/ k.devState \in Waiting /\ k.intrPending = TRUE
     \/ k.devState \in Unaware /\ k.intrPending = FALSE
     \/ k.devState = "Device_Srst" /\ k.intrPending \in BOOLEAN /\ "BSY" \in k.status
Armed(k) ==
  /\ k.dmaState = "Dma_Start" /\ k.dmaAborted = FALSE
  /\ k.devState = "Transfer_Data_Dma" /\ k.intrPending = FALSE /\ "DRQ" \in k.status
Running(k) ==
  /\ k.dmaState = "Dma_Transfer" /\ k.dmaAborted = FALSE
  /\ k.devState = "Transfer_Data_Dma" /\ k.intrPending = FALSE /\ "DRQ" \in k.status
Aborted(k) ==
  /\ k.dmaState = "Dma_Transfer" /\ k.dmaAborted = TRUE
  /\ k.devState = "Device_Dma_Abort" /\ k.intrPending = FALSE /\ "DRQ" \in k.status

\* A disk in one of its phases, with the steps to come that belong to it.
Sound(k) ==
  /\ IsDisk(k)
  /\ \/ Resting(k) /\ NoStep(k)
     \/ Armed(k) /\ NoStep(k)
     \/ Running(k) /\ OneStep(k)
     \/ Aborted(k) /\ OneStep(k)

\* An operation that leaves the DMA engine and the controller alone.
Calm(k, r) ==
  /\ IsDisk(r)
  /\ r.dmaState = k.dmaState /\ r.dmaAborted = k.dmaAborted
  /\ r.events = k.events /\ r.flight = k.flight
  /\ "dmaComplete" \in r.out <=> "dmaComplete" \in k.out

\* Two of them in a row are one.
LEMMA CalmComposes ==
  ASSUME NEW k, NEW r, NEW s, Calm(k, r), Calm(r, s)
  PROVE  Calm(k, s)
BY DEF Calm

\* A failed assertion changes nothing the phases depend on.
LEMMA RequireIs ==
  ASSUME NEW p, NEW k, IsDisk(k)
  PROVE  LET r == Require(p, k)
         IN  Calm(k, r) /\ r.devState = k.devState /\ r.intrPending = k.intrPending /\ r.status = k.status
<1>1. CASE p
  BY <1>1 DEF Calm, Require
<1>2. CASE ~p
  <2>1. Require(p, k) = [k EXCEPT !.out = @ \cup {"panic"}]
    BY <1>2 DEF Require, Panic
  <2> QED BY <2>1 DEF Calm, IsDisk, DiskFields
<1> QED BY <1>1, <1>2

\* What each operation of the disk does to its phase: setComplete,
LEMMA SetCompleteIs ==
  ASSUME NEW k, IsDisk(k)
  PROVE  LET r == SetComplete(k)
         IN  Calm(k, r) /\ r.devState = k.devState /\ r.intrPending = k.intrPending
BY DEF IsDisk, Calm, SetComplete, DiskFields

\* the scheduling of an event,
LEMMA ScheduleIs ==
  ASSUME NEW k, NEW e, IsDisk(k)
  PROVE  LET r == Schedule(k, e)
         IN  /\ IsDisk(r)
             /\ r.dmaState = k.dmaState /\ r.dmaAborted = k.dmaAborted
             /\ r.events = k.events \cup {e} /\ r.flight = k.flight
             /\ "dmaComplete" \in r.out <=> "dmaComplete" \in k.out
             /\ r.devState = k.devState /\ r.intrPending = k.intrPending /\ r.status = k.status
<1> DEFINE s == Require(e \notin k.events, k)
<1>1. Calm(k, s) /\ s.devState = k.devState /\ s.intrPending = k.intrPending /\ s.status = k.status
  BY RequireIs
<1>2. Schedule(k, e) = [s EXCEPT !.events = @ \cup {e}]
  BY DEF Schedule
<1> HIDE DEF s
<1> QED BY <1>1, <1>2 DEF Calm, IsDisk, DiskFields

\* intrPost,
LEMMA IntrPostIs ==
  ASSUME NEW k, IsDisk(k)
  PROVE  LET r == IntrPost(k)
         IN  Calm(k, r) /\ r.devState = k.devState /\ r.intrPending = TRUE /\ r.status = k.status
<1> DEFINE s == Require(~k.intrPending, k)
<1>1. Calm(k, s) /\ s.devState = k.devState /\ s.status = k.status
  BY RequireIs
<1> DEFINE o == s.out \cup {"intrPost"}
           r == [s EXCEPT !.intrPending = TRUE, !.out = o]
<1>2. IntrPost(k) = r
  BY DEF IntrPost
<1> HIDE DEF s
<1>3. o = s.out \cup {"intrPost"}
  OBVIOUS
<1> HIDE DEF o
<1>4. IsDisk(s)
  BY <1>1 DEF Calm
<1>5. /\ IsDisk(r) /\ r.out = o /\ r.dmaState = s.dmaState /\ r.dmaAborted = s.dmaAborted
      /\ r.events = s.events /\ r.flight = s.flight
      /\ r.devState = s.devState /\ r.status = s.status
  BY <1>4 DEF IsDisk, DiskFields
<1>6. r.intrPending = TRUE
  BY <1>4 DEF IsDisk, DiskFields
<1> HIDE DEF r
<1>7. Calm(s, r)
  BY <1>3, <1>5 DEF Calm
<1> QED BY <1>1, <1>2, <1>5, <1>6, <1>7, CalmComposes

\* intrClear,
LEMMA IntrClearIs ==
  ASSUME NEW k, IsDisk(k)
  PROVE  LET r == IntrClear(k)
         IN  Calm(k, r) /\ r.devState = k.devState /\ r.intrPending = FALSE /\ r.status = k.status
<1> DEFINE s == Require(k.intrPending, k)
<1>1. Calm(k, s) /\ s.devState = k.devState /\ s.status = k.status
  BY RequireIs
<1>2. IntrClear(k) = [s EXCEPT !.intrPending = FALSE]
  BY DEF IntrClear
<1> HIDE DEF s
<1> QED BY <1>1, <1>2 DEF Calm, IsDisk, DiskFields

\* the end of a command, with an interrupt unless it is masked,
LEMMA IdleIs ==
  ASSUME NEW k, IsDisk(k)
  PROVE  LET r == Idle(k)
         IN  /\ Calm(k, r) /\ r.status = k.status
             /\ \/ r.devState = "Device_Idle_S" /\ r.intrPending = k.intrPending
                \/ r.devState = "Device_Idle_SI" /\ r.intrPending = TRUE
<1>1. CASE k.nIEN
  <2>1. Idle(k) = [k EXCEPT !.devState = "Device_Idle_S"]
    BY <1>1 DEF Idle
  <2> QED BY <2>1 DEF Calm, IsDisk, DiskFields
<1>2. CASE ~k.nIEN
  <2> DEFINE s == [k EXCEPT !.devState = "Device_Idle_SI"]
  <2>1. Idle(k) = IntrPost(s)
    BY <1>2 DEF Idle
  <2>2. Calm(k, s) /\ s.devState = "Device_Idle_SI" /\ s.status = k.status
    BY DEF Calm, IsDisk, DiskFields
  <2> HIDE DEF s
  <2>3. Calm(s, IntrPost(s)) /\ IntrPost(s).devState = s.devState /\ IntrPost(s).intrPending = TRUE /\ IntrPost(s).status = s.status
    BY <2>2, IntrPostIs DEF Calm
  <2> QED BY <2>1, <2>2, <2>3, CalmComposes
<1> QED BY <1>1, <1>2

\* the next sector for the driver,
LEMMA PrepareDataInIs ==
  ASSUME NEW k, IsDisk(k), k.intrPending = FALSE
  PROVE  LET r == PrepareDataIn(k)
         IN  /\ Calm(k, r)
             /\ \/ r.devState = "Transfer_Data_In" /\ r.intrPending = FALSE
                \/ r.devState = "Data_Ready_INTRQ_In" /\ r.intrPending = TRUE
<1> DEFINE b == IF k.cmd = "IDENTIFY" THEN [k EXCEPT !.buf[1] = IdentifyBlock]
                ELSE IF k.curSector \notin DOMAIN k.image THEN Panic(k)
                ELSE [k EXCEPT !.buf[1] = k.image[k.curSector], !.curSector = @ + 1]
           r == [b EXCEPT !.status = (@ \ {"BSY"}) \cup {"DRQ"}, !.drqBytesLeft = SectorWords]
           s == [r EXCEPT !.devState = "Data_Ready_INTRQ_In"]
           t == [r EXCEPT !.devState = "Transfer_Data_In"]
<1>1. PrepareDataIn(k) = IF k.nIEN THEN t ELSE IntrPost(s)
  BY DEF PrepareDataIn
<1>2. Calm(k, b) /\ b.intrPending = FALSE
  <2>1. CASE k.cmd = "IDENTIFY"
    BY <2>1 DEF Calm, IsDisk, DiskFields
  <2>2. CASE k.cmd # "IDENTIFY" /\ k.curSector \notin DOMAIN k.image
    BY <2>2 DEF Calm, IsDisk, DiskFields, Panic
  <2>3. CASE k.cmd # "IDENTIFY" /\ k.curSector \in DOMAIN k.image
    BY <2>3 DEF Calm, IsDisk, DiskFields
  <2> QED BY <2>1, <2>2, <2>3
<1> HIDE DEF b
<1>3. Calm(b, s) /\ s.intrPending = FALSE /\ s.devState = "Data_Ready_INTRQ_In"
  BY <1>2 DEF Calm, IsDisk, DiskFields
<1>4. Calm(b, t) /\ t.intrPending = FALSE /\ t.devState = "Transfer_Data_In"
  BY <1>2 DEF Calm, IsDisk, DiskFields
<1> HIDE DEF s, t
<1>5. Calm(s, IntrPost(s)) /\ IntrPost(s).devState = s.devState /\ IntrPost(s).intrPending = TRUE
  BY <1>3, IntrPostIs DEF Calm
<1>6. Calm(k, t) /\ Calm(k, IntrPost(s))
  BY <1>2, <1>3, <1>4, <1>5, CalmComposes
<1> QED BY <1>1, <1>3, <1>4, <1>5, <1>6

\* a word for the driver,
LEMMA TransferDataInIs ==
  ASSUME NEW k, IsDisk(k), k.intrPending = FALSE, k.devState = "Transfer_Data_In"
  PROVE  LET r == TransferDataIn(k)
         IN  /\ Calm(k, r)
             /\ \/ r.devState \in {"Transfer_Data_In", "Device_Idle_S"} /\ r.intrPending = FALSE
                \/ r.devState = "Data_Ready_INTRQ_In" /\ r.intrPending = TRUE
<1> DEFINE r == [k EXCEPT !.drqBytesLeft = @ - 1, !.cmdBytesLeft = @ - 1]
           s == [SetComplete(r) EXCEPT !.devState = "Device_Idle_S"]
           t == [r EXCEPT !.devState = "Prepare_Data_In", !.status = (@ \ {"DRQ"}) \cup {"BSY"}]
<1>1. TransferDataIn(k) = IF r.drqBytesLeft # 0 THEN r ELSE IF r.cmdBytesLeft = 0 THEN s ELSE PrepareDataIn(t)
  BY DEF TransferDataIn
<1>2. Calm(k, r) /\ r.intrPending = FALSE /\ r.devState = "Transfer_Data_In"
  BY DEF Calm, IsDisk, DiskFields
<1> HIDE DEF r
<1>3. Calm(r, s) /\ s.intrPending = FALSE /\ s.devState = "Device_Idle_S"
  BY <1>2 DEF Calm, IsDisk, DiskFields, SetComplete
<1>4. Calm(r, t) /\ t.intrPending = FALSE
  BY <1>2 DEF Calm, IsDisk, DiskFields
<1> HIDE DEF s, t
<1>5. /\ Calm(t, PrepareDataIn(t))
      /\ \/ PrepareDataIn(t).devState = "Transfer_Data_In" /\ PrepareDataIn(t).intrPending = FALSE
         \/ PrepareDataIn(t).devState = "Data_Ready_INTRQ_In" /\ PrepareDataIn(t).intrPending = TRUE
  BY <1>4, PrepareDataInIs DEF Calm
<1>6. Calm(k, s) /\ Calm(k, PrepareDataIn(t))
  BY <1>2, <1>3, <1>4, <1>5, CalmComposes
<1>7. CASE r.drqBytesLeft # 0
  BY <1>1, <1>2, <1>7
<1>8. CASE r.drqBytesLeft = 0 /\ r.cmdBytesLeft = 0
  BY <1>1, <1>3, <1>6, <1>8
<1>9. CASE r.drqBytesLeft = 0 /\ r.cmdBytesLeft # 0
  BY <1>1, <1>5, <1>6, <1>9
<1> QED BY <1>7, <1>8, <1>9

\* the next sector from the driver,
LEMMA PrepareDataOutIs ==
  ASSUME NEW k, IsDisk(k), k.intrPending = FALSE
  PROVE  LET r == PrepareDataOut(k)
         IN  /\ Calm(k, r)
             /\ \/ r.devState \in {"Transfer_Data_Out", "Device_Idle_S"} /\ r.intrPending = FALSE
                \/ r.devState \in {"Data_Ready_INTRQ_Out", "Device_Idle_SI"} /\ r.intrPending = TRUE
<1> DEFINE r == [k EXCEPT !.status = (@ \ {"BSY"}) \cup {"DRQ"}, !.buf = ZeroBuffer, !.drqBytesLeft = SectorWords]
           s == [r EXCEPT !.devState = "Transfer_Data_Out"]
           t == [r EXCEPT !.devState = "Data_Ready_INTRQ_Out"]
           u == SetComplete(k)
<1>1. PrepareDataOut(k) = IF k.cmdBytesLeft = 0 THEN Idle(u)
                          ELSE IF k.cmdBytesLeft = k.cmdBytes \/ k.nIEN THEN s ELSE IntrPost(t)
  BY DEF PrepareDataOut
<1>2. Calm(k, u) /\ u.intrPending = FALSE
  BY SetCompleteIs
<1>3. Calm(k, s) /\ s.intrPending = FALSE /\ s.devState = "Transfer_Data_Out"
  BY DEF Calm, IsDisk, DiskFields
<1>4. Calm(k, t) /\ t.devState = "Data_Ready_INTRQ_Out"
  BY DEF Calm, IsDisk, DiskFields
<1> HIDE DEF s, t, u
<1>5. /\ Calm(u, Idle(u))
      /\ \/ Idle(u).devState = "Device_Idle_S" /\ Idle(u).intrPending = FALSE
         \/ Idle(u).devState = "Device_Idle_SI" /\ Idle(u).intrPending = TRUE
  BY <1>2, IdleIs DEF Calm
<1>6. Calm(t, IntrPost(t)) /\ IntrPost(t).devState = t.devState /\ IntrPost(t).intrPending = TRUE
  BY <1>4, IntrPostIs DEF Calm
<1>7. Calm(k, Idle(u)) /\ Calm(k, IntrPost(t))
  BY <1>2, <1>4, <1>5, <1>6, CalmComposes
<1>8. CASE k.cmdBytesLeft = 0
  BY <1>1, <1>5, <1>7, <1>8
<1>9. CASE k.cmdBytesLeft # 0 /\ (k.cmdBytesLeft = k.cmdBytes \/ k.nIEN)
  BY <1>1, <1>3, <1>9
<1>10. CASE k.cmdBytesLeft # 0 /\ ~(k.cmdBytesLeft = k.cmdBytes \/ k.nIEN)
  BY <1>1, <1>4, <1>6, <1>7, <1>10
<1> QED BY <1>8, <1>9, <1>10

\* and a word from the driver.
LEMMA TransferDataOutIs ==
  ASSUME NEW k, NEW w, IsDisk(k), k.intrPending = FALSE, k.devState = "Transfer_Data_Out"
  PROVE  LET r == TransferDataOut(k, w)
         IN  /\ Calm(k, r)
             /\ \/ r.devState \in {"Transfer_Data_Out", "Device_Idle_S"} /\ r.intrPending = FALSE
                \/ r.devState \in {"Data_Ready_INTRQ_Out", "Device_Idle_SI"} /\ r.intrPending = TRUE
<1> DEFINE r == [k EXCEPT !.buf[1][SectorWords - k.drqBytesLeft + 1] = w,
                          !.drqBytesLeft = @ - 1, !.cmdBytesLeft = @ - 1]
           v == WriteDisk(r, r.buf[1])
           t == [v EXCEPT !.devState = "Prepare_Data_Out", !.status = (@ \ {"DRQ"}) \cup {"BSY", "SEEK"}]
<1>1. TransferDataOut(k, w) = IF r.drqBytesLeft # 0 THEN r ELSE PrepareDataOut(t)
  BY DEF TransferDataOut
<1>2. Calm(k, r) /\ r.intrPending = FALSE /\ r.devState = "Transfer_Data_Out"
  BY DEF Calm, IsDisk, DiskFields
<1> HIDE DEF r
<1>3. Calm(r, v) /\ v.intrPending = FALSE
  <2>1. CASE r.curSector \notin DOMAIN r.image
    BY <1>2, <2>1 DEF Calm, IsDisk, DiskFields, WriteDisk, Panic
  <2>2. CASE r.curSector \in DOMAIN r.image
    BY <1>2, <2>2 DEF Calm, IsDisk, DiskFields, WriteDisk
  <2> QED BY <2>1, <2>2
<1> HIDE DEF v
<1>4. Calm(v, t) /\ t.intrPending = FALSE
  BY <1>3 DEF Calm, IsDisk, DiskFields
<1> HIDE DEF t
<1>5. LET s == PrepareDataOut(t)
      IN  /\ Calm(t, s)
          /\ \/ s.devState \in {"Transfer_Data_Out", "Device_Idle_S"} /\ s.intrPending = FALSE
             \/ s.devState \in {"Data_Ready_INTRQ_Out", "Device_Idle_SI"} /\ s.intrPending = TRUE
  BY <1>4, PrepareDataOutIs DEF Calm
<1>6. Calm(k, PrepareDataOut(t))
  BY <1>2, <1>3, <1>4, <1>5, CalmComposes
<1> QED BY <1>1, <1>2, <1>5, <1>6

\* A command leaves the disk resting, or armed for DMA with DRQ set.
LEMMA StartCommandIs ==
  ASSUME NEW k, IsDisk(k), k.intrPending = FALSE, k.dmaState = "Dma_Idle", k.dmaAborted = FALSE, k.cmd \in Commands
  PROVE  LET r == StartCommand(k)
         IN  /\ IsDisk(r) /\ r.events = k.events /\ r.flight = k.flight
             /\ "dmaComplete" \in r.out <=> "dmaComplete" \in k.out
             /\ Resting(r) \/ Armed(r)
<1> DEFINE size == IF k.cmd = "IDENTIFY" THEN SectorWords ELSE k.sec * SectorWords
           r == [k EXCEPT !.status = (@ \ {"DRQ"}) \cup {"BSY"}, !.dmaRead = k.cmd = "WRITEDMA"]
           d == [r EXCEPT !.cmdBytes = size, !.cmdBytesLeft = size,
                          !.curSector = IF k.cmd = "IDENTIFY" THEN @ ELSE k.lba]
           q == Require(k.dmaState = "Dma_Idle", d)
           m == [q EXCEPT !.status = (@ \ {"BSY"}) \cup {"DRQ"},
                          !.devState = "Transfer_Data_Dma", !.dmaState = "Dma_Start"]
<1>1. /\ k.cmd = "RECAL" => StartCommand(k) = Idle(SetComplete(r))
      /\ k.cmd \in {"IDENTIFY", "READ"} => StartCommand(k) = PrepareDataIn(d)
      /\ k.cmd = "WRITE" => StartCommand(k) = PrepareDataOut(d)
      /\ k.cmd \in DmaCommands => StartCommand(k) = m
  BY DEF StartCommand, DmaCommands
<1> HIDE DEF size
<1>2. Calm(k, r) /\ r.intrPending = FALSE
  BY DEF Calm, IsDisk, DiskFields
<1> HIDE DEF r
<1>3. Calm(r, d) /\ d.intrPending = FALSE
  BY <1>2 DEF Calm, IsDisk, DiskFields
<1> HIDE DEF d
<1>4. Calm(k, d)
  BY <1>2, <1>3, CalmComposes
<1>5. Calm(d, q) /\ q.intrPending = FALSE
  BY <1>3, RequireIs DEF Calm
<1> HIDE DEF q
<1>6. CASE k.cmd = "RECAL"
  <2> DEFINE u == SetComplete(r)
             v == Idle(u)
  <2>1. Calm(r, u) /\ u.intrPending = FALSE
    BY <1>2, SetCompleteIs DEF Calm
  <2> HIDE DEF u
  <2>2. /\ Calm(u, v)
        /\ \/ v.devState = "Device_Idle_S" /\ v.intrPending = FALSE
           \/ v.devState = "Device_Idle_SI" /\ v.intrPending = TRUE
    BY <2>1, IdleIs DEF Calm
  <2>3. StartCommand(k) = v
    BY <1>1, <1>6 DEF u
  <2> HIDE DEF v
  <2>4. Calm(k, v)
    BY <1>2, <2>1, <2>2, CalmComposes
  <2> QED BY <2>2, <2>3, <2>4 DEF Calm, Resting, Unaware, Waiting
<1>7. CASE k.cmd \in {"IDENTIFY", "READ"}
  <2> DEFINE v == PrepareDataIn(d)
  <2>1. /\ Calm(d, v)
        /\ \/ v.devState = "Transfer_Data_In" /\ v.intrPending = FALSE
           \/ v.devState = "Data_Ready_INTRQ_In" /\ v.intrPending = TRUE
    BY <1>3, PrepareDataInIs DEF Calm
  <2>2. StartCommand(k) = v
    BY <1>1, <1>7
  <2> HIDE DEF v
  <2>3. Calm(k, v)
    BY <1>4, <2>1, CalmComposes
  <2> QED BY <2>1, <2>2, <2>3 DEF Calm, Resting, Unaware, Waiting
<1>8. CASE k.cmd = "WRITE"
  <2> DEFINE v == PrepareDataOut(d)
  <2>1. /\ Calm(d, v)
        /\ \/ v.devState \in {"Transfer_Data_Out", "Device_Idle_S"} /\ v.intrPending = FALSE
           \/ v.devState \in {"Data_Ready_INTRQ_Out", "Device_Idle_SI"} /\ v.intrPending = TRUE
    BY <1>3, PrepareDataOutIs DEF Calm
  <2>2. StartCommand(k) = v
    BY <1>1, <1>8
  <2> HIDE DEF v
  <2>3. Calm(k, v)
    BY <1>4, <2>1, CalmComposes
  <2> QED BY <2>1, <2>2, <2>3 DEF Calm, Resting, Unaware, Waiting
<1>9. CASE k.cmd \in DmaCommands
  <2>1. StartCommand(k) = m
    BY <1>1, <1>9
  <2>2. /\ IsDisk(m) /\ m.events = q.events /\ m.flight = q.flight /\ m.out = q.out
        /\ m.dmaState = "Dma_Start" /\ m.dmaAborted = q.dmaAborted /\ m.devState = "Transfer_Data_Dma"
        /\ m.intrPending = q.intrPending /\ "DRQ" \in m.status
    BY <1>5 DEF Calm, IsDisk, DiskFields
  <2> HIDE DEF m
  <2>3. Calm(k, q)
    BY <1>4, <1>5, CalmComposes
  <2> QED BY <1>5, <2>1, <2>2, <2>3 DEF Calm, Armed
<1> QED BY <1>6, <1>7, <1>8, <1>9 DEF Commands, DmaCommands

\* The end of a DMA command tells the controller.
LEMMA DmaCompleteIs ==
  ASSUME NEW k, IsDisk(k), k.intrPending = FALSE, k.dmaState = "Dma_Idle", k.dmaAborted = FALSE
  PROVE  LET r == DmaComplete(k)
         IN  /\ IsDisk(r) /\ r.events = k.events /\ r.flight = k.flight
             /\ "dmaComplete" \in r.out /\ Resting(r)
<1> DEFINE u == SetComplete(k)
           v == [u EXCEPT !.out = @ \cup {"dmaComplete"}]
           r == Idle(v)
<1>1. DmaComplete(k) = r
  BY DEF DmaComplete
<1>2. Calm(k, u) /\ u.intrPending = FALSE
  BY SetCompleteIs
<1> HIDE DEF u
<1>3. /\ IsDisk(v) /\ v.events = u.events /\ v.flight = u.flight /\ "dmaComplete" \in v.out
      /\ v.dmaState = u.dmaState /\ v.dmaAborted = u.dmaAborted /\ v.intrPending = FALSE
  BY <1>2 DEF Calm, IsDisk, DiskFields
<1> HIDE DEF v
<1>4. /\ Calm(v, r)
      /\ \/ r.devState = "Device_Idle_S" /\ r.intrPending = FALSE
         \/ r.devState = "Device_Idle_SI" /\ r.intrPending = TRUE
  BY <1>3, IdleIs
<1> HIDE DEF r
<1> QED BY <1>1, <1>2, <1>3, <1>4 DEF Calm, Resting, Unaware, Waiting

\* A reset leaves a resting disk; it removes no event.
LEMMA ResetIs ==
  ASSUME NEW k, NEW id, IsDisk(k)
  PROVE  LET r == Reset(k, id)
         IN  /\ IsDisk(r) /\ r.events = k.events /\ r.flight = k.flight /\ r.out = k.out
             /\ Resting(r)
<1> DEFINE st == IF id = 0 THEN "Device_Idle_S" ELSE "Device_Idle_NS"
           a == [k EXCEPT !.buf = ZeroBuffer, !.cmd = "none", !.sec = 0, !.lba = 0, !.prd = ZeroPrd]
           b == [a EXCEPT !.prdAddr = 0, !.curSector = 0, !.cmdBytes = 0, !.cmdBytesLeft = 0,
                          !.drqBytesLeft = 0, !.dmaRead = FALSE]
           r == [b EXCEPT !.intrPending = FALSE, !.dmaAborted = FALSE, !.dmaState = "Dma_Idle",
                          !.status = {}, !.devState = st]
<1>1. Reset(k, id) = r
  BY DEF Reset
<1>2. st \in {"Device_Idle_S", "Device_Idle_NS"}
  OBVIOUS
<1> HIDE DEF st
<1>4. IsDisk(a) /\ a.events = k.events /\ a.flight = k.flight /\ a.out = k.out
  BY DEF IsDisk, DiskFields
<1> HIDE DEF a
<1>5. IsDisk(b) /\ b.events = k.events /\ b.flight = k.flight /\ b.out = k.out
  BY <1>4 DEF IsDisk, DiskFields
<1> HIDE DEF b
<1>3. /\ IsDisk(r) /\ r.events = k.events /\ r.flight = k.flight /\ r.out = k.out
      /\ r.devState = st /\ r.intrPending = FALSE /\ r.dmaAborted = FALSE /\ r.dmaState = "Dma_Idle"
  BY <1>5 DEF IsDisk, DiskFields
<1> HIDE DEF r
<1> QED BY <1>1, <1>2, <1>3 DEF Resting, Unaware

\* An operation that gives the disk no step and takes none.
Follows(k, r) ==
  /\ IsDisk(r) /\ r.events = k.events /\ r.flight = k.flight
  /\ "dmaComplete" \in r.out <=> "dmaComplete" \in k.out

\* updateState in a resting disk: it rests, or a command arms it.
LEMMA UpdateRests ==
  ASSUME NEW k, NEW action, NEW selected, NEW word, IsDisk(k), Resting(k),
         action = "CMD_WRITE" => k.cmd \in Commands
  PROVE  LET r == UpdateState(k, action, selected, word)
         IN  Follows(k, r) /\ (Resting(r) \/ (Armed(r) /\ action = "CMD_WRITE"))
<1> SUFFICES ASSUME NEW r, r = UpdateState(k, action, selected, word)
             PROVE  Follows(k, r) /\ (Resting(r) \/ (Armed(r) /\ action = "CMD_WRITE"))
  OBVIOUS
<1> DEFINE Goal == Follows(k, r) /\ (Resting(r) \/ (Armed(r) /\ action = "CMD_WRITE"))
<1>1. k.dmaState = "Dma_Idle" /\ k.dmaAborted = FALSE
  BY DEF Resting
<1>2. CASE r = k
  BY <1>2 DEF Follows
<1>3. ASSUME NEW s \in Unaware, Calm(k, r), r.devState = s, r.intrPending = FALSE PROVE Goal
  BY <1>1, <1>3 DEF Follows, Calm, Resting
<1>4. ASSUME NEW s, r = IntrClear([k EXCEPT !.devState = s]), s \in Unaware PROVE Goal
  <2> DEFINE u == [k EXCEPT !.devState = s]
  <2>1. Calm(k, u) /\ u.devState = s
    BY DEF Calm, IsDisk, DiskFields
  <2>2. r = IntrClear(u)
    BY <1>4
  <2> HIDE DEF u
  <2>3. Calm(u, r) /\ r.devState = s /\ r.intrPending = FALSE
    BY <2>1, <2>2, IntrClearIs DEF Calm
  <2> QED BY <1>1, <1>4, <2>1, <2>3 DEF Follows, Calm, Resting
<1>5. CASE k.devState = "Device_Srst"
  <2>1. r \in {k, [k EXCEPT !.status = @ \cup {"BSY"}], Reset(k, k.devID)}
    BY <1>5 DEF UpdateState
  <2>2. CASE r = Reset(k, k.devID)
    BY <2>2, ResetIs DEF Follows
  <2>3. CASE r = [k EXCEPT !.status = @ \cup {"BSY"}]
    <3>1. Calm(k, r) /\ r.devState = k.devState /\ r.intrPending = k.intrPending /\ "BSY" \in r.status
      BY <2>3 DEF Calm, IsDisk, DiskFields
    <3>2. k.intrPending \in BOOLEAN
      BY DEF Resting
    <3> QED BY <1>1, <1>5, <3>1, <3>2 DEF Follows, Calm, Resting
  <2> QED BY <1>2, <2>1, <2>2, <2>3
<1>6. CASE k.devState = "Device_Idle_S"
  <2>1. \/ r \in {k, [k EXCEPT !.devState = "Device_Idle_NS"]}
        \/ action = "CMD_WRITE" /\ r = StartCommand(k)
    BY <1>6 DEF UpdateState
  <2>2. k.intrPending = FALSE
    BY <1>6 DEF Resting, Waiting
  <2>3. CASE action = "CMD_WRITE" /\ r = StartCommand(k)
    BY <1>1, <2>2, <2>3, StartCommandIs DEF Follows
  <2>4. CASE r = [k EXCEPT !.devState = "Device_Idle_NS"]
    <3>1. Calm(k, r) /\ r.devState = "Device_Idle_NS" /\ r.intrPending = FALSE
      BY <2>2, <2>4 DEF Calm, IsDisk, DiskFields
    <3> QED BY <1>3, <3>1 DEF Unaware
  <2> QED BY <1>2, <2>1, <2>3, <2>4
<1>7. CASE k.devState = "Device_Idle_SI"
  <2>1. \/ r \in {k, IntrClear([k EXCEPT !.devState = "Device_Idle_NS"]),
                  IntrClear([k EXCEPT !.devState = "Device_Idle_S"])}
        \/ action = "CMD_WRITE" /\ r = StartCommand(IntrClear(k))
    BY <1>7 DEF UpdateState
  <2>2. CASE action = "CMD_WRITE" /\ r = StartCommand(IntrClear(k))
    <3> DEFINE u == IntrClear(k)
    <3>1. Calm(k, u) /\ u.intrPending = FALSE
      BY IntrClearIs
    <3>2. u.cmd = k.cmd
      <4> DEFINE q == Require(k.intrPending, k)
      <4>1. q.cmd = k.cmd /\ IsDisk(q)
        <5>1. CASE k.intrPending
          BY <5>1 DEF Require
        <5>2. CASE ~k.intrPending
          BY <5>2 DEF Require, Panic, IsDisk, DiskFields
        <5> QED BY <5>1, <5>2
      <4>2. u = [q EXCEPT !.intrPending = FALSE]
        BY DEF IntrClear
      <4> HIDE DEF q
      <4> QED BY <4>1, <4>2 DEF IsDisk, DiskFields
    <3> HIDE DEF u
    <3>3. r = StartCommand(u)
      BY <2>2 DEF u
    <3>4. Follows(u, r) /\ (Resting(r) \/ Armed(r))
      BY <1>1, <2>2, <3>1, <3>2, <3>3, StartCommandIs DEF Follows, Calm
    <3> QED BY <2>2, <3>1, <3>4 DEF Follows, Calm
  <2> QED BY <1>2, <1>4, <2>1, <2>2 DEF Unaware
<1>8. CASE k.devState = "Device_Idle_NS"
  <2>1. \/ r = k
        \/ k.intrPending /\ r = IntrPost([k EXCEPT !.devState = "Device_Idle_SI"])
        \/ r = [k EXCEPT !.devState = "Device_Idle_S"]
    BY <1>8 DEF UpdateState
  <2>2. k.intrPending = FALSE
    BY <1>8 DEF Resting, Waiting
  <2>3. CASE r = [k EXCEPT !.devState = "Device_Idle_S"]
    <3>1. Calm(k, r) /\ r.devState = "Device_Idle_S" /\ r.intrPending = FALSE
      BY <2>2, <2>3 DEF Calm, IsDisk, DiskFields
    <3> QED BY <1>3, <3>1 DEF Unaware
  <2> QED BY <1>2, <2>1, <2>2, <2>3
<1>9. CASE k.devState = "Data_Ready_INTRQ_In"
  <2>1. r \in {k, IntrClear([k EXCEPT !.devState = "Transfer_Data_In"])}
    BY <1>9 DEF UpdateState
  <2> QED BY <1>2, <1>4, <2>1 DEF Unaware
<1>10. CASE k.devState = "Data_Ready_INTRQ_Out"
  <2>1. r \in {k, IntrClear([k EXCEPT !.devState = "Transfer_Data_Out"])}
    BY <1>10 DEF UpdateState
  <2> QED BY <1>2, <1>4, <2>1 DEF Unaware
<1>11. CASE k.devState = "Transfer_Data_In"
  <2>1. r \in {k, TransferDataIn(k)}
    BY <1>11 DEF UpdateState
  <2>2. k.intrPending = FALSE
    BY <1>11 DEF Resting, Waiting
  <2>3. CASE r = TransferDataIn(k)
    <3>1. /\ Calm(k, r)
          /\ \/ r.devState \in {"Transfer_Data_In", "Device_Idle_S"} /\ r.intrPending = FALSE
             \/ r.devState = "Data_Ready_INTRQ_In" /\ r.intrPending = TRUE
      BY <1>11, <2>2, <2>3, TransferDataInIs
    <3> QED BY <1>1, <3>1 DEF Follows, Calm, Resting, Unaware, Waiting
  <2> QED BY <1>2, <2>1, <2>3
<1>12. CASE k.devState = "Transfer_Data_Out"
  <2>1. r \in {k, TransferDataOut(k, word)}
    BY <1>12 DEF UpdateState
  <2>2. k.intrPending = FALSE
    BY <1>12 DEF Resting, Waiting
  <2>3. CASE r = TransferDataOut(k, word)
    <3>1. /\ Calm(k, r)
          /\ \/ r.devState \in {"Transfer_Data_Out", "Device_Idle_S"} /\ r.intrPending = FALSE
             \/ r.devState \in {"Data_Ready_INTRQ_Out", "Device_Idle_SI"} /\ r.intrPending = TRUE
      BY <1>12, <2>2, <2>3, TransferDataOutIs
    <3> QED BY <1>1, <3>1 DEF Follows, Calm, Resting, Unaware, Waiting
  <2> QED BY <1>2, <2>1, <2>3
<1>13. k.devState \in Waiting \cup Unaware \cup {"Device_Srst"}
  BY DEF Resting
<1> HIDE DEF Goal
<1> QED BY <1>5, <1>6, <1>7, <1>8, <1>9, <1>10, <1>11, <1>12, <1>13 DEF Waiting, Unaware

\* The same for an action that is not a command.
LEMMA UpdateStaysResting ==
  ASSUME NEW k, NEW action, NEW w, NEW r, IsDisk(k), Resting(k), action # "CMD_WRITE",
         r = UpdateState(k, action, TRUE, w)
  PROVE  Follows(k, r) /\ Resting(r)
<1> DEFINE selected == TRUE
           t == UpdateState(k, action, selected, w)
<1>1. Follows(k, t) /\ (Resting(t) \/ (Armed(t) /\ action = "CMD_WRITE"))
  <2>1. action = "CMD_WRITE" => k.cmd \in Commands
    OBVIOUS
  <2> HIDE DEF selected
  <2> QED BY <2>1, UpdateRests
<1> QED BY <1>1

\* Only an abort, and the end of the transfer, concern a disk whose DMA is
\* armed or going on.
LEMMA UpdateStays ==
  ASSUME NEW k, NEW action, NEW selected, NEW word, action \notin {"CMD_ERROR", "DMA_DONE"},
         k.devState \in {"Transfer_Data_Dma", "Device_Dma_Abort"}
  PROVE  UpdateState(k, action, selected, word) = k
BY DEF UpdateState

\* What a step of a transfer comes to: one more step, or the end.
Progress(k, r) ==
  /\ IsDisk(r)
  /\ \/ Running(k) /\ Running(r) /\ OneStep(r) /\ "dmaComplete" \notin r.out
     \/ Resting(r) /\ NoStep(r) /\ "dmaComplete" \in r.out

\* An operation that leaves alone what the transfer's phase depends on.
Alike(k, r) == Calm(k, r) /\ r.devState = k.devState /\ r.intrPending = k.intrPending /\ r.status = k.status

\* A transfer between two steps.
Between(k) == IsDisk(k) /\ NoStep(k) /\ "dmaComplete" \notin k.out

\* Progress after an operation that changes nothing of the phase.
LEMMA ProgressFrom ==
  ASSUME NEW k, NEW s, NEW r, Running(k), Alike(k, s), Progress(s, r)
  PROVE  Progress(k, r)
BY DEF Progress, Alike, Calm, Running

\* Such an operation leaves a transfer going on,
LEMMA AlikeRuns ==
  ASSUME NEW k, NEW r, Between(k), Running(k), Alike(k, r)
  PROVE  Between(r) /\ Running(r)
BY DEF Alike, Calm, Running, Between, NoStep

\* and so do two.
LEMMA AlikeComposes ==
  ASSUME NEW k, NEW r, NEW s, Alike(k, r), Alike(r, s)
  PROVE  Alike(k, s)
BY DEF Alike, Calm

\* The next step is an event,
LEMMA ScheduleRuns ==
  ASSUME NEW k, NEW e \in EventNames, Between(k), Running(k)
  PROVE  Progress(k, Schedule(k, e))
<1> DEFINE r == Schedule(k, e)
<1>1. /\ IsDisk(r)
      /\ r.dmaState = k.dmaState /\ r.dmaAborted = k.dmaAborted
      /\ r.events = k.events \cup {e} /\ r.flight = k.flight
      /\ "dmaComplete" \in r.out <=> "dmaComplete" \in k.out
      /\ r.devState = k.devState /\ r.intrPending = k.intrPending /\ r.status = k.status
  BY ScheduleIs DEF Between
<1> HIDE DEF r
<1>2. r.events = {e} /\ r.flight = {}
  BY <1>1 DEF Between, NoStep
<1>3. OneStep(r)
  BY <1>2 DEF OneStep
<1>4. Progress(k, r)
  BY <1>1, <1>3 DEF Progress, Running, Between
<1> QED BY <1>4 DEF r

\* or an action at the DMA port.
LEMMA FlightRuns ==
  ASSUME NEW k, NEW r, NEW f, Between(k), Running(k), f.event \in EventNames,
         Calm([k EXCEPT !.flight = {f}], r), r.devState = k.devState, r.intrPending = k.intrPending, r.status = k.status
  PROVE  Progress(k, r)
<1> DEFINE s == [k EXCEPT !.flight = {f}]
<1>1. /\ s.dmaState = k.dmaState /\ s.dmaAborted = k.dmaAborted
      /\ s.events = k.events /\ s.flight = {f} /\ s.out = k.out
  BY DEF Between, IsDisk, DiskFields
<1> HIDE DEF s
<1>2. Calm(s, r)
  BY DEF s
<1>3. r.events = {} /\ r.flight = {f}
  BY <1>1, <1>2 DEF Calm, Between, NoStep
<1>4. OneStep(r)
  BY <1>3 DEF OneStep
<1> QED BY <1>1, <1>2, <1>4 DEF Progress, Running, Between, Calm

\* A stopped transfer ends at its next step.
LEMMA AbortEnds ==
  ASSUME NEW k, Between(k), Aborted(k)
  PROVE  Progress(k, Update(k, "CMD_ERROR"))
<1> DEFINE s == [k EXCEPT !.dmaAborted = FALSE, !.dmaState = "Dma_Idle"]
<1>1. Update(k, "CMD_ERROR") = DmaComplete(s)
  BY DEF Update, UpdateState, Aborted
<1>2. /\ IsDisk(s) /\ s.intrPending = FALSE /\ s.dmaState = "Dma_Idle" /\ s.dmaAborted = FALSE
      /\ s.events = k.events /\ s.flight = k.flight
  BY DEF IsDisk, DiskFields, Between, Aborted
<1> HIDE DEF s
<1>3. LET r == DmaComplete(s)
      IN  /\ IsDisk(r) /\ r.events = s.events /\ r.flight = s.flight
          /\ "dmaComplete" \in r.out /\ Resting(r)
  BY <1>2, DmaCompleteIs
<1> QED BY <1>1, <1>2, <1>3 DEF Progress, NoStep, Between

\* Each step of the DMA engine is progress: doDmaTransfer,
LEMMA DoDmaTransferIs ==
  ASSUME NEW k, NEW busy, Between(k), Running(k) \/ Aborted(k)
  PROVE  Progress(k, DoDmaTransfer(k, busy))
<1>1. CASE Aborted(k)
  BY <1>1, AbortEnds DEF DoDmaTransfer, Aborted
<1>2. CASE Running(k) /\ busy
  <2>1. DoDmaTransfer(k, busy) = Schedule(k, "Transfer")
    BY <1>2 DEF DoDmaTransfer, Running
  <2> QED BY <1>2, <2>1, ScheduleRuns DEF EventNames
<1>3. CASE Running(k) /\ ~busy
  <2> DEFINE f == Dma("PrdRead", k.prdAddr, ZeroSector)
             r == [k EXCEPT !.flight = @ \cup {f}]
  <2>1. DoDmaTransfer(k, busy) = r
    BY <1>3 DEF DoDmaTransfer, Running
  <2>2. f.event \in EventNames
    BY DEF Dma, EventNames
  <2> HIDE DEF f
  <2>3. r = [k EXCEPT !.flight = {f}]
    BY DEF Between, NoStep, IsDisk, DiskFields
  <2>4. Calm(r, r) /\ r.devState = k.devState /\ r.intrPending = k.intrPending /\ r.status = k.status
    BY DEF Between, IsDisk, DiskFields, Calm
  <2> HIDE DEF r
  <2> QED BY <1>3, <2>1, <2>2, <2>3, <2>4, FlightRuns
<1> QED BY <1>1, <1>2, <1>3

\* the end of a PRD entry, which ends the transfer or goes on to the next,
LEMMA EndOfPrdIs ==
  ASSUME NEW k, NEW busy, Between(k), Running(k)
  PROVE  Progress(k, EndOfPrd(k, busy))
<1>1. CASE k.prd.eot
  <2> DEFINE q == Require(k.cmdBytesLeft = 0, k)
             s == [q EXCEPT !.dmaState = "Dma_Idle"]
  <2>1. EndOfPrd(k, busy) = Update(s, "DMA_DONE")
    BY <1>1 DEF EndOfPrd
  <2>2. Calm(k, q) /\ q.devState = k.devState /\ q.intrPending = k.intrPending
    BY RequireIs DEF Between
  <2> HIDE DEF q
  <2>3. /\ IsDisk(s) /\ s.intrPending = FALSE /\ s.dmaState = "Dma_Idle" /\ s.dmaAborted = FALSE
        /\ s.devState = "Transfer_Data_Dma"
        /\ s.events = k.events /\ s.flight = k.flight
    BY <2>2 DEF IsDisk, DiskFields, Calm, Running
  <2> HIDE DEF s
  <2>4. Update(s, "DMA_DONE") = DmaComplete(s)
    BY <2>3 DEF Update, UpdateState
  <2>5. LET r == DmaComplete(s)
        IN  /\ IsDisk(r) /\ r.events = s.events /\ r.flight = s.flight
            /\ "dmaComplete" \in r.out /\ Resting(r)
    BY <2>3, DmaCompleteIs
  <2> QED BY <2>1, <2>3, <2>4, <2>5 DEF Progress, NoStep, Between
<1>2. CASE ~k.prd.eot
  BY <1>2, DoDmaTransferIs DEF EndOfPrd
<1> QED BY <1>1, <1>2

\* dmaPrdReadDone,
LEMMA DmaPrdReadDoneIs ==
  ASSUME NEW k, Between(k), Running(k) \/ Aborted(k)
  PROVE  Progress(k, DmaPrdReadDone(k))
<1> DEFINE sectors == [i \in 1..BufSize |-> IF i <= k.prd.n /\ k.curSector + i - 1 \in DOMAIN k.image
                                            THEN k.image[k.curSector + i - 1] ELSE ZeroSector]
           r == [k EXCEPT !.prdAddr = @ + 1]
           q == Require(k.curSector + k.prd.n <= NumSectors, r)
           s == [q EXCEPT !.buf = sectors, !.curSector = @ + k.prd.n,
                          !.cmdBytesLeft = @ - k.prd.n * SectorWords]
<1>1. DmaPrdReadDone(k) = IF k.dmaAborted THEN Update(k, "CMD_ERROR")
                          ELSE IF k.dmaRead THEN Schedule(r, "ReadWait") ELSE Schedule(s, "WriteWait")
  BY DEF DmaPrdReadDone
<1>2. CASE Aborted(k)
  BY <1>1, <1>2, AbortEnds DEF Aborted
<1>3. CASE Running(k)
  <2> HIDE DEF sectors
  <2>1. Alike(k, r)
    BY DEF Between, Alike, Calm, IsDisk, DiskFields
  <2> HIDE DEF r
  <2>2. Alike(r, q)
    BY <2>1, RequireIs DEF Alike, Calm
  <2> HIDE DEF q
  <2>3. Alike(q, s)
    BY <2>2 DEF Alike, Calm, IsDisk, DiskFields
  <2> HIDE DEF s
  <2>4. Alike(k, s)
    BY <2>1, <2>2, <2>3, AlikeComposes
  <2>5. Progress(k, Schedule(r, "ReadWait")) /\ Progress(k, Schedule(s, "WriteWait"))
    BY <1>3, <2>1, <2>4, AlikeRuns, ScheduleRuns, ProgressFrom DEF EventNames
  <2>6. k.dmaAborted = FALSE
    BY <1>3 DEF Running
  <2> QED BY <1>1, <2>5, <2>6
<1> QED BY <1>2, <1>3

\* dmaReadDone,
LEMMA DmaReadDoneIs ==
  ASSUME NEW k, NEW busy, Between(k), Running(k)
  PROVE  Progress(k, DmaReadDone(k, busy))
<1> DEFINE n == k.prd.n
           image == [t \in DOMAIN k.image |-> IF t \in k.curSector .. k.curSector + n - 1
                                             THEN k.buf[t - k.curSector + 1] ELSE k.image[t]]
           r == [k EXCEPT !.image = image, !.curSector = @ + n, !.cmdBytesLeft = @ - n * SectorWords]
           q == Require(k.curSector + n <= NumSectors, r)
<1>1. DmaReadDone(k, busy) = EndOfPrd(q, busy)
  BY DEF DmaReadDone
<1> HIDE DEF n, image
<1>2. Alike(k, r)
  BY DEF Between, Alike, Calm, IsDisk, DiskFields
<1> HIDE DEF r
<1>3. Alike(r, q)
  BY <1>2, RequireIs DEF Alike, Calm
<1> HIDE DEF q
<1>4. Alike(k, q)
  BY <1>2, <1>3, AlikeComposes
<1> QED BY <1>1, <1>4, AlikeRuns, EndOfPrdIs, ProgressFrom

\* A chunk goes to the DMA port.
LEMMA ChunkRuns ==
  ASSUME NEW k, NEW s, NEW r, NEW f, Between(k), Running(k), Alike(k, s), f.event \in EventNames,
         Calm([s EXCEPT !.flight = {f}], r), r.devState = s.devState, r.intrPending = s.intrPending, r.status = s.status
  PROVE  Progress(k, r)
<1>1. Between(s) /\ Running(s)
  BY AlikeRuns
<1>2. Progress(s, r)
  BY <1>1, FlightRuns
<1> QED BY <1>2, ProgressFrom

\* doDmaRead,
LEMMA DoDmaReadIs ==
  ASSUME NEW k, NEW busy, NEW m, Between(k), Running(k) \/ Aborted(k)
  PROVE  Progress(k, DoDmaRead(k, busy, m))
<1> DEFINE r == IF k.cg = NoCG THEN [k EXCEPT !.cg = 0, !.buf = ZeroBuffer] ELSE k
           a == [k EXCEPT !.cg = NoCG]
           f == Dma("ReadWait", r.prd.base + r.cg, ZeroSector)
           c == [r EXCEPT !.cg = @ + 1, !.buf[r.cg + 1] = m[r.prd.base + r.cg], !.flight = @ \cup {f}]
           d == [r EXCEPT !.cg = NoCG]
<1>1. DoDmaRead(k, busy, m) = IF k.dmaAborted THEN Update(a, "CMD_ERROR")
                              ELSE IF busy THEN Schedule(r, "ReadWait")
                              ELSE IF r.cg < r.prd.n THEN c ELSE DmaReadDone(d, busy)
  BY DEF DoDmaRead
<1>2. CASE Aborted(k)
  <2>1. Between(a) /\ Aborted(a)
    BY <1>2 DEF Between, NoStep, Aborted, IsDisk, DiskFields
  <2> HIDE DEF a
  <2>2. Progress(a, Update(a, "CMD_ERROR"))
    BY <2>1, AbortEnds
  <2>3. Progress(k, Update(a, "CMD_ERROR"))
    BY <2>1, <2>2 DEF Progress, Aborted, Running
  <2>4. k.dmaAborted = TRUE
    BY <1>2 DEF Aborted
  <2> QED BY <1>1, <2>3, <2>4
<1>3. CASE Running(k)
  <2>1. Alike(k, r)
    <3>1. CASE k.cg = NoCG
      BY <3>1 DEF Between, Alike, Calm, IsDisk, DiskFields
    <3>2. CASE k.cg # NoCG
      BY <3>2 DEF Between, Alike, Calm
    <3> QED BY <3>1, <3>2
  <2> HIDE DEF r
  <2>2. Between(r) /\ Running(r)
    BY <1>3, <2>1, AlikeRuns
  <2>3. Progress(k, Schedule(r, "ReadWait"))
    BY <1>3, <2>1, <2>2, ScheduleRuns, ProgressFrom DEF EventNames
  <2>4. Progress(k, c)
    <3>1. f.event \in EventNames
      BY DEF Dma, EventNames
    <3> HIDE DEF f
    <3>2. Calm([r EXCEPT !.flight = {f}], c) /\ c.devState = r.devState /\ c.intrPending = r.intrPending /\ c.status = r.status
      BY <2>2 DEF Calm, Between, NoStep, IsDisk, DiskFields
    <3> HIDE DEF c
    <3> QED BY <1>3, <2>1, <3>1, <3>2, ChunkRuns
  <2>5. Progress(k, DmaReadDone(d, busy))
    <3>1. Alike(r, d)
      BY <2>2 DEF Between, Alike, Calm, IsDisk, DiskFields
    <3> HIDE DEF d
    <3>2. Between(d) /\ Running(d) /\ Alike(k, d)
      BY <2>1, <2>2, <3>1, AlikeRuns, AlikeComposes
    <3> QED BY <1>3, <3>2, DmaReadDoneIs, ProgressFrom
  <2>6. k.dmaAborted = FALSE
    BY <1>3 DEF Running
  <2> HIDE DEF c, d
  <2> QED BY <1>1, <2>3, <2>4, <2>5, <2>6
<1> QED BY <1>2, <1>3

\* and doDmaWrite.
LEMMA DoDmaWriteIs ==
  ASSUME NEW k, NEW busy, Between(k), Running(k) \/ Aborted(k)
  PROVE  Progress(k, DoDmaWrite(k, busy))
<1> DEFINE r == IF k.cg = NoCG THEN [k EXCEPT !.cg = 0] ELSE k
           a == [k EXCEPT !.cg = NoCG]
           f == Dma("WriteWait", r.prd.base + r.cg, r.buf[r.cg + 1])
           c == [r EXCEPT !.cg = @ + 1, !.flight = @ \cup {f}]
           d == [r EXCEPT !.cg = NoCG]
<1>1. DoDmaWrite(k, busy) = IF k.dmaAborted THEN Update(a, "CMD_ERROR")
                            ELSE IF busy THEN Schedule(r, "WriteWait")
                            ELSE IF r.cg < r.prd.n THEN c ELSE EndOfPrd(d, busy)
  BY DEF DoDmaWrite
<1>2. CASE Aborted(k)
  <2>1. Between(a) /\ Aborted(a)
    BY <1>2 DEF Between, NoStep, Aborted, IsDisk, DiskFields
  <2> HIDE DEF a
  <2>2. Progress(a, Update(a, "CMD_ERROR"))
    BY <2>1, AbortEnds
  <2>3. Progress(k, Update(a, "CMD_ERROR"))
    BY <2>1, <2>2 DEF Progress, Aborted, Running
  <2>4. k.dmaAborted = TRUE
    BY <1>2 DEF Aborted
  <2> QED BY <1>1, <2>3, <2>4
<1>3. CASE Running(k)
  <2>1. Alike(k, r)
    <3>1. CASE k.cg = NoCG
      BY <3>1 DEF Between, Alike, Calm, IsDisk, DiskFields
    <3>2. CASE k.cg # NoCG
      BY <3>2 DEF Between, Alike, Calm
    <3> QED BY <3>1, <3>2
  <2> HIDE DEF r
  <2>2. Between(r) /\ Running(r)
    BY <1>3, <2>1, AlikeRuns
  <2>3. Progress(k, Schedule(r, "WriteWait"))
    BY <1>3, <2>1, <2>2, ScheduleRuns, ProgressFrom DEF EventNames
  <2>4. Progress(k, c)
    <3>1. f.event \in EventNames
      BY DEF Dma, EventNames
    <3> HIDE DEF f
    <3>2. Calm([r EXCEPT !.flight = {f}], c) /\ c.devState = r.devState /\ c.intrPending = r.intrPending /\ c.status = r.status
      BY <2>2 DEF Calm, Between, NoStep, IsDisk, DiskFields
    <3> HIDE DEF c
    <3> QED BY <1>3, <2>1, <3>1, <3>2, ChunkRuns
  <2>5. Progress(k, EndOfPrd(d, busy))
    <3>1. Alike(r, d)
      BY <2>2 DEF Between, Alike, Calm, IsDisk, DiskFields
    <3> HIDE DEF d
    <3>2. Between(d) /\ Running(d) /\ Alike(k, d)
      BY <2>1, <2>2, <3>1, AlikeRuns, AlikeComposes
    <3> QED BY <1>3, <3>2, EndOfPrdIs, ProgressFrom
  <2>6. k.dmaAborted = FALSE
    BY <1>3 DEF Running
  <2> HIDE DEF c, d
  <2> QED BY <1>1, <2>3, <2>4, <2>5, <2>6
<1> QED BY <1>2, <1>3

\* Every event of a disk takes its transfer one step further, or ends it.
LEMMA ProcessIs ==
  ASSUME NEW k, NEW e \in EventNames, NEW busy, NEW m, IsDisk(k), k.events = {e}, k.flight = {},
         "dmaComplete" \notin k.out, Running(k) \/ Aborted(k)
  PROVE  Progress(k, Process(k, e, busy, m))
<1> DEFINE r == [k EXCEPT !.events = @ \ {e}]
<1>1. Between(r) /\ (Running(k) <=> Running(r)) /\ (Aborted(k) <=> Aborted(r))
  <2>1. /\ IsDisk(r) /\ r.events = k.events \ {e} /\ r.flight = k.flight /\ r.out = k.out
        /\ r.dmaState = k.dmaState /\ r.dmaAborted = k.dmaAborted /\ r.devState = k.devState
        /\ r.intrPending = k.intrPending /\ r.status = k.status
    BY DEF IsDisk, DiskFields
  <2> HIDE DEF r
  <2> QED BY <2>1 DEF Between, NoStep, Running, Aborted
<1> DEFINE s == Process(k, e, busy, m)
<1>2. s = CASE e = "Transfer" -> DoDmaTransfer(r, busy)
            [] e = "PrdRead" -> DmaPrdReadDone(r)
            [] e = "ReadWait" -> DoDmaRead(r, busy, m)
            [] e = "WriteWait" -> DoDmaWrite(r, busy)
  BY DEF Process
<1> HIDE DEF r, s
<1>3. Progress(r, s)
  <2>1. CASE e = "Transfer"
    BY <1>1, <1>2, <2>1, DoDmaTransferIs
  <2>2. CASE e = "PrdRead"
    BY <1>1, <1>2, <2>2, DmaPrdReadDoneIs
  <2>3. CASE e = "ReadWait"
    BY <1>1, <1>2, <2>3, DoDmaReadIs
  <2>4. CASE e = "WriteWait"
    BY <1>1, <1>2, <2>4, DoDmaWriteIs
  <2> QED BY <2>1, <2>2, <2>3, <2>4 DEF EventNames
<1>4. Progress(k, s)
  BY <1>1, <1>3 DEF Progress
<1> QED BY <1>4 DEF s

\* The fields of a channel.
Chans == [Channels -> [selectBit : {0, 1}, start : BOOLEAN, active : BOOLEAN]]

\* A disk with a transfer is its channel's selected disk, and the start bit
\* tells whether that transfer goes on.
DiskInv ==
  /\ DOMAIN disk = Disks /\ chan \in Chans
  /\ \A d \in Disks : Sound(disk[d]) /\ disk[d].out = {}
  /\ \A d \in Disks : d # Selected(d[1]) => Resting(disk[d])
  /\ \A c \in Channels : /\ Selected(c) \in Disks
                         /\ chan[c].active = chan[c].start
                         /\ chan[c].start = TRUE <=> Running(disk[Selected(c)])

\* What DiskAssumption says of a disk and of a channel.
LEMMA DisksAre ==
  /\ \A d \in Disks : d[1] \in Channels /\ d[2] \in {0, 1} /\ d = <<d[1], d[2]>> /\ <<d[1], 0>> \in Disks
  /\ \A c \in Channels : c \in {0, 1} /\ <<c, 0>> \in Disks /\ Workload[c] \subseteq Commands
BY DiskAssumption DEF Channels

\* The selected disk of channel c becomes k, and the channel ch[c].
Sets(c, bit, k, ch) ==
  /\ bit \in {0, 1} /\ <<c, bit>> \in Disks /\ Sound(k) /\ ch \in Chans
  /\ Becomes(<<c, bit>>, k, ch)
  /\ \A b \in Channels : b # c => ch[b] = chan[b]
  /\ ch[c].selectBit = bit /\ ch[c].active = ch[c].start
  /\ \A e \in Disks : e[1] = c /\ e # <<c, bit>> => Resting(disk[e])
  /\ IF "dmaComplete" \in k.out THEN ~Running(k) ELSE ch[c].start = TRUE <=> Running(k)

\* Such an operation keeps the invariant.
LEMMA Becoming ==
  ASSUME DiskInv, NEW c \in Channels, NEW bit, NEW k, NEW ch, Sets(c, bit, k, ch)
  PROVE  DiskInv'
<1> USE DEF Sets
<1> DEFINE d == <<c, bit>>
           r == [k EXCEPT !.out = {}]
<1>1. disk' = [disk EXCEPT ![d] = r] /\ chan' = Notify(ch, d, k.out)
  BY DEF Becomes
<1>2. /\ IsDisk(r) /\ r.events = k.events /\ r.flight = k.flight /\ r.out = {}
      /\ r.dmaState = k.dmaState /\ r.dmaAborted = k.dmaAborted /\ r.devState = k.devState
      /\ r.intrPending = k.intrPending /\ r.status = k.status
  BY DEF Sound, IsDisk, DiskFields
<1> HIDE DEF r
<1>3. Sound(r) /\ (Running(r) <=> Running(k)) /\ (Resting(r) <=> Resting(k))
  <2>1. (Running(r) <=> Running(k)) /\ (Resting(r) <=> Resting(k)) /\ (Armed(r) <=> Armed(k)) /\ (Aborted(r) <=> Aborted(k))
    BY <1>2 DEF Running, Resting, Armed, Aborted
  <2>2. (NoStep(r) <=> NoStep(k)) /\ (OneStep(r) <=> OneStep(k))
    BY <1>2 DEF NoStep, OneStep
  <2> QED BY <1>2, <2>1, <2>2 DEF Sound
<1>4. DOMAIN disk = Disks /\ chan \in Chans
  BY DEF DiskInv
<1>5. DOMAIN disk' = Disks /\ disk'[d] = r /\ \A e \in Disks : e # d => disk'[e] = disk[e]
  BY <1>1, <1>4
<1>6. d[1] = c
  OBVIOUS
<1>7. /\ chan' \in Chans /\ chan'[c].selectBit = bit /\ chan'[c].active = chan'[c].start
      /\ chan'[c].start = TRUE <=> Running(k)
      /\ \A b \in Channels : b # c => chan'[b] = chan[b]
  <2>1. CASE "dmaComplete" \in k.out
    <3>1. chan' = [ch EXCEPT ![c].start = FALSE, ![c].active = FALSE]
      BY <1>1, <1>6, <2>1 DEF Notify
    <3>2. ch[c] \in [selectBit : {0, 1}, start : BOOLEAN, active : BOOLEAN]
      BY DEF Chans
    <3>3. /\ chan'[c].selectBit = bit /\ chan'[c].start = FALSE /\ chan'[c].active = FALSE
          /\ chan'[c] \in [selectBit : {0, 1}, start : BOOLEAN, active : BOOLEAN]
      BY <3>1, <3>2 DEF Chans
    <3>4. DOMAIN chan' = Channels /\ \A b \in Channels : b # c => chan'[b] = ch[b]
      BY <3>1 DEF Chans
    <3>5. chan' \in Chans
      BY <3>1, <3>3 DEF Chans
    <3> QED BY <2>1, <3>3, <3>4, <3>5
  <2>2. CASE "dmaComplete" \notin k.out
    <3>1. chan' = ch
      BY <1>1, <2>2 DEF Notify
    <3> QED BY <2>2, <3>1
  <2> QED BY <2>1, <2>2
<1>8. Selected(c)' = d /\ \A b \in Channels : b # c => Selected(b)' = Selected(b)
  BY <1>7 DEF Selected
<1> HIDE DEF d
<1>9. \A e \in Disks : Sound(disk'[e]) /\ disk'[e].out = {}
  BY <1>2, <1>3, <1>5 DEF DiskInv
<1>10. \A e \in Disks : e # Selected(e[1])' => Resting(disk'[e])
  <2> SUFFICES ASSUME NEW e \in Disks, e # Selected(e[1])' PROVE Resting(disk'[e])
    OBVIOUS
  <2>1. e[1] \in Channels
    BY DisksAre
  <2>2. CASE e[1] = c
    <3>1. e # d /\ disk'[e] = disk[e]
      BY <1>5, <1>8, <2>2
    <3> QED BY <2>2, <3>1 DEF d
  <2>3. CASE e[1] # c
    <3>1. e # d /\ e # Selected(e[1])
      BY <1>6, <1>8, <2>1, <2>3
    <3> QED BY <1>5, <3>1 DEF DiskInv
  <2> QED BY <2>2, <2>3
<1>11. \A b \in Channels : /\ Selected(b)' \in Disks
                           /\ chan'[b].active = chan'[b].start
                           /\ chan'[b].start = TRUE <=> Running(disk'[Selected(b)'])
  <2> TAKE b \in Channels
  <2>1. CASE b = c
    <3>1. Selected(b)' = d /\ d \in Disks /\ disk'[d] = r
      BY <1>5, <1>8, <2>1 DEF d
    <3> QED BY <1>3, <1>7, <2>1, <3>1
  <2>2. CASE b # c
    <3>1. /\ Selected(b) \in Disks /\ chan[b].active = chan[b].start
          /\ chan[b].start = TRUE <=> Running(disk[Selected(b)])
      BY DEF DiskInv
    <3>2. Selected(b) # d
      BY <2>2 DEF Selected, d
    <3> QED BY <1>5, <1>7, <1>8, <2>2, <3>1, <3>2
  <2> QED BY <2>1, <2>2
<1> QED BY <1>5, <1>7, <1>9, <1>10, <1>11 DEF DiskInv

\* The same, for an operation of the selected disk that leaves the channel.
LEMMA BecomingSelected ==
  ASSUME DiskInv, NEW c \in Channels, NEW k, Sound(k), Becomes(Selected(c), k, chan),
         IF "dmaComplete" \in k.out THEN ~Running(k) ELSE Running(k) <=> Running(disk[Selected(c)])
  PROVE  DiskInv'
<1> DEFINE bit == chan[c].selectBit
<1>1. chan \in Chans /\ <<c, bit>> \in Disks /\ Selected(c) = <<c, bit>>
  BY DEF DiskInv, Selected
<1>2. bit \in {0, 1}
  BY <1>1 DEF Chans
<1>3. \A e \in Disks : e[1] = c /\ e # <<c, bit>> => Resting(disk[e])
  BY <1>1 DEF DiskInv
<1>4. chan[c].active = chan[c].start /\ (chan[c].start = TRUE <=> Running(disk[Selected(c)]))
  BY DEF DiskInv
<1> HIDE DEF bit
<1>5. IF "dmaComplete" \in k.out THEN ~Running(k) ELSE chan[c].start = TRUE <=> Running(k)
  BY <1>4
<1>6. chan[c].selectBit = bit /\ Becomes(<<c, bit>>, k, chan)
  BY <1>1 DEF bit
<1>7. Sets(c, bit, k, chan)
  BY <1>1, <1>2, <1>3, <1>4, <1>5, <1>6 DEF Sets
<1> QED BY <1>7, Becoming

\* A channel whose disks ask for nothing has no transfer.
LEMMA QuietRests ==
  ASSUME DiskInv, NEW c \in Channels, Quiet(c)
  PROVE  /\ \A e \in Disks : e[1] = c => Resting(disk[e]) /\ NoStep(disk[e])
         /\ chan[c].start = FALSE
<1>1. \A e \in Disks : e[1] = c => Resting(disk[e]) /\ NoStep(disk[e])
  <2> SUFFICES ASSUME NEW e \in Disks, e[1] = c PROVE Resting(disk[e]) /\ NoStep(disk[e])
    OBVIOUS
  <2>1. "DRQ" \notin disk[e].status
    BY DEF Quiet
  <2>2. Sound(disk[e])
    BY DEF DiskInv
  <2> QED BY <2>1, <2>2 DEF Sound, Armed, Running, Aborted
<1>2. Selected(c) \in Disks /\ Selected(c)[1] = c
  BY DEF DiskInv, Selected
<1>3. ~Running(disk[Selected(c)])
  BY <1>1, <1>2 DEF Resting, Running
<1>4. chan[c].start \in BOOLEAN
  BY DEF DiskInv, Chans
<1> QED BY <1>1, <1>3, <1>4 DEF DiskInv

\* What an operation on a resting disk leaves.
LEMMA RestSound ==
  ASSUME NEW k, NEW r, NoStep(k), "dmaComplete" \notin k.out, Follows(k, r), Resting(r) \/ Armed(r)
  PROVE  Sound(r) /\ ~Running(r) /\ "dmaComplete" \notin r.out /\ NoStep(r)
BY DEF Follows, Sound, NoStep, Resting, Armed, Running

\* An operation on a selected disk that rests.
LEMMA RestKeeps ==
  ASSUME DiskInv, NEW c \in Channels, NEW k, Becomes(Selected(c), k, chan),
         Resting(disk[Selected(c)]), Follows(disk[Selected(c)], k), Resting(k) \/ Armed(k)
  PROVE  DiskInv'
<1> DEFINE s == disk[Selected(c)]
<1>1. Selected(c) \in Disks /\ Sound(s) /\ s.out = {}
  BY DEF DiskInv
<1>2. NoStep(s) /\ ~Running(s)
  BY <1>1 DEF Sound, Resting, Armed, Running, Aborted
<1>3. Follows(s, k) /\ "dmaComplete" \notin s.out
  BY <1>1
<1> HIDE DEF s
<1>4. Sound(k) /\ ~Running(k) /\ "dmaComplete" \notin k.out
  BY <1>2, <1>3, RestSound
<1> QED BY <1>2, <1>4, BecomingSelected DEF s

\* The operations of the driver, one by one: the drive is selected,
LEMMA SelectKeeps ==
  ASSUME DiskInv, NEW c \in Channels, NEW bit \in {0, 1}, Select(c, bit)
  PROVE  DiskInv'
<1> DEFINE d == <<c, bit>>
           s == disk[d]
           k == Update(s, "SELECT_WRITE")
           ch == [chan EXCEPT ![c].selectBit = bit]
<1>1. Quiet(c) /\ d \in Disks /\ Becomes(d, k, ch)
  BY DEF Select
<1>2. /\ \A e \in Disks : e[1] = c => Resting(disk[e]) /\ NoStep(disk[e])
      /\ chan[c].start = FALSE /\ chan[c].active = FALSE
  BY <1>1, QuietRests DEF DiskInv
<1>3. IsDisk(s) /\ s.out = {} /\ Resting(s) /\ NoStep(s)
  <2>1. d[1] = c
    OBVIOUS
  <2> QED BY <1>1, <1>2, <2>1 DEF DiskInv, Sound
<1>4. chan \in Chans
  BY DEF DiskInv
<1>5. /\ ch \in Chans /\ ch[c].selectBit = bit /\ ch[c].start = FALSE /\ ch[c].active = FALSE
      /\ \A b \in Channels : b # c => ch[b] = chan[b]
  BY <1>2, <1>4 DEF Chans
<1>6. \A e \in Disks : e[1] = c /\ e # d => Resting(disk[e])
  BY <1>2
<1>7. k = UpdateState(s, "SELECT_WRITE", TRUE, Zero)
  BY DEF Update
<1> HIDE DEF s, ch, k
<1> DEFINE action == "SELECT_WRITE"
<1>8. Follows(s, k) /\ Resting(k)
  <2>1. action # "CMD_WRITE" /\ k = UpdateState(s, action, TRUE, Zero)
    BY <1>7
  <2> HIDE DEF action
  <2> QED BY <1>3, <2>1, UpdateStaysResting
<1>9. Sound(k) /\ ~Running(k) /\ "dmaComplete" \notin k.out
  BY <1>3, <1>8, RestSound
<1>10. Sets(c, bit, k, ch)
  BY <1>1, <1>5, <1>6, <1>9 DEF Sets
<1> QED BY <1>10, Becoming

\* a command is written,
LEMMA CommandKeeps ==
  ASSUME DiskInv, NEW c \in Channels, NEW cmd \in Workload[c], NEW n, NEW lba, Command(c, cmd, n, lba)
  PROVE  DiskInv'
<1> DEFINE s == disk[Selected(c)]
           t == [s EXCEPT !.cmd = cmd, !.sec = n, !.lba = lba]
           k == WriteCommand(s, cmd, n, lba)
<1>1. Quiet(c) /\ Becomes(Selected(c), k, chan) /\ cmd \in Commands
  BY DisksAre DEF Command
<1>2. Selected(c) \in Disks /\ Selected(c)[1] = c /\ IsDisk(s)
  BY DEF DiskInv, Selected, Sound
<1>3. Resting(s)
  BY <1>1, <1>2, QuietRests
<1> HIDE DEF s
<1>4. IsDisk(t) /\ Resting(t) /\ Follows(s, t) /\ t.cmd = cmd
  <2>1. /\ IsDisk(t) /\ t.events = s.events /\ t.flight = s.flight /\ t.out = s.out /\ t.cmd = cmd
        /\ t.dmaState = s.dmaState /\ t.dmaAborted = s.dmaAborted /\ t.devState = s.devState
        /\ t.intrPending = s.intrPending /\ t.status = s.status
    BY <1>2 DEF IsDisk, DiskFields
  <2> HIDE DEF t
  <2> QED BY <1>3, <2>1 DEF Resting, Follows
<1>5. k = UpdateState(t, "CMD_WRITE", TRUE, Zero)
  BY DEF WriteCommand, Update
<1> HIDE DEF k, t
<1>6. Follows(t, k) /\ (Resting(k) \/ Armed(k))
  BY <1>1, <1>4, <1>5, UpdateRests
<1>7. Follows(s, k)
  BY <1>4, <1>6 DEF Follows
<1> QED BY <1>1, <1>3, <1>6, <1>7, RestKeeps DEF s

\* the transfer is started,
LEMMA StartKeeps ==
  ASSUME DiskInv, NEW c \in Channels, Start(c)
  PROVE  DiskInv'
<1> DEFINE bit == chan[c].selectBit
           s == disk[Selected(c)]
           q == Require(s.dmaState = "Dma_Start" /\ s.devState = "Transfer_Data_Dma", s)
           t == [q EXCEPT !.prdAddr = 1, !.dmaState = "Dma_Transfer"]
           k == StartDma(s)
           ch == [chan EXCEPT ![c].active = TRUE, ![c].start = TRUE]
<1>1. chan \in Chans /\ <<c, bit>> \in Disks /\ Selected(c) = <<c, bit>> /\ Sound(s) /\ s.out = {}
  BY DEF DiskInv, Selected
<1>2. chan[c].start = FALSE /\ bit \in {0, 1}
  BY <1>1 DEF Start, Chans
<1>3. Becomes(Selected(c), k, ch)
  BY <1>2 DEF Start, WriteBMICommand
<1>4. /\ ch \in Chans /\ ch[c].selectBit = bit /\ ch[c].active = TRUE /\ ch[c].start = TRUE
      /\ \A b \in Channels : b # c => ch[b] = chan[b]
  BY <1>1 DEF Chans
<1>5. Armed(s) /\ NoStep(s) /\ IsDisk(s)
  BY <1>1 DEF Start, Sound, Resting, Armed, Running, Aborted
<1>6. k = Schedule(t, "Transfer")
  BY DEF StartDma
<1>7. \A e \in Disks : e[1] = c /\ e # <<c, bit>> => Resting(disk[e])
  BY <1>1 DEF DiskInv
<1> HIDE DEF s, bit, ch, k
<1>8. Alike(s, q)
  BY <1>5, RequireIs DEF Alike
<1> HIDE DEF q
<1>9. Between(t) /\ Running(t)
  <2>1. IsDisk(q)
    BY <1>8 DEF Alike, Calm
  <2>2. /\ IsDisk(t) /\ t.events = q.events /\ t.flight = q.flight /\ t.out = q.out
        /\ t.dmaState = "Dma_Transfer" /\ t.dmaAborted = q.dmaAborted /\ t.devState = q.devState
        /\ t.intrPending = q.intrPending /\ t.status = q.status
    BY <2>1 DEF IsDisk, DiskFields
  <2> HIDE DEF t
  <2>3. "dmaComplete" \notin t.out
    BY <1>1, <1>8, <2>2 DEF Alike, Calm
  <2> QED BY <1>5, <1>8, <2>2, <2>3 DEF Alike, Calm, Between, NoStep, Armed, Running
<1> HIDE DEF t
<1>10. Progress(t, k)
  BY <1>6, <1>9, ScheduleRuns DEF EventNames
<1>11. Sound(k) /\ Running(k) /\ "dmaComplete" \notin k.out
  <2>1. /\ IsDisk(k) /\ k.events = t.events \cup {"Transfer"} /\ "dmaComplete" \notin k.out
    BY <1>6, <1>9, ScheduleIs DEF Between
  <2> QED BY <1>10, <2>1 DEF Progress, Sound
<1>12. Becomes(<<c, bit>>, k, ch)
  BY <1>1, <1>3
<1>13. Sets(c, bit, k, ch)
  BY <1>1, <1>2, <1>4, <1>7, <1>11, <1>12 DEF Sets
<1> QED BY <1>13, Becoming

\* the transfer is stopped,
LEMMA StopKeeps ==
  ASSUME DiskInv, NEW c \in Channels, Stop(c)
  PROVE  DiskInv'
<1> DEFINE bit == chan[c].selectBit
           s == disk[Selected(c)]
           q == Require(s.dmaState # "Dma_Idle" /\ s.devState = "Transfer_Data_Dma", s)
           k == AbortDma(s)
           ch == [chan EXCEPT ![c].active = FALSE, ![c].start = FALSE]
<1>1. chan \in Chans /\ <<c, bit>> \in Disks /\ Selected(c) = <<c, bit>> /\ Sound(s) /\ s.out = {}
  BY DEF DiskInv, Selected
<1>2. chan[c].start = TRUE /\ bit \in {0, 1}
  BY <1>1 DEF Stop, Chans
<1>3. Becomes(Selected(c), k, ch)
  BY <1>2 DEF Stop, WriteBMICommand
<1>4. /\ ch \in Chans /\ ch[c].selectBit = bit /\ ch[c].active = FALSE /\ ch[c].start = FALSE
      /\ \A b \in Channels : b # c => ch[b] = chan[b]
  BY <1>1 DEF Chans
<1>5. Running(s) /\ OneStep(s) /\ IsDisk(s)
  <2>1. Running(s)
    BY <1>2 DEF DiskInv
  <2> QED BY <1>1, <2>1 DEF Sound, Resting, Armed, Running, Aborted
<1>6. k = UpdateState(q, "CMD_ERROR", TRUE, Zero)
  BY DEF AbortDma, Update
<1>7. \A e \in Disks : e[1] = c /\ e # <<c, bit>> => Resting(disk[e])
  BY <1>1 DEF DiskInv
<1> HIDE DEF s, bit, ch, k
<1>8. Alike(s, q) /\ q.devState = "Transfer_Data_Dma" /\ IsDisk(q)
  BY <1>5, RequireIs DEF Alike, Running, Calm
<1> HIDE DEF q
<1>9. k = [q EXCEPT !.dmaAborted = TRUE, !.devState = "Device_Dma_Abort"]
  BY <1>6, <1>8 DEF UpdateState
<1>10. /\ IsDisk(k) /\ k.events = q.events /\ k.flight = q.flight /\ k.out = q.out
       /\ k.dmaState = q.dmaState /\ k.dmaAborted = TRUE /\ k.devState = "Device_Dma_Abort"
       /\ k.intrPending = q.intrPending /\ k.status = q.status
  BY <1>8, <1>9 DEF IsDisk, DiskFields
<1>11. k.events = s.events /\ k.flight = s.flight
  BY <1>8, <1>10 DEF Alike, Calm
<1>12. OneStep(k)
  BY <1>5, <1>11 DEF OneStep
<1>13. Aborted(k) /\ ~Running(k) /\ "dmaComplete" \notin k.out
  BY <1>1, <1>5, <1>8, <1>10 DEF Alike, Calm, Running, Aborted
<1>14. Sound(k)
  BY <1>10, <1>12, <1>13 DEF Sound
<1>15. Becomes(<<c, bit>>, k, ch)
  BY <1>1, <1>3
<1>16. Sets(c, bit, k, ch)
  BY <1>1, <1>2, <1>4, <1>7, <1>13, <1>14, <1>15 DEF Sets
<1> QED BY <1>16, Becoming

\* An operation on the selected disk, resting or not, that is no concern of a
\* transfer.
LEMMA UpdateKeeps ==
  ASSUME DiskInv, NEW c \in Channels, NEW action, NEW w, NEW k, Becomes(Selected(c), k, chan),
         k = UpdateState(disk[Selected(c)], action, TRUE, w),
         action \notin {"CMD_ERROR", "DMA_DONE", "CMD_WRITE"}
  PROVE  DiskInv'
<1> DEFINE s == disk[Selected(c)]
<1>1. Sound(s) /\ s.out = {}
  BY DEF DiskInv
<1>2. CASE Resting(s)
  <2>1. IsDisk(s)
    BY <1>1 DEF Sound
  <2> HIDE DEF s
  <2>2. k = UpdateState(s, action, TRUE, w)
    BY DEF s
  <2>3. Follows(s, k) /\ (Resting(k) \/ Armed(k))
    BY <1>2, <2>1, <2>2, UpdateRests
  <2> QED BY <1>2, <2>3, RestKeeps DEF s
<1>3. CASE ~Resting(s)
  <2>1. s.devState \in {"Transfer_Data_Dma", "Device_Dma_Abort"}
    BY <1>1, <1>3 DEF Sound, Armed, Running, Aborted
  <2>2. k = s
    BY <2>1, UpdateStays
  <2>3. Sound(k) /\ "dmaComplete" \notin k.out
    BY <1>1, <2>2
  <2> QED BY <2>2, <2>3, BecomingSelected
<1> QED BY <1>2, <1>3

\* the status is read,
LEMMA ReadStatusKeeps ==
  ASSUME DiskInv, NEW c \in Channels, ReadStatus(c)
  PROVE  DiskInv'
<1> DEFINE action == "STAT_READ"
           k == Update(disk[Selected(c)], action)
<1>1. /\ k = UpdateState(disk[Selected(c)], action, TRUE, Zero)
      /\ action \notin {"CMD_ERROR", "DMA_DONE", "CMD_WRITE"}
  BY DEF Update
<1>2. Becomes(Selected(c), k, chan)
  BY DEF ReadStatus
<1> HIDE DEF k, action
<1> QED BY <1>1, <1>2, UpdateKeeps

\* One or two words of programmed I/O.
LEMMA WordsKeep ==
  ASSUME DiskInv, NEW c \in Channels, NEW action \in {"DATA_READ_SHORT", "DATA_WRITE_SHORT"},
         NEW v, NEW w, NEW j, NEW k, Becomes(Selected(c), k, chan),
         j = UpdateState(disk[Selected(c)], action, TRUE, v),
         k = j \/ k = UpdateState(j, action, TRUE, w),
         disk[Selected(c)].devState \in {"Transfer_Data_In", "Transfer_Data_Out"}
  PROVE  DiskInv'
<1> DEFINE s == disk[Selected(c)]
<1>1. Sound(s) /\ s.devState \in {"Transfer_Data_In", "Transfer_Data_Out"}
  BY DEF DiskInv
<1>2. j = UpdateState(s, action, TRUE, v)
  OBVIOUS
<1>3. IsDisk(s) /\ Resting(s)
  BY <1>1 DEF Sound, Armed, Running, Aborted
<1> HIDE DEF s
<1>4. Follows(s, j) /\ Resting(j)
  BY <1>2, <1>3, UpdateRests
<1>5. Follows(s, k) /\ Resting(k)
  <2>1. CASE k = j
    BY <1>4, <2>1
  <2>2. CASE k = UpdateState(j, action, TRUE, w)
    <3>1. IsDisk(j)
      BY <1>4 DEF Follows
    <3>2. Follows(j, k) /\ Resting(k)
      BY <1>4, <2>2, <3>1, UpdateRests
    <3> QED BY <1>4, <3>2 DEF Follows
  <2> QED BY <2>1, <2>2
<1> QED BY <1>3, <1>5, RestKeeps DEF s

\* data is read,
LEMMA ReadDataKeeps ==
  ASSUME DiskInv, NEW c \in Channels, NEW words, ReadData(c, words)
  PROVE  DiskInv'
<1> DEFINE s == disk[Selected(c)]
           j == Update(s, "DATA_READ_SHORT")
           k == IF words = 1 THEN j ELSE Update(j, "DATA_READ_SHORT")
<1>1. Becomes(Selected(c), k, chan) /\ s.devState = "Transfer_Data_In"
  BY DEF ReadData
<1>2. /\ j = UpdateState(s, "DATA_READ_SHORT", TRUE, Zero)
      /\ k = j \/ k = UpdateState(j, "DATA_READ_SHORT", TRUE, Zero)
  BY DEF Update
<1> HIDE DEF j, k
<1> QED BY <1>1, <1>2, WordsKeep

\* and data is written.
LEMMA WriteDataKeeps ==
  ASSUME DiskInv, NEW c \in Channels, NEW words, WriteData(c, words)
  PROVE  DiskInv'
<1> DEFINE s == disk[Selected(c)]
           v == NextWord(s)
           j == UpdateState(s, "DATA_WRITE_SHORT", TRUE, v)
           w == NextWord(j)
           k == IF words = 1 THEN j ELSE UpdateState(j, "DATA_WRITE_SHORT", TRUE, w)
<1>1. Becomes(Selected(c), k, chan) /\ s.devState = "Transfer_Data_Out"
  BY DEF WriteData
<1>2. /\ j = UpdateState(s, "DATA_WRITE_SHORT", TRUE, v)
      /\ k = j \/ k = UpdateState(j, "DATA_WRITE_SHORT", TRUE, w)
  OBVIOUS
<1> HIDE DEF j, k, v, w
<1> QED BY <1>1, <1>2, WordsKeep

\* A reset of a disk that rests; the end of the reset; or only nIEN changes.
LEMMA ControlKeeps ==
  ASSUME DiskInv, ~busyReset', NEW c \in Channels, NEW srst \in BOOLEAN, NEW nIEN, Control(c, srst, nIEN)
  PROVE  DiskInv'
<1> DEFINE s == disk[Selected(c)]
           u == [s EXCEPT !.devState = "Device_Srst"]
           r == IF srst THEN Update(u, "SRST_SET")
                ELSE IF s.devState = "Device_Srst" THEN Update(s, "SRST_CLEAR") ELSE s
           k == [r EXCEPT !.nIEN = nIEN]
<1>1. Becomes(Selected(c), k, chan) /\ (srst => Quiet(c))
  <2>1. Becomes(Selected(c), k, chan)
    BY DEF Control, WriteControl
  <2>2. srst => Quiet(c)
    BY DEF Control
  <2> QED BY <2>1, <2>2
<1>2. Sound(s) /\ s.out = {} /\ Selected(c) \in Disks /\ Selected(c)[1] = c
  BY DEF DiskInv, Selected
<1>3. srst => Resting(s)
  BY <1>1, <1>2, QuietRests
<1> HIDE DEF s
<1>4. IsDisk(s) /\ "dmaComplete" \notin s.out
  BY <1>2 DEF Sound
<1>5. ASSUME IsDisk(r)
      PROVE  /\ IsDisk(k) /\ k.events = r.events /\ k.flight = r.flight /\ k.out = r.out
             /\ k.dmaState = r.dmaState /\ k.dmaAborted = r.dmaAborted /\ k.devState = r.devState
             /\ k.intrPending = r.intrPending /\ k.status = r.status
  <2> HIDE DEF r
  <2> QED BY <1>5 DEF IsDisk, DiskFields
<1>6. CASE srst
  <2>1. u.devState = "Device_Srst"
    BY <1>4 DEF IsDisk, DiskFields
  <2>2. r = [u EXCEPT !.status = @ \cup {"BSY"}]
    BY <1>6, <2>1 DEF Update, UpdateState
  <2>3. /\ IsDisk(r) /\ r.events = s.events /\ r.flight = s.flight /\ r.out = s.out
        /\ r.dmaState = s.dmaState /\ r.dmaAborted = s.dmaAborted /\ r.devState = "Device_Srst"
        /\ r.intrPending = s.intrPending /\ "BSY" \in r.status
    <3> HIDE DEF r
    <3> QED BY <1>4, <2>2 DEF IsDisk, DiskFields
  <2> HIDE DEF r, k
  <2>4. Follows(s, k) /\ Resting(k)
    BY <1>3, <1>5, <1>6, <2>3 DEF Follows, Resting
  <2> QED BY <1>1, <1>3, <1>6, <2>4, RestKeeps DEF s
<1>7. CASE ~srst /\ s.devState = "Device_Srst"
  <2>1. r = Reset(s, s.devID)
    BY <1>7 DEF Update, UpdateState
  <2>2. Resting(s)
    BY <1>2, <1>7 DEF Sound, Armed, Running, Aborted
  <2> HIDE DEF r, k
  <2>3. IsDisk(r) /\ r.events = s.events /\ r.flight = s.flight /\ r.out = s.out /\ Resting(r)
    BY <1>4, <2>1, ResetIs
  <2>4. Follows(s, k) /\ Resting(k)
    BY <1>5, <2>3 DEF Follows, Resting
  <2> QED BY <1>1, <2>2, <2>4, RestKeeps DEF s
<1>8. CASE ~srst /\ s.devState # "Device_Srst"
  <2>1. r = s
    BY <1>8
  <2> HIDE DEF r, k
  <2>2. /\ IsDisk(k) /\ k.events = s.events /\ k.flight = s.flight /\ k.out = s.out
        /\ k.dmaState = s.dmaState /\ k.dmaAborted = s.dmaAborted /\ k.devState = s.devState
        /\ k.intrPending = s.intrPending /\ k.status = s.status
    BY <1>4, <1>5, <2>1
  <2>3. /\ Resting(k) <=> Resting(s)
        /\ Armed(k) <=> Armed(s)
        /\ Running(k) <=> Running(s)
        /\ Aborted(k) <=> Aborted(s)
        /\ NoStep(k) <=> NoStep(s)
        /\ OneStep(k) <=> OneStep(s)
    BY <2>2 DEF Resting, Armed, Running, Aborted, NoStep, OneStep
  <2>4. Sound(k) /\ "dmaComplete" \notin k.out
    BY <1>2, <1>4, <2>2, <2>3 DEF Sound
  <2>5. Running(k) <=> Running(disk[Selected(c)])
    BY <2>3 DEF s
  <2> QED BY <1>1, <2>4, <2>5, BecomingSelected
<1> QED BY <1>6, <1>7, <1>8

\* Only a transfer that goes on, or was aborted, has a step; it is the
\* selected disk's.
LEMMA StepIsSelected ==
  ASSUME DiskInv, NEW d \in Disks, ~NoStep(disk[d])
  PROVE  /\ d[1] \in Channels /\ d = Selected(d[1])
         /\ Running(disk[d]) \/ Aborted(disk[d])
         /\ OneStep(disk[d]) /\ IsDisk(disk[d]) /\ disk[d].out = {}
<1>1. Sound(disk[d]) /\ disk[d].out = {}
  BY DEF DiskInv
<1>2. (Running(disk[d]) \/ Aborted(disk[d])) /\ OneStep(disk[d]) /\ IsDisk(disk[d])
  BY <1>1 DEF Sound
<1>3. ~Resting(disk[d])
  BY <1>2 DEF Resting, Running, Aborted
<1> QED BY <1>1, <1>2, <1>3, DisksAre DEF DiskInv

\* An event of a disk fires.
LEMMA ProcessEventKeeps ==
  ASSUME DiskInv, NEW d \in Disks, ProcessEvent(d)
  PROVE  DiskInv'
<1> DEFINE s == disk[d]
           busy == DmaPending \/ drain # "Running"
           m == mem[d[1]].data
<1>1. PICK e \in s.events : Becomes(d, Process(s, e, busy, m), chan)
  BY DEF ProcessEvent
<1> DEFINE k == Process(s, e, busy, m)
<1>2. d[1] \in Channels /\ d = Selected(d[1]) /\ (Running(s) \/ Aborted(s)) /\ OneStep(s) /\ IsDisk(s) /\ s.out = {}
  BY StepIsSelected DEF NoStep
<1>3. e \in EventNames /\ s.events = {e} /\ s.flight = {}
  BY <1>2 DEF OneStep
<1> HIDE DEF s, busy, m
<1>4. Progress(s, k)
  BY <1>2, <1>3, ProcessIs
<1>5. Becomes(Selected(d[1]), k, chan)
  BY <1>1, <1>2
<1> HIDE DEF k
<1>6. /\ Sound(k)
      /\ IF "dmaComplete" \in k.out THEN ~Running(k) ELSE Running(k) <=> Running(s)
  BY <1>4 DEF Progress, Sound, Resting, Running
<1>7. s = disk[Selected(d[1])]
  BY <1>2 DEF s
<1> QED BY <1>2, <1>5, <1>6, <1>7, BecomingSelected

\* The DMA port completes an action.
LEMMA CompleteDmaKeeps ==
  ASSUME DiskInv, NEW d \in Disks, CompleteDma(d)
  PROVE  DiskInv'
<1> DEFINE s == disk[d]
<1>1. PICK f \in s.flight :
        Becomes(d, Schedule([s EXCEPT !.flight = @ \ {f},
                  !.prd = IF f.event = "PrdRead" THEN PrdEntry(mem[d[1]].prds, f.addr) ELSE @], f.event), chan)
  BY DEF CompleteDma
<1> DEFINE prd == IF f.event = "PrdRead" THEN PrdEntry(mem[d[1]].prds, f.addr) ELSE s.prd
           t == [s EXCEPT !.flight = @ \ {f}, !.prd = prd]
           k == Schedule(t, f.event)
<1>2. d[1] \in Channels /\ d = Selected(d[1]) /\ (Running(s) \/ Aborted(s)) /\ OneStep(s) /\ IsDisk(s) /\ s.out = {}
  BY StepIsSelected DEF NoStep
<1>3. f.event \in EventNames /\ s.events = {} /\ s.flight = {f}
  BY <1>2 DEF OneStep
<1> HIDE DEF s
<1>4. Becomes(Selected(d[1]), k, chan)
  <2>1. [s EXCEPT !.flight = @ \ {f},
                  !.prd = IF f.event = "PrdRead" THEN PrdEntry(mem[d[1]].prds, f.addr) ELSE @] = t
    BY <1>2 DEF IsDisk, DiskFields
  <2> QED BY <1>1, <1>2, <2>1
<1> HIDE DEF prd
<1>5. /\ IsDisk(t) /\ t.events = {} /\ t.flight = {} /\ t.out = {}
      /\ t.dmaState = s.dmaState /\ t.dmaAborted = s.dmaAborted /\ t.devState = s.devState
      /\ t.intrPending = s.intrPending /\ t.status = s.status
  BY <1>2, <1>3 DEF IsDisk, DiskFields
<1> HIDE DEF t
<1>6. /\ IsDisk(k) /\ k.events = {f.event} /\ k.flight = {} /\ "dmaComplete" \notin k.out
      /\ k.dmaState = s.dmaState /\ k.dmaAborted = s.dmaAborted /\ k.devState = s.devState
      /\ k.intrPending = s.intrPending /\ k.status = s.status
  BY <1>5, ScheduleIs
<1> HIDE DEF k
<1>7. OneStep(k)
  BY <1>3, <1>6 DEF OneStep
<1>8. (Running(k) <=> Running(s)) /\ (Aborted(k) <=> Aborted(s))
  BY <1>6 DEF Running, Aborted
<1>9. Sound(k)
  BY <1>2, <1>6, <1>7, <1>8 DEF Sound
<1>10. s = disk[Selected(d[1])]
  BY <1>2 DEF s
<1> QED BY <1>2, <1>4, <1>6, <1>8, <1>9, <1>10, BecomingSelected

\* A checkpoint loses the chunk generator, and nothing of the phase.
LEMMA RestoreKeeps ==
  ASSUME DiskInv, Restore
  PROVE  DiskInv'
<1>1. DOMAIN disk' = Disks /\ \A d \in Disks : disk'[d] = [Restored(disk[d]) EXCEPT !.out = {}]
  BY DEF Restore
<1>2. UNCHANGED chan
  BY DEF Restore
<1>3. ASSUME NEW d \in Disks
      PROVE  /\ Sound(disk'[d]) /\ disk'[d].out = {}
             /\ Running(disk'[d]) <=> Running(disk[d])
             /\ Resting(disk'[d]) <=> Resting(disk[d])
  <2> DEFINE s == disk[d]
             q == Require(Cardinality(s.events) <= 1, s)
             t == [q EXCEPT !.cg = NoCG]
             k == [t EXCEPT !.out = {}]
  <2>1. Sound(s)
    BY DEF DiskInv
  <2>2. disk'[d] = k
    BY <1>1 DEF Restored
  <2> HIDE DEF s
  <2>3. Alike(s, q)
    BY <2>1, RequireIs DEF Alike, Sound
  <2> HIDE DEF q
  <2>4. Alike(q, t)
    BY <2>3 DEF Alike, Calm, IsDisk, DiskFields
  <2> HIDE DEF t
  <2>5. Alike(s, t)
    BY <2>3, <2>4, AlikeComposes
  <2>6. /\ IsDisk(k) /\ k.events = t.events /\ k.flight = t.flight /\ k.out = {}
        /\ k.dmaState = t.dmaState /\ k.dmaAborted = t.dmaAborted /\ k.devState = t.devState
        /\ k.intrPending = t.intrPending /\ k.status = t.status
    BY <2>4 DEF Alike, Calm, IsDisk, DiskFields
  <2> HIDE DEF k
  <2>7. /\ k.events = s.events /\ k.flight = s.flight
        /\ k.dmaState = s.dmaState /\ k.dmaAborted = s.dmaAborted /\ k.devState = s.devState
        /\ k.intrPending = s.intrPending /\ k.status = s.status
    BY <2>5, <2>6 DEF Alike, Calm
  <2>8. /\ Resting(k) <=> Resting(s)
        /\ Armed(k) <=> Armed(s)
        /\ Running(k) <=> Running(s)
        /\ Aborted(k) <=> Aborted(s)
        /\ NoStep(k) <=> NoStep(s)
        /\ OneStep(k) <=> OneStep(s)
    BY <2>7 DEF Resting, Armed, Running, Aborted, NoStep, OneStep
  <2>9. Sound(k)
    BY <2>1, <2>6, <2>8 DEF Sound
  <2> QED BY <2>2, <2>6, <2>8, <2>9 DEF s
<1>4. \A c \in Channels : Selected(c)' = Selected(c)
  BY <1>2 DEF Selected
<1>5. \A d \in Disks : d # Selected(d[1])' => Resting(disk'[d])
  BY <1>3, <1>4, DisksAre DEF DiskInv
<1>6. \A c \in Channels : /\ Selected(c)' \in Disks
                          /\ chan'[c].active = chan'[c].start
                          /\ chan'[c].start = TRUE <=> Running(disk'[Selected(c)'])
  BY <1>2, <1>3, <1>4 DEF DiskInv
<1> QED BY <1>1, <1>2, <1>3, <1>5, <1>6 DEF DiskInv

\* A new disk rests.
LEMMA InitHolds == Init => DiskInv
<1> SUFFICES ASSUME Init PROVE DiskInv
  OBVIOUS
<1>1. DOMAIN disk = Disks /\ \A d \in Disks : disk[d] \in NewDisks(d[2], ImageOf(d))
  BY DEF Init
<1>2. ASSUME NEW d \in Disks PROVE Sound(disk[d]) /\ disk[d].out = {} /\ Resting(disk[d])
  <2>1. PICK n \in BOOLEAN : disk[d] =
             Reset([devID |-> d[2], image |-> ImageOf(d), nIEN |-> n, cg |-> NoCG, events |-> {},
             flight |-> {}, out |-> {}, buf |-> ZeroBuffer, cmd |-> "none", sec |-> 0,
             lba |-> 0, prd |-> ZeroPrd, prdAddr |-> 0, curSector |-> 0, cmdBytes |-> 0,
             cmdBytesLeft |-> 0, drqBytesLeft |-> 0, dmaRead |-> FALSE,
             intrPending |-> FALSE, dmaAborted |-> FALSE, dmaState |-> "Dma_Idle",
             status |-> {}, devState |-> "Device_Idle_NS"], d[2])
    BY <1>1 DEF NewDisks
  <2> DEFINE b == [devID |-> d[2], image |-> ImageOf(d), nIEN |-> n, cg |-> NoCG, events |-> {},
             flight |-> {}, out |-> {}, buf |-> ZeroBuffer, cmd |-> "none", sec |-> 0,
             lba |-> 0, prd |-> ZeroPrd, prdAddr |-> 0, curSector |-> 0, cmdBytes |-> 0,
             cmdBytesLeft |-> 0, drqBytesLeft |-> 0, dmaRead |-> FALSE,
             intrPending |-> FALSE, dmaAborted |-> FALSE, dmaState |-> "Dma_Idle",
             status |-> {}, devState |-> "Device_Idle_NS"]
  <2>2. disk[d] = Reset(b, d[2])
    BY <2>1
  <2>3. IsDisk(b) /\ b.events = {} /\ b.flight = {} /\ b.out = {}
    BY DEF IsDisk, DiskFields
  <2> HIDE DEF b
  <2> DEFINE k == Reset(b, d[2])
  <2>4. IsDisk(k) /\ k.events = b.events /\ k.flight = b.flight /\ k.out = b.out /\ Resting(k)
    BY <2>3, ResetIs
  <2> HIDE DEF k
  <2>5. Sound(k) /\ k.out = {} /\ Resting(k)
    BY <2>3, <2>4 DEF Sound, NoStep
  <2> QED BY <2>2, <2>5 DEF k
<1>3. chan = [c \in Channels |-> [selectBit |-> 0, start |-> FALSE, active |-> FALSE]]
  BY DEF Init
<1>4. chan \in Chans
  BY <1>3 DEF Chans
<1>5. \A c \in Channels : /\ Selected(c) \in Disks
                          /\ chan[c].active = chan[c].start
                          /\ chan[c].start = TRUE <=> Running(disk[Selected(c)])
  <2> TAKE c \in Channels
  <2>1. Selected(c) = <<c, 0>> /\ <<c, 0>> \in Disks /\ chan[c].start = FALSE /\ chan[c].active = FALSE
    BY <1>3, DisksAre DEF Selected
  <2>2. ~Running(disk[Selected(c)])
    BY <1>2, <2>1 DEF Resting, Running
  <2> QED BY <2>1, <2>2
<1> QED BY <1>1, <1>2, <1>4, <1>5 DEF DiskInv

\* All of the driver.
LEMMA DriverKeeps ==
  ASSUME DiskInv, ~busyReset', NEW c \in Channels, Driver(c)
  PROVE  DiskInv'
<1>1. ASSUME NEW bit \in {0, 1}, Select(c, bit) PROVE DiskInv'
  BY <1>1, SelectKeeps
<1>2. ASSUME NEW cmd \in Workload[c], NEW t \in Transfers, Command(c, cmd, t[1], t[2]) PROVE DiskInv'
  BY <1>2, CommandKeeps
<1>3. CASE Start(c)
  BY <1>3, StartKeeps
<1>4. CASE Stop(c)
  BY <1>4, StopKeeps
<1>5. CASE ReadStatus(c)
  BY <1>5, ReadStatusKeeps
<1>6. ASSUME NEW words \in {1, 2}, ReadData(c, words) PROVE DiskInv'
  BY <1>6, ReadDataKeeps
<1>7. ASSUME NEW words \in {1, 2}, WriteData(c, words) PROVE DiskInv'
  BY <1>7, WriteDataKeeps
<1>8. ASSUME NEW srst \in BOOLEAN, NEW nIEN \in BOOLEAN, Control(c, srst, nIEN) PROVE DiskInv'
  BY <1>8, ControlKeeps
<1> QED BY <1>1, <1>2, <1>3, <1>4, <1>5, <1>6, <1>7, <1>8 DEF Driver

\* Every step that leaves no busy channel reset keeps the invariant.
LEMMA NextKeeps ==
  ASSUME DiskInv, ~busyReset', [Next]_vars
  PROVE  DiskInv'
<1>1. CASE UNCHANGED <<disk, chan>>
  <2>1. \A c \in Channels : Selected(c)' = Selected(c)
    BY <1>1 DEF Selected
  <2> QED BY <1>1, <2>1, DisksAre DEF DiskInv
<1>2. CASE ConfigBar \/ ConfigCommand \/ Drain \/ Resume \/ UNCHANGED vars
  BY <1>1, <1>2 DEF ConfigBar, ConfigCommand, Drain, Resume, vars
<1>3. ASSUME NEW c \in Channels, Driver(c) PROVE DiskInv'
  BY <1>3, DriverKeeps
<1>4. ASSUME NEW d \in Disks, ProcessEvent(d) PROVE DiskInv'
  BY <1>4, ProcessEventKeeps
<1>5. ASSUME NEW d \in Disks, CompleteDma(d) PROVE DiskInv'
  BY <1>5, CompleteDmaKeeps
<1>6. CASE Restore
  BY <1>6, RestoreKeeps
<1> QED BY <1>2, <1>3, <1>4, <1>5, <1>6 DEF Next

\* The history never forgets the reset of a busy channel.
LEMMA ResetsRemembered ==
  ASSUME [Next]_vars, busyReset
  PROVE  busyReset'
<1>1. CASE Next
  BY <1>1 DEF Next, ConfigBar, ConfigCommand, Driver, Select, Command, Start, Stop, ReadStatus,
       ReadData, WriteData, Control, ProcessEvent, CompleteDma, Drain, Resume, Restore
<1>2. CASE UNCHANGED vars
  BY <1>2 DEF vars
<1> QED BY <1>1, <1>2

\* The invariant holds until the driver resets a channel that is busy.
DiskInvUntil == busyReset \/ DiskInv

LEMMA DiskInvariant == Spec => []DiskInvUntil
<1>1. Init => DiskInvUntil
  BY InitHolds DEF DiskInvUntil
<1>2. DiskInvUntil /\ [Next]_vars => DiskInvUntil'
  BY NextKeeps, ResetsRemembered DEF DiskInvUntil
<1> QED BY <1>1, <1>2, PTL DEF Spec

\* For any disks, sectors, PRD tables and workloads, until the driver resets a
\* channel that is busy: an interrupt is pending exactly in the states that wait
\* for one.
THEOREM InterruptsTracked == Spec => []IntrTracksState
<1>1. DiskInvUntil => IntrTracksState
  <2> SUFFICES ASSUME DiskInv, NEW d \in Disks
               PROVE  LET waiting == {"Device_Idle_SI", "Data_Ready_INTRQ_In", "Data_Ready_INTRQ_Out"}
                      IN  /\ disk[d].devState \in waiting => disk[d].intrPending
                          /\ disk[d].intrPending => disk[d].devState \in waiting \cup {"Device_Srst"}
    BY DEF IntrTracksState, DiskInvUntil
  <2>1. Sound(disk[d])
    BY DEF DiskInv
  <2> QED BY <2>1 DEF Sound, Resting, Armed, Running, Aborted, Waiting, Unaware
<1> QED BY <1>1, DiskInvariant, PTL

\* Under the same condition: a transfer, stopped or not, has exactly one event or
\* DMA action to come, and the start bit tells whether it goes on.
THEOREM OneStepEach == Spec => []DmaHasOneStep
<1>1. DiskInvUntil => DmaHasOneStep
  <2> SUFFICES ASSUME DiskInv PROVE DmaHasOneStep
    BY DEF DmaHasOneStep, DiskInvUntil
  <2>1. ASSUME NEW d \in Disks
        PROVE  Cardinality(disk[d].events) + Cardinality(disk[d].flight)
                 = IF disk[d].dmaState = "Dma_Transfer" THEN 1 ELSE 0
    <3>1. Sound(disk[d])
      BY DEF DiskInv
    <3>2. CASE NoStep(disk[d])
      <4>1. disk[d].dmaState # "Dma_Transfer"
        BY <3>1, <3>2 DEF Sound, NoStep, OneStep, Resting, Armed
      <4>2. Cardinality(disk[d].events) = 0 /\ Cardinality(disk[d].flight) = 0
        BY <3>2, FS_EmptySet DEF NoStep
      <4> QED BY <4>1, <4>2
    <3>3. CASE ~NoStep(disk[d])
      <4>1. disk[d].dmaState = "Dma_Transfer" /\ OneStep(disk[d])
        BY <3>1, <3>3 DEF Sound, Running, Aborted
      <4>2. CASE \E e \in EventNames : disk[d].events = {e} /\ disk[d].flight = {}
        <5>1. Cardinality(disk[d].events) = 1 /\ Cardinality(disk[d].flight) = 0
          BY <4>2, FS_EmptySet, FS_Singleton
        <5> QED BY <4>1, <5>1
      <4>3. CASE \E f \in disk[d].flight : disk[d].events = {} /\ disk[d].flight = {f}
        <5>1. Cardinality(disk[d].events) = 0 /\ Cardinality(disk[d].flight) = 1
          BY <4>3, FS_EmptySet, FS_Singleton
        <5> QED BY <4>1, <5>1
      <4> QED BY <4>1, <4>2, <4>3 DEF OneStep
    <3> QED BY <3>2, <3>3
  <2>2. ASSUME NEW c \in Channels
        PROVE  /\ chan[c].start = chan[c].active
               /\ chan[c].start <=> disk[Selected(c)].dmaState = "Dma_Transfer" /\ ~disk[Selected(c)].dmaAborted
    <3>1. Selected(c) \in Disks /\ Sound(disk[Selected(c)]) /\ chan[c].start \in BOOLEAN
      BY DEF DiskInv, Chans
    <3>2. chan[c].start = chan[c].active /\ (chan[c].start = TRUE <=> Running(disk[Selected(c)]))
      BY DEF DiskInv
    <3>3. Running(disk[Selected(c)]) <=> disk[Selected(c)].dmaState = "Dma_Transfer" /\ ~disk[Selected(c)].dmaAborted
      BY <3>1 DEF Sound, Resting, Armed, Running, Aborted
    <3> QED BY <3>1, <3>2, <3>3
  <2> QED BY <2>1, <2>2 DEF DmaHasOneStep
<1> QED BY <1>1, DiskInvariant, PTL

----------------------------------------------------------------------------
(* What the disks have left to move.                                      *)

\* How far a disk has come.  No assertion has failed, and the image has all its
\* sectors.
Whole(k) == "panic" \notin k.out /\ DOMAIN k.image = 0 .. NumSectors - 1

\* Programmed I/O: what is left is the rest of the sector in the buffer and j whole
\* sectors, which the image has.
InLeft(k) ==
  \E j \in 0 .. NumSectors :
    /\ k.cmdBytesLeft = k.drqBytesLeft + j * SectorWords
    /\ k.cmd = "IDENTIFY" \/ (k.curSector \in Nat /\ k.curSector + j <= NumSectors)
OutLeft(k) ==
  \E j \in 0 .. NumSectors :
    /\ k.cmdBytesLeft = k.drqBytesLeft + j * SectorWords
    /\ k.curSector \in Nat /\ k.curSector + j + 1 <= NumSectors
Words(k) ==
  /\ k.devState \in {"Transfer_Data_In", "Data_Ready_INTRQ_In", "Transfer_Data_Out", "Data_Ready_INTRQ_Out"} =>
       "DRQ" \in k.status
  /\ k.devState \in {"Transfer_Data_In", "Data_Ready_INTRQ_In"} =>
       k.drqBytesLeft \in Nat \ {0} /\ InLeft(k)
  /\ k.devState \in {"Transfer_Data_Out", "Data_Ready_INTRQ_Out"} =>
       k.drqBytesLeft \in Nat \ {0} /\ OutLeft(k)

\* DMA: the PRD table p is one for the sectors of the command, and i entries of it
\* have been moved, as far as the disk's counters are concerned.
Table(k, p) ==
  /\ k.sec \in Nat \ {0} /\ k.lba \in Nat /\ k.lba + k.sec <= NumSectors
  /\ p \in PrdTables(k.sec)
DoneTo(k, p, i) ==
  /\ k.curSector = k.lba + PrdEnd(p, i)
  /\ k.cmdBytesLeft = (k.sec - PrdEnd(p, i)) * SectorWords

\* What holds when the disk is to run event e, and while the DMA port has an
\* action f whose completion schedules an event.
Ready(k, p, e) ==
  /\ k.prdAddr \in Nat
  /\ CASE e = "Transfer" -> k.prdAddr \in DOMAIN p /\ DoneTo(k, p, k.prdAddr - 1)
       [] e = "PrdRead" -> /\ k.prdAddr \in DOMAIN p /\ DoneTo(k, p, k.prdAddr - 1)
                           /\ k.prd = PrdEntry(p, k.prdAddr)
       [] e = "ReadWait" -> /\ k.prdAddr - 1 \in DOMAIN p /\ DoneTo(k, p, k.prdAddr - 2)
                            /\ k.prd = PrdEntry(p, k.prdAddr - 1)
       [] e = "WriteWait" -> /\ k.prdAddr - 1 \in DOMAIN p /\ DoneTo(k, p, k.prdAddr - 1)
                             /\ k.prd = PrdEntry(p, k.prdAddr - 1)
Underway(k, p, f) ==
  IF f.event = "PrdRead" THEN f.addr = k.prdAddr /\ Ready(k, p, "Transfer")
  ELSE Ready(k, p, f.event)

\* The counters of a disk with PRD table p.
Tallied(k, p) ==
  /\ Whole(k) /\ Words(k)
  /\ Armed(k) => Table(k, p) /\ DoneTo(k, p, 0)
  /\ Running(k) => /\ Table(k, p)
                   /\ \A e \in k.events : Ready(k, p, e)
                   /\ \A f \in k.flight : Underway(k, p, f)

\* The counters of every disk agree with the PRD table of its channel.
CountInv ==
  /\ ~panicked
  /\ DOMAIN mem = Channels /\ \A c \in Channels : "prds" \in DOMAIN mem[c]
  /\ \A d \in Disks : Tallied(disk[d], mem[d[1]].prds)

\* An operation that leaves the counters alone and fails no assertion.
Same(k, r) ==
  /\ IsDisk(r) /\ r.cmd = k.cmd /\ r.sec = k.sec /\ r.lba = k.lba
  /\ r.prd = k.prd /\ r.prdAddr = k.prdAddr /\ r.curSector = k.curSector
  /\ r.cmdBytesLeft = k.cmdBytesLeft /\ r.drqBytesLeft = k.drqBytesLeft /\ r.image = k.image
  /\ "panic" \in r.out <=> "panic" \in k.out

\* Two of them in a row are one,
LEMMA SameComposes ==
  ASSUME NEW k, NEW r, NEW s, Same(k, r), Same(r, s)
  PROVE  Same(k, s)
BY DEF Same

\* and the image keeps its sectors.
LEMMA SameWhole ==
  ASSUME NEW k, NEW r, Same(k, r), Whole(k)
  PROVE  Whole(r)
BY DEF Same, Whole

\* What an assertion that holds does.
LEMMA RequireHolds ==
  ASSUME NEW p, NEW k, p
  PROVE  Require(p, k) = k
BY DEF Require

\* An event is scheduled that was not,
LEMMA ScheduleSame ==
  ASSUME NEW k, NEW e, IsDisk(k), e \notin k.events
  PROVE  Same(k, Schedule(k, e))
<1>1. Schedule(k, e) = [k EXCEPT !.events = @ \cup {e}]
  BY RequireHolds DEF Schedule
<1> QED BY <1>1 DEF Same, IsDisk, DiskFields

\* An interrupt is posted when none is pending, and cleared when one is.
LEMMA IntrPostSame ==
  ASSUME NEW k, IsDisk(k), k.intrPending = FALSE
  PROVE  Same(k, IntrPost(k))
<1> DEFINE o == k.out \cup {"intrPost"}
           r == [k EXCEPT !.intrPending = TRUE, !.out = o]
<1>1. IntrPost(k) = r
  BY DEF IntrPost, Require
<1>2. "panic" \in o <=> "panic" \in k.out
  OBVIOUS
<1> HIDE DEF o
<1>3. /\ IsDisk(r) /\ r.cmd = k.cmd /\ r.sec = k.sec /\ r.lba = k.lba
      /\ r.prd = k.prd /\ r.prdAddr = k.prdAddr /\ r.curSector = k.curSector
      /\ r.cmdBytesLeft = k.cmdBytesLeft /\ r.drqBytesLeft = k.drqBytesLeft /\ r.image = k.image
      /\ r.out = o
  BY DEF IsDisk, DiskFields
<1> HIDE DEF r
<1> QED BY <1>1, <1>2, <1>3 DEF Same

\* An interrupt that is pending is cleared,
LEMMA IntrClearSame ==
  ASSUME NEW k, IsDisk(k), k.intrPending = TRUE
  PROVE  Same(k, IntrClear(k))
<1>1. IntrClear(k) = [k EXCEPT !.intrPending = FALSE]
  BY DEF IntrClear, Require
<1> QED BY <1>1 DEF Same, IsDisk, DiskFields

\* and the status is that of an ended command.
LEMMA SetCompleteSame ==
  ASSUME NEW k, IsDisk(k)
  PROVE  Same(k, SetComplete(k))
BY DEF Same, SetComplete, IsDisk, DiskFields

\* The state of a disk is set.
LEMMA DevStateSame ==
  ASSUME NEW k, NEW s, IsDisk(k)
  PROVE  LET r == [k EXCEPT !.devState = s]
         IN  Same(k, r) /\ r.devState = s /\ r.intrPending = k.intrPending /\ r.status = k.status
BY DEF Same, IsDisk, DiskFields

\* A command ends when no interrupt is pending.
LEMMA IdleSame ==
  ASSUME NEW k, IsDisk(k), k.intrPending = FALSE
  PROVE  LET r == Idle(k)
         IN  Same(k, r) /\ r.devState \in {"Device_Idle_S", "Device_Idle_SI"}
<1>1. CASE k.nIEN
  BY <1>1, DevStateSame DEF Idle
<1>2. CASE ~k.nIEN
  <2> DEFINE s == [k EXCEPT !.devState = "Device_Idle_SI"]
  <2>1. Idle(k) = IntrPost(s)
    BY <1>2 DEF Idle
  <2>2. Same(k, s) /\ s.devState = "Device_Idle_SI" /\ s.intrPending = FALSE
    BY DevStateSame
  <2> HIDE DEF s
  <2>3. Same(s, IntrPost(s)) /\ IntrPost(s).devState = s.devState
    BY <2>2, IntrPostSame, IntrPostIs DEF Same
  <2> QED BY <2>1, <2>2, <2>3, SameComposes
<1> QED BY <1>1, <1>2

\* One sector more.
LEMMA OneMore ==
  ASSUME NEW i \in Nat
  PROVE  (i + 1) * SectorWords = SectorWords + i * SectorWords
BY SectorAssumption

\* prepareDataIn finds the sector it is to read.
LEMMA PrepareDataInCounts ==
  ASSUME NEW k, IsDisk(k), k.intrPending = FALSE, Whole(k), NEW i \in 0 .. NumSectors,
         k.cmdBytesLeft = (i + 1) * SectorWords,
         k.cmd = "IDENTIFY" \/ (k.curSector \in Nat /\ k.curSector + i + 1 <= NumSectors)
  PROVE  LET r == PrepareDataIn(k) IN Whole(r) /\ Words(r)
<1> DEFINE b == IF k.cmd = "IDENTIFY" THEN [k EXCEPT !.buf[1] = IdentifyBlock]
                ELSE IF k.curSector \notin DOMAIN k.image THEN Panic(k)
                ELSE [k EXCEPT !.buf[1] = k.image[k.curSector], !.curSector = @ + 1]
           r == [b EXCEPT !.status = (@ \ {"BSY"}) \cup {"DRQ"}, !.drqBytesLeft = SectorWords]
           s == [r EXCEPT !.devState = "Data_Ready_INTRQ_In"]
           t == [r EXCEPT !.devState = "Transfer_Data_In"]
           v == PrepareDataIn(k)
<1>1. v = IF k.nIEN THEN t ELSE IntrPost(s)
  BY DEF PrepareDataIn
<1>2. /\ IsDisk(b) /\ b.intrPending = FALSE /\ Whole(b) /\ b.cmd = k.cmd /\ b.cmdBytesLeft = k.cmdBytesLeft
      /\ b.cmd = "IDENTIFY" \/ (b.curSector \in Nat /\ b.curSector + i <= NumSectors)
  <2>1. CASE k.cmd = "IDENTIFY"
    BY <2>1 DEF Whole, IsDisk, DiskFields
  <2>2. CASE k.cmd # "IDENTIFY"
    <3>1. k.curSector \in DOMAIN k.image
      BY <2>2, SectorAssumption DEF Whole
    <3>2. b = [k EXCEPT !.buf[1] = k.image[k.curSector], !.curSector = @ + 1]
      BY <2>2, <3>1
    <3>3. /\ IsDisk(b) /\ b.intrPending = FALSE /\ b.cmd = k.cmd /\ b.cmdBytesLeft = k.cmdBytesLeft
          /\ b.curSector = k.curSector + 1 /\ b.out = k.out /\ b.image = k.image
      <4> HIDE DEF b
      <4> QED BY <3>2 DEF IsDisk, DiskFields
    <3> HIDE DEF b
    <3> QED BY <2>2, <3>3, SectorAssumption DEF Whole
  <2> QED BY <2>1, <2>2
<1> HIDE DEF b
<1>3. /\ IsDisk(r) /\ r.intrPending = FALSE /\ Whole(r) /\ r.cmd = b.cmd /\ r.cmdBytesLeft = b.cmdBytesLeft
      /\ r.drqBytesLeft = SectorWords /\ r.curSector = b.curSector /\ "DRQ" \in r.status
  BY <1>2 DEF Whole, IsDisk, DiskFields
<1> HIDE DEF r
<1>4. Same(r, s) /\ s.intrPending = FALSE /\ Same(r, t) /\ s.status = r.status /\ t.status = r.status
  BY <1>3, DevStateSame
<1> HIDE DEF s, t
<1>5. Same(s, IntrPost(s)) /\ IntrPost(s).status = r.status
  BY <1>4, IntrPostSame, IntrPostIs DEF Same
<1>6. Same(r, IntrPost(s))
  BY <1>4, <1>5, SameComposes
<1>7. Same(r, v) /\ "DRQ" \in v.status
  BY <1>1, <1>3, <1>4, <1>5, <1>6
<1>8. v.devState \in {"Transfer_Data_In", "Data_Ready_INTRQ_In"}
  BY PrepareDataInIs
<1> HIDE DEF v
<1>9. v.drqBytesLeft = SectorWords /\ v.cmdBytesLeft = SectorWords + i * SectorWords
  BY <1>2, <1>3, <1>7, OneMore, SectorAssumption DEF Same
<1>10. v.cmd = "IDENTIFY" \/ (v.curSector \in Nat /\ v.curSector + i <= NumSectors)
  BY <1>2, <1>3, <1>7 DEF Same
<1>11. InLeft(v)
  BY <1>9, <1>10 DEF InLeft
<1>12. Whole(v) /\ Words(v)
  BY <1>3, <1>7, <1>8, <1>9, <1>11, SameWhole, SectorAssumption DEF Words
<1> QED BY <1>12 DEF v

\* A word for the driver, and after the last of a sector the next one.
LEMMA TransferDataInCounts ==
  ASSUME NEW k, IsDisk(k), k.intrPending = FALSE, k.devState = "Transfer_Data_In", Whole(k), Words(k)
  PROVE  LET r == TransferDataIn(k) IN Whole(r) /\ Words(r)
<1> DEFINE r == [k EXCEPT !.drqBytesLeft = @ - 1, !.cmdBytesLeft = @ - 1]
           s == [SetComplete(r) EXCEPT !.devState = "Device_Idle_S"]
           t == [r EXCEPT !.devState = "Prepare_Data_In", !.status = (@ \ {"DRQ"}) \cup {"BSY"}]
<1>1. TransferDataIn(k) = IF r.drqBytesLeft # 0 THEN r ELSE IF r.cmdBytesLeft = 0 THEN s ELSE PrepareDataIn(t)
  BY DEF TransferDataIn
<1>2. k.drqBytesLeft \in Nat \ {0} /\ InLeft(k)
  BY DEF Words
<1>3. PICK j \in 0 .. NumSectors :
        /\ k.cmdBytesLeft = k.drqBytesLeft + j * SectorWords
        /\ k.cmd = "IDENTIFY" \/ (k.curSector \in Nat /\ k.curSector + j <= NumSectors)
  BY <1>2 DEF InLeft
<1>4. j \in Nat /\ j * SectorWords \in Nat
  BY <1>3, SectorAssumption
<1>5. /\ IsDisk(r) /\ r.intrPending = FALSE /\ r.devState = "Transfer_Data_In" /\ Whole(r)
      /\ r.drqBytesLeft = k.drqBytesLeft - 1 /\ r.cmdBytesLeft = k.cmdBytesLeft - 1
      /\ r.cmd = k.cmd /\ r.curSector = k.curSector /\ r.status = k.status
  BY DEF Whole, IsDisk, DiskFields
<1> HIDE DEF r
<1>6. r.cmdBytesLeft = r.drqBytesLeft + j * SectorWords
  BY <1>2, <1>3, <1>4, <1>5
<1>7. CASE r.drqBytesLeft # 0
  <2>1. r.drqBytesLeft \in Nat \ {0}
    BY <1>2, <1>5, <1>7
  <2>2. InLeft(r)
    BY <1>3, <1>5, <1>6 DEF InLeft
  <2>3. Words(r)
    <3>1. "DRQ" \in r.status
      BY <1>5 DEF Words
    <3> QED BY <1>5, <2>1, <2>2, <3>1 DEF Words
  <2> QED BY <1>1, <1>5, <1>7, <2>3
<1>8. CASE r.drqBytesLeft = 0 /\ r.cmdBytesLeft = 0
  <2> DEFINE u == SetComplete(r)
  <2>1. Same(r, u)
    BY <1>5, SetCompleteSame
  <2> HIDE DEF u
  <2>2. Same(u, s) /\ s.devState = "Device_Idle_S"
    <3>1. s = [u EXCEPT !.devState = "Device_Idle_S"]
      BY DEF u
    <3> HIDE DEF s
    <3>2. IsDisk(u)
      BY <2>1 DEF Same
    <3> QED BY <3>1, <3>2, DevStateSame
  <2> HIDE DEF s
  <2>3. Whole(s) /\ Words(s)
    BY <1>5, <2>1, <2>2, SameComposes, SameWhole DEF Words
  <2> QED BY <1>1, <1>8, <2>3
<1>9. CASE r.drqBytesLeft = 0 /\ r.cmdBytesLeft # 0
  <2> DEFINE i == j - 1
  <2>1. j # 0
    BY <1>4, <1>6, <1>9, SectorAssumption
  <2>2. i \in 0 .. NumSectors /\ i + 1 = j
    BY <1>3, <1>4, <2>1, SectorAssumption
  <2> HIDE DEF i
  <2>3. /\ IsDisk(t) /\ t.intrPending = FALSE /\ Whole(t) /\ t.cmdBytesLeft = r.cmdBytesLeft
        /\ t.cmd = r.cmd /\ t.curSector = r.curSector
    BY <1>5 DEF Whole, IsDisk, DiskFields
  <2> HIDE DEF t
  <2>4. t.cmdBytesLeft = (i + 1) * SectorWords
    BY <1>4, <1>6, <1>9, <2>2, <2>3
  <2>5. t.cmd = "IDENTIFY" \/ (t.curSector \in Nat /\ t.curSector + i + 1 <= NumSectors)
    BY <1>3, <1>5, <2>2, <2>3, SectorAssumption
  <2>6. Whole(PrepareDataIn(t)) /\ Words(PrepareDataIn(t))
    BY <2>2, <2>3, <2>4, <2>5, PrepareDataInCounts
  <2> QED BY <1>1, <1>9, <2>6
<1> QED BY <1>7, <1>8, <1>9

\* prepareDataOut asks for a sector that the image has.
LEMMA PrepareDataOutCounts ==
  ASSUME NEW k, IsDisk(k), k.intrPending = FALSE, Whole(k), NEW j \in 0 .. NumSectors,
         k.cmdBytesLeft = j * SectorWords, k.curSector \in Nat, k.curSector + j <= NumSectors
  PROVE  LET r == PrepareDataOut(k) IN Whole(r) /\ Words(r)
<1> DEFINE r == [k EXCEPT !.status = (@ \ {"BSY"}) \cup {"DRQ"}, !.buf = ZeroBuffer, !.drqBytesLeft = SectorWords]
           s == [r EXCEPT !.devState = "Transfer_Data_Out"]
           t == [r EXCEPT !.devState = "Data_Ready_INTRQ_Out"]
           u == SetComplete(k)
           v == PrepareDataOut(k)
<1>1. v = IF k.cmdBytesLeft = 0 THEN Idle(u)
          ELSE IF k.cmdBytesLeft = k.cmdBytes \/ k.nIEN THEN s ELSE IntrPost(t)
  BY DEF PrepareDataOut
<1>2. CASE k.cmdBytesLeft = 0
  <2>1. Same(k, u) /\ u.intrPending = FALSE
    BY SetCompleteSame, SetCompleteIs
  <2> HIDE DEF u
  <2>2. v = Idle(u)
    BY <1>1, <1>2
  <2> HIDE DEF v
  <2>3. Same(u, v) /\ v.devState \in {"Device_Idle_S", "Device_Idle_SI"}
    BY <2>1, <2>2, IdleSame DEF Same
  <2>4. Whole(v) /\ Words(v)
    BY <2>1, <2>3, SameComposes, SameWhole DEF Words
  <2> QED BY <2>4 DEF v
<1>3. CASE k.cmdBytesLeft # 0
  <2>1. /\ IsDisk(r) /\ r.intrPending = FALSE /\ Whole(r) /\ r.cmdBytesLeft = k.cmdBytesLeft
        /\ r.drqBytesLeft = SectorWords /\ r.curSector = k.curSector /\ "DRQ" \in r.status
    BY DEF Whole, IsDisk, DiskFields
  <2> HIDE DEF r
  <2>2. Same(r, s) /\ Same(r, t) /\ t.intrPending = FALSE
        /\ s.devState = "Transfer_Data_Out" /\ t.devState = "Data_Ready_INTRQ_Out"
        /\ s.status = r.status /\ t.status = r.status
    BY <2>1, DevStateSame
  <2> HIDE DEF s, t
  <2>3. Same(t, IntrPost(t)) /\ IntrPost(t).devState = t.devState /\ IntrPost(t).status = t.status
    BY <2>2, IntrPostSame, IntrPostIs DEF Same
  <2>4. Same(r, IntrPost(t))
    BY <2>2, <2>3, SameComposes
  <2>5. Same(r, v) /\ v.devState \in {"Transfer_Data_Out", "Data_Ready_INTRQ_Out"} /\ "DRQ" \in v.status
    BY <1>1, <1>3, <2>1, <2>2, <2>3, <2>4
  <2> HIDE DEF v
  <2> DEFINE i == j - 1
  <2>6. i \in 0 .. NumSectors /\ i + 1 = j
    <3>1. j # 0
      BY <1>3, SectorAssumption
    <3> QED BY <3>1, SectorAssumption
  <2> HIDE DEF i
  <2>7. v.drqBytesLeft = SectorWords /\ v.cmdBytesLeft = SectorWords + i * SectorWords
    BY <2>1, <2>5, <2>6, OneMore DEF Same
  <2>8. v.curSector \in Nat /\ v.curSector + i + 1 <= NumSectors
    BY <2>1, <2>5, <2>6, SectorAssumption DEF Same
  <2>9. OutLeft(v)
    BY <2>6, <2>7, <2>8 DEF OutLeft
  <2>10. Whole(v) /\ Words(v)
    BY <2>1, <2>5, <2>7, <2>9, SameWhole, SectorAssumption DEF Words
  <2> QED BY <2>10 DEF v
<1> QED BY <1>2, <1>3

\* A word from the driver, and after the last of a sector the write to the image.
LEMMA TransferDataOutCounts ==
  ASSUME NEW k, NEW w, IsDisk(k), k.intrPending = FALSE, k.devState = "Transfer_Data_Out", Whole(k), Words(k)
  PROVE  LET r == TransferDataOut(k, w) IN Whole(r) /\ Words(r)
<1> DEFINE r == [k EXCEPT !.buf[1][SectorWords - k.drqBytesLeft + 1] = w,
                          !.drqBytesLeft = @ - 1, !.cmdBytesLeft = @ - 1]
           v == WriteDisk(r, r.buf[1])
           t == [v EXCEPT !.devState = "Prepare_Data_Out", !.status = (@ \ {"DRQ"}) \cup {"BSY", "SEEK"}]
<1>1. TransferDataOut(k, w) = IF r.drqBytesLeft # 0 THEN r ELSE PrepareDataOut(t)
  BY DEF TransferDataOut
<1>2. k.drqBytesLeft \in Nat \ {0} /\ OutLeft(k)
  BY DEF Words
<1>3. PICK j \in 0 .. NumSectors :
        /\ k.cmdBytesLeft = k.drqBytesLeft + j * SectorWords
        /\ k.curSector \in Nat /\ k.curSector + j + 1 <= NumSectors
  BY <1>2 DEF OutLeft
<1>4. j \in Nat /\ j * SectorWords \in Nat
  BY <1>3, SectorAssumption
<1>5. /\ IsDisk(r) /\ r.intrPending = FALSE /\ r.devState = "Transfer_Data_Out" /\ Whole(r)
      /\ r.drqBytesLeft = k.drqBytesLeft - 1 /\ r.cmdBytesLeft = k.cmdBytesLeft - 1
      /\ r.curSector = k.curSector /\ r.status = k.status
  BY DEF Whole, IsDisk, DiskFields
<1> HIDE DEF r
<1>6. r.cmdBytesLeft = r.drqBytesLeft + j * SectorWords
  BY <1>2, <1>3, <1>4, <1>5
<1>7. CASE r.drqBytesLeft # 0
  <2>1. r.drqBytesLeft \in Nat \ {0}
    BY <1>2, <1>5, <1>7
  <2>2. OutLeft(r)
    BY <1>3, <1>5, <1>6 DEF OutLeft
  <2>3. Words(r)
    <3>1. "DRQ" \in r.status
      BY <1>5 DEF Words
    <3> QED BY <1>5, <2>1, <2>2, <3>1 DEF Words
  <2> QED BY <1>1, <1>5, <1>7, <2>3
<1>8. CASE r.drqBytesLeft = 0
  <2>1. r.curSector \in DOMAIN r.image
    BY <1>3, <1>4, <1>5, SectorAssumption DEF Whole
  <2>2. v = [r EXCEPT !.image[r.curSector] = r.buf[1], !.curSector = @ + 1]
    BY <2>1 DEF WriteDisk
  <2> HIDE DEF v
  <2>3. /\ IsDisk(v) /\ v.intrPending = FALSE /\ v.cmdBytesLeft = r.cmdBytesLeft
        /\ v.curSector = r.curSector + 1 /\ v.out = r.out /\ DOMAIN v.image = DOMAIN r.image
    BY <1>5, <2>2 DEF IsDisk, DiskFields
  <2>4. /\ IsDisk(t) /\ t.intrPending = FALSE /\ t.cmdBytesLeft = v.cmdBytesLeft
        /\ t.curSector = v.curSector /\ t.out = v.out /\ t.image = v.image
    BY <2>3 DEF IsDisk, DiskFields
  <2> HIDE DEF t
  <2>5. Whole(t)
    BY <1>5, <2>3, <2>4 DEF Whole
  <2>6. t.cmdBytesLeft = j * SectorWords
    BY <1>4, <1>6, <1>8, <2>3, <2>4
  <2>7. t.curSector \in Nat /\ t.curSector + j <= NumSectors
    BY <1>3, <1>4, <1>5, <2>3, <2>4, SectorAssumption
  <2>8. Whole(PrepareDataOut(t)) /\ Words(PrepareDataOut(t))
    BY <2>4, <2>5, <2>6, <2>7, PrepareDataOutCounts
  <2> QED BY <1>1, <1>8, <2>8
<1> QED BY <1>7, <1>8

\* States of a disk that waits for the driver to read, and to write.
InStates == {"Transfer_Data_In", "Data_Ready_INTRQ_In"}
OutStates == {"Transfer_Data_Out", "Data_Ready_INTRQ_Out"}

\* The counters of a disk that is not transferring by DMA, or is only armed.
Fresh(k, p) ==
  /\ Whole(k) /\ Words(k)
  /\ k.devState = "Transfer_Data_Dma" => Table(k, p) /\ DoneTo(k, p, 0)

\* The task file names sectors of the image, and the PRD table is one for them.
Given(k, p) ==
  /\ k.sec \in Nat \ {0} /\ k.lba \in Nat /\ k.lba + k.sec <= NumSectors
  /\ k.cmd \in DmaCommands => p \in PrdTables(k.sec)

\* An operation that leaves the counters and does not begin a transfer.
LEMMA SameFresh ==
  ASSUME NEW k, NEW r, NEW p, Same(k, r), Whole(k), Words(k),
         r.devState # "Transfer_Data_Dma",
         r.devState \in InStates => k.devState \in InStates,
         r.devState \in OutStates => k.devState \in OutStates,
         r.devState \in InStates \cup OutStates => r.status = k.status
  PROVE  Fresh(r, p)
<1>1. Whole(r)
  BY SameWhole
<1>2. InLeft(k) => InLeft(r)
  BY DEF Same, InLeft
<1>3. OutLeft(k) => OutLeft(r)
  BY DEF Same, OutLeft
<1>4. Words(r)
  BY <1>2, <1>3 DEF Same, Words, InStates, OutStates
<1> QED BY <1>1, <1>4 DEF Fresh

\* A command begins at its first sector.
LEMMA StartCommandCounts ==
  ASSUME NEW k, NEW p, IsDisk(k), k.intrPending = FALSE, k.dmaState = "Dma_Idle", k.dmaAborted = FALSE,
         k.cmd \in Commands, Whole(k), Given(k, p)
  PROVE  Fresh(StartCommand(k), p)
<1> DEFINE size == IF k.cmd = "IDENTIFY" THEN SectorWords ELSE k.sec * SectorWords
           r == [k EXCEPT !.status = (@ \ {"DRQ"}) \cup {"BSY"}, !.dmaRead = k.cmd = "WRITEDMA"]
           first == IF k.cmd = "IDENTIFY" THEN r.curSector ELSE k.lba
           d == [r EXCEPT !.cmdBytes = size, !.cmdBytesLeft = size, !.curSector = first]
           q == Require(k.dmaState = "Dma_Idle", d)
           m == [q EXCEPT !.status = (@ \ {"BSY"}) \cup {"DRQ"},
                          !.devState = "Transfer_Data_Dma", !.dmaState = "Dma_Start"]
           v == StartCommand(k)
<1>1. IsDisk(r)
  BY DEF IsDisk, DiskFields
<1>2. /\ k.cmd = "RECAL" => v = Idle(SetComplete(r))
      /\ k.cmd \in {"IDENTIFY", "READ"} => v = PrepareDataIn(d)
      /\ k.cmd = "WRITE" => v = PrepareDataOut(d)
      /\ k.cmd \in DmaCommands => v = m
  <2>1. [r EXCEPT !.cmdBytes = size, !.cmdBytesLeft = size,
                  !.curSector = IF k.cmd = "IDENTIFY" THEN @ ELSE k.lba] = d
    <3> HIDE DEF r
    <3> QED BY <1>1 DEF IsDisk, DiskFields
  <2> QED BY <2>1 DEF StartCommand, DmaCommands
<1>3. Same(k, r) /\ r.intrPending = FALSE
  BY DEF Same, IsDisk, DiskFields
<1>4. k.cmd # "IDENTIFY" => size = k.sec * SectorWords /\ first = k.lba
  OBVIOUS
<1>5. k.cmd = "IDENTIFY" => size = SectorWords
  OBVIOUS
<1> HIDE DEF r, size, first, v
<1>6. /\ IsDisk(d) /\ d.intrPending = FALSE /\ d.cmdBytesLeft = size /\ d.curSector = first
      /\ d.cmd = r.cmd /\ d.sec = r.sec /\ d.lba = r.lba /\ d.image = r.image /\ d.out = r.out
  BY <1>3 DEF Same, IsDisk, DiskFields
<1> HIDE DEF d
<1>7. /\ Whole(d) /\ d.cmd = k.cmd /\ d.sec = k.sec /\ d.lba = k.lba
  BY <1>3, <1>6 DEF Same, Whole
<1>8. CASE k.cmd = "RECAL"
  <2> DEFINE u == SetComplete(r)
  <2>1. Same(r, u) /\ u.intrPending = FALSE
    BY <1>3, SetCompleteSame, SetCompleteIs DEF Same
  <2>2. v = Idle(u)
    BY <1>2, <1>8
  <2> HIDE DEF u
  <2>3. Same(u, v) /\ v.devState \in {"Device_Idle_S", "Device_Idle_SI"}
    BY <2>1, <2>2, IdleSame DEF Same
  <2>4. Whole(v)
    BY <1>3, <2>1, <2>3, SameWhole
  <2>5. Fresh(v, p)
    BY <2>3, <2>4 DEF Fresh, Words
  <2> QED BY <2>5 DEF v
<1>9. CASE k.cmd \in {"IDENTIFY", "READ"}
  <2> DEFINE i == IF k.cmd = "IDENTIFY" THEN 0 ELSE k.sec - 1
  <2>1. i \in 0 .. NumSectors /\ size = (i + 1) * SectorWords
    BY <1>4, <1>5, <1>9, SectorAssumption DEF Given
  <2>2. d.cmd = "IDENTIFY" \/ (d.curSector \in Nat /\ d.curSector + i + 1 <= NumSectors)
    BY <1>4, <1>6, <1>7, <1>9, SectorAssumption DEF Given
  <2> HIDE DEF i
  <2>3. v = PrepareDataIn(d)
    BY <1>2, <1>9
  <2>4. Whole(v) /\ Words(v)
    BY <1>6, <1>7, <2>1, <2>2, <2>3, PrepareDataInCounts
  <2>5. v.devState # "Transfer_Data_Dma"
    BY <1>6, <2>3, PrepareDataInIs
  <2>6. Fresh(v, p)
    BY <2>4, <2>5 DEF Fresh
  <2> QED BY <2>6 DEF v
<1>10. CASE k.cmd = "WRITE"
  <2>1. k.sec \in 0 .. NumSectors /\ d.cmdBytesLeft = k.sec * SectorWords /\ d.curSector \in Nat /\ d.curSector + k.sec <= NumSectors
    BY <1>4, <1>6, <1>10, SectorAssumption DEF Given
  <2>2. v = PrepareDataOut(d)
    BY <1>2, <1>10
  <2>3. Whole(v) /\ Words(v)
    BY <1>6, <1>7, <2>1, <2>2, PrepareDataOutCounts
  <2>4. v.devState # "Transfer_Data_Dma"
    BY <1>6, <2>2, PrepareDataOutIs
  <2>5. Fresh(v, p)
    BY <2>3, <2>4 DEF Fresh
  <2> QED BY <2>5 DEF v
<1>11. CASE k.cmd \in DmaCommands
  <2>1. v = m /\ q = d
    BY <1>2, <1>11 DEF Require
  <2> HIDE DEF q
  <2>2. /\ m.devState = "Transfer_Data_Dma" /\ m.image = d.image /\ m.out = d.out /\ m.sec = d.sec /\ m.lba = d.lba
        /\ m.curSector = d.curSector /\ m.cmdBytesLeft = d.cmdBytesLeft
    BY <1>6, <2>1 DEF IsDisk, DiskFields
  <2> HIDE DEF m
  <2>3. Whole(m) /\ Words(m)
    BY <1>7, <2>2 DEF Whole, Words
  <2>4. first = k.lba /\ size = k.sec * SectorWords
    BY <1>4, <1>11 DEF DmaCommands
  <2>5. Table(m, p)
    BY <1>7, <1>11, <2>2 DEF Table, Given
  <2>6. DoneTo(m, p, 0)
    BY <1>6, <1>7, <2>2, <2>4, SectorAssumption DEF DoneTo, PrdEnd, Given
  <2>7. Fresh(v, p)
    BY <2>1, <2>3, <2>5, <2>6 DEF Fresh
  <2> QED BY <2>7 DEF v
<1> QED BY <1>8, <1>9, <1>10, <1>11 DEF Commands, DmaCommands

\* The end of a DMA command.
LEMMA DmaCompleteCounts ==
  ASSUME NEW k, NEW p, IsDisk(k), k.intrPending = FALSE, Whole(k)
  PROVE  Fresh(DmaComplete(k), p)
<1> DEFINE u == SetComplete(k)
           v == [u EXCEPT !.out = @ \cup {"dmaComplete"}]
           r == Idle(v)
<1>1. DmaComplete(k) = r
  BY DEF DmaComplete
<1>2. Same(k, u) /\ u.intrPending = FALSE
  BY SetCompleteSame, SetCompleteIs
<1> HIDE DEF u
<1>3. Same(u, v) /\ v.intrPending = FALSE
  BY <1>2 DEF Same, IsDisk, DiskFields
<1> HIDE DEF v
<1>4. Same(v, r) /\ r.devState \in {"Device_Idle_S", "Device_Idle_SI"}
  BY <1>3, IdleSame DEF Same
<1> HIDE DEF r
<1>5. Whole(r)
  BY <1>2, <1>3, <1>4, SameWhole
<1> QED BY <1>1, <1>4, <1>5 DEF Fresh, Words

\* A reset.
LEMMA ResetCounts ==
  ASSUME NEW k, NEW id, NEW p, IsDisk(k), Whole(k)
  PROVE  Fresh(Reset(k, id), p)
<1> DEFINE st == IF id = 0 THEN "Device_Idle_S" ELSE "Device_Idle_NS"
           a == [k EXCEPT !.buf = ZeroBuffer, !.cmd = "none", !.sec = 0, !.lba = 0, !.prd = ZeroPrd]
           b == [a EXCEPT !.prdAddr = 0, !.curSector = 0, !.cmdBytes = 0, !.cmdBytesLeft = 0,
                          !.drqBytesLeft = 0, !.dmaRead = FALSE]
           r == [b EXCEPT !.intrPending = FALSE, !.dmaAborted = FALSE, !.dmaState = "Dma_Idle",
                          !.status = {}, !.devState = st]
<1>1. Reset(k, id) = r
  BY DEF Reset
<1>2. st \in {"Device_Idle_S", "Device_Idle_NS"}
  OBVIOUS
<1> HIDE DEF st
<1>3. IsDisk(a) /\ a.image = k.image /\ a.out = k.out
  BY DEF IsDisk, DiskFields
<1> HIDE DEF a
<1>4. IsDisk(b) /\ b.image = k.image /\ b.out = k.out
  BY <1>3 DEF IsDisk, DiskFields
<1> HIDE DEF b
<1>5. r.image = k.image /\ r.out = k.out /\ r.devState = st
  BY <1>4 DEF IsDisk, DiskFields
<1> HIDE DEF r
<1> QED BY <1>1, <1>2, <1>5 DEF Fresh, Words, Whole

\* updateState in a resting disk fails no assertion.
LEMMA UpdateRestsCounts ==
  ASSUME NEW k, NEW action, NEW selected, NEW word, NEW p, IsDisk(k), Resting(k), Whole(k), Words(k),
         action = "CMD_WRITE" => k.cmd \in Commands /\ Given(k, p)
  PROVE  Fresh(UpdateState(k, action, selected, word), p)
<1> SUFFICES ASSUME NEW r, r = UpdateState(k, action, selected, word)
             PROVE  Fresh(r, p)
  OBVIOUS
<1>1. k.dmaState = "Dma_Idle" /\ k.dmaAborted = FALSE /\ k.devState # "Transfer_Data_Dma"
  BY DEF Resting, Waiting, Unaware
<1>2. CASE r = k
  BY <1>1, <1>2 DEF Fresh
<1>3. ASSUME NEW s, r = IntrClear([k EXCEPT !.devState = s]), k.devState \in Waiting, s # "Transfer_Data_Dma",
             s \in InStates => k.devState \in InStates, s \in OutStates => k.devState \in OutStates
      PROVE  Fresh(r, p)
  <2> DEFINE u == [k EXCEPT !.devState = s]
  <2>1. Same(k, u) /\ u.devState = s /\ u.intrPending = TRUE /\ u.status = k.status
    <3>1. k.intrPending = TRUE
      BY <1>3 DEF Resting, Waiting, Unaware
    <3> QED BY <3>1, DevStateSame
  <2>2. r = IntrClear(u)
    BY <1>3
  <2> HIDE DEF u
  <2>3. Same(u, r) /\ r.devState = s /\ r.status = u.status
    <3>1. IsDisk(u)
      BY <2>1 DEF Same
    <3>2. Same(u, IntrClear(u)) /\ IntrClear(u).devState = u.devState /\ IntrClear(u).status = u.status
      BY <2>1, <3>1, IntrClearSame, IntrClearIs
    <3> QED BY <2>1, <2>2, <3>2
  <2>4. Same(k, r)
    BY <2>1, <2>3, SameComposes
  <2> QED BY <1>3, <2>1, <2>3, <2>4, SameFresh
<1>4. ASSUME NEW s \in {"Device_Idle_S", "Device_Idle_NS"}, r = [k EXCEPT !.devState = s] PROVE Fresh(r, p)
  <2>1. Same(k, r) /\ r.devState = s
    BY <1>4, DevStateSame
  <2> QED BY <2>1, SameFresh DEF InStates, OutStates
<1>5. CASE k.devState = "Device_Srst"
  <2>1. r \in {k, [k EXCEPT !.status = @ \cup {"BSY"}], Reset(k, k.devID)}
    BY <1>5 DEF UpdateState
  <2>2. CASE r = Reset(k, k.devID)
    BY <2>2, ResetCounts
  <2>3. CASE r = [k EXCEPT !.status = @ \cup {"BSY"}]
    <3>1. Same(k, r) /\ r.devState = k.devState
      BY <2>3 DEF Same, IsDisk, DiskFields
    <3> QED BY <1>1, <1>5, <3>1, SameFresh DEF InStates, OutStates
  <2> QED BY <1>2, <2>1, <2>2, <2>3
<1>6. CASE k.devState = "Device_Idle_S"
  <2>1. \/ r \in {k, [k EXCEPT !.devState = "Device_Idle_NS"]}
        \/ action = "CMD_WRITE" /\ r = StartCommand(k)
    BY <1>6 DEF UpdateState
  <2>2. k.intrPending = FALSE
    BY <1>6 DEF Resting, Waiting
  <2>3. CASE action = "CMD_WRITE" /\ r = StartCommand(k)
    BY <1>1, <2>2, <2>3, StartCommandCounts
  <2> QED BY <1>2, <1>4, <2>1, <2>3
<1>7. CASE k.devState = "Device_Idle_SI"
  <2>1. \/ r \in {k, IntrClear([k EXCEPT !.devState = "Device_Idle_NS"]),
                  IntrClear([k EXCEPT !.devState = "Device_Idle_S"])}
        \/ action = "CMD_WRITE" /\ r = StartCommand(IntrClear(k))
    BY <1>7 DEF UpdateState
  <2>2. CASE action = "CMD_WRITE" /\ r = StartCommand(IntrClear(k))
    <3> DEFINE u == IntrClear(k)
    <3>1. k.intrPending = TRUE
      BY <1>7 DEF Resting, Unaware
    <3>2. Calm(k, u) /\ u.intrPending = FALSE /\ Same(k, u)
      BY <3>1, IntrClearIs, IntrClearSame
    <3> HIDE DEF u
    <3>3. r = StartCommand(u)
      BY <2>2 DEF u
    <3>4. Whole(u) /\ Given(u, p) /\ u.cmd \in Commands
      BY <2>2, <3>2, SameWhole DEF Same, Given
    <3> QED BY <1>1, <3>2, <3>3, <3>4, StartCommandCounts DEF Calm
  <2> QED BY <1>2, <1>3, <1>7, <2>1, <2>2 DEF Waiting, InStates, OutStates
<1>8. CASE k.devState = "Device_Idle_NS"
  <2>1. \/ r = k
        \/ k.intrPending /\ r = IntrPost([k EXCEPT !.devState = "Device_Idle_SI"])
        \/ r = [k EXCEPT !.devState = "Device_Idle_S"]
    BY <1>8 DEF UpdateState
  <2>2. k.intrPending = FALSE
    BY <1>8 DEF Resting, Waiting
  <2> QED BY <1>2, <1>4, <2>1, <2>2
<1>9. CASE k.devState = "Data_Ready_INTRQ_In"
  <2>1. r \in {k, IntrClear([k EXCEPT !.devState = "Transfer_Data_In"])}
    BY <1>9 DEF UpdateState
  <2> QED BY <1>2, <1>3, <1>9, <2>1 DEF Waiting, InStates, OutStates
<1>10. CASE k.devState = "Data_Ready_INTRQ_Out"
  <2>1. r \in {k, IntrClear([k EXCEPT !.devState = "Transfer_Data_Out"])}
    BY <1>10 DEF UpdateState
  <2> QED BY <1>2, <1>3, <1>10, <2>1 DEF Waiting, InStates, OutStates
<1>11. CASE k.devState = "Transfer_Data_In"
  <2>1. r \in {k, TransferDataIn(k)}
    BY <1>11 DEF UpdateState
  <2>2. k.intrPending = FALSE
    BY <1>11 DEF Resting, Waiting
  <2>3. CASE r = TransferDataIn(k)
    <3>1. Whole(r) /\ Words(r)
      BY <1>11, <2>2, <2>3, TransferDataInCounts
    <3>2. r.devState # "Transfer_Data_Dma"
      BY <1>11, <2>2, <2>3, TransferDataInIs
    <3> QED BY <3>1, <3>2 DEF Fresh
  <2> QED BY <1>2, <2>1, <2>3
<1>12. CASE k.devState = "Transfer_Data_Out"
  <2>1. r \in {k, TransferDataOut(k, word)}
    BY <1>12 DEF UpdateState
  <2>2. k.intrPending = FALSE
    BY <1>12 DEF Resting, Waiting
  <2>3. CASE r = TransferDataOut(k, word)
    <3>1. Whole(r) /\ Words(r)
      BY <1>12, <2>2, <2>3, TransferDataOutCounts
    <3>2. r.devState # "Transfer_Data_Dma"
      BY <1>12, <2>2, <2>3, TransferDataOutIs
    <3> QED BY <3>1, <3>2 DEF Fresh
  <2> QED BY <1>2, <2>1, <2>3
<1>13. k.devState \in Waiting \cup Unaware \cup {"Device_Srst"}
  BY DEF Resting
<1> QED BY <1>5, <1>6, <1>7, <1>8, <1>9, <1>10, <1>11, <1>12, <1>13 DEF Waiting, Unaware

\* A transfer between two steps, with its PRD table.
Rolling(k, p) == Between(k) /\ Running(k) /\ Whole(k) /\ Table(k, p)

\* Entry i of a PRD table: it ends where the next one begins, the last one at the end.
LEMMA PrdFacts ==
  ASSUME NEW n \in Nat \ {0}, NEW p \in PrdTables(n), NEW i \in DOMAIN p
  PROVE  /\ i \in Nat \ {0} /\ 1 \in DOMAIN p
         /\ PrdEnd(p, i) \in 1 .. n /\ PrdEnd(p, i - 1) \in 0 .. n /\ PrdEnd(p, i - 1) < PrdEnd(p, i)
         /\ i = Len(p) => PrdEnd(p, i) = n
         /\ i # Len(p) => i + 1 \in DOMAIN p
         /\ PrdEntry(p, i).n = PrdEnd(p, i) - PrdEnd(p, i - 1)
         /\ PrdEntry(p, i).eot <=> i = Len(p)
<1>1. PICK m \in 1 .. n : p \in [1 .. m -> 1 .. n]
  BY DEF PrdTables
<1>2. p[Len(p)] = n /\ \A h \in 2 .. Len(p) : p[h - 1] < p[h]
  BY DEF PrdTables
<1>3. Len(p) = m /\ DOMAIN p = 1 .. m
  <2>1. p \in Seq(1 .. n)
    BY <1>1
  <2> QED BY <1>1, <2>1, LenProperties
<1>4. i \in 1 .. m /\ m \in Nat
  BY <1>1, <1>3
<1>5. PrdEnd(p, i) = p[i] /\ p[i] \in 1 .. n
  BY <1>1, <1>4 DEF PrdEnd
<1>6. PrdEnd(p, i - 1) \in 0 .. n /\ PrdEnd(p, i - 1) < PrdEnd(p, i)
  <2>1. CASE i = 1
    BY <1>5, <2>1 DEF PrdEnd
  <2>2. CASE i # 1
    <3>1. i - 1 \in 1 .. m /\ i \in 2 .. Len(p)
      BY <1>3, <1>4, <2>2
    <3>2. PrdEnd(p, i - 1) = p[i - 1] /\ p[i - 1] \in 1 .. n /\ p[i - 1] < p[i]
      BY <1>1, <1>2, <3>1 DEF PrdEnd
    <3> QED BY <1>5, <3>2
  <2> QED BY <2>1, <2>2
<1>7. PrdEntry(p, i).n = PrdEnd(p, i) - PrdEnd(p, i - 1) /\ (PrdEntry(p, i).eot <=> i = Len(p))
  BY DEF PrdEntry
<1> QED BY <1>2, <1>3, <1>4, <1>5, <1>6, <1>7

\* The words of a sectors less those of b.
LEMMA Fewer ==
  ASSUME NEW a \in Nat, NEW b \in Nat
  PROVE  a * SectorWords - b * SectorWords = (a - b) * SectorWords
BY SectorAssumption

\* A disk that is not transferring by DMA.
LEMMA FreshTallied ==
  ASSUME NEW k, NEW p, Fresh(k, p), ~Running(k)
  PROVE  Tallied(k, p)
BY DEF Fresh, Tallied, Armed

\* The next step needs nothing else of the disk than its counters,
LEMMA SameReady ==
  ASSUME NEW k, NEW r, NEW p, NEW e \in EventNames, Same(k, r), Ready(k, p, e)
  PROVE  Ready(r, p, e)
BY DEF Same, Ready, EventNames, DoneTo

\* and neither does the PRD table.
LEMMA SameTable ==
  ASSUME NEW k, NEW r, NEW p, Same(k, r), Table(k, p)
  PROVE  Table(r, p)
BY DEF Same, Table

\* An operation that leaves the counters of a transfer.
LEMMA SameRolling ==
  ASSUME NEW k, NEW r, NEW p, Rolling(k, p), Same(k, r), Alike(k, r)
  PROVE  Rolling(r, p)
<1>1. Between(r) /\ Running(r)
  BY AlikeRuns DEF Rolling
<1>2. Whole(r) /\ Table(r, p)
  BY SameWhole, SameTable DEF Rolling
<1> QED BY <1>1, <1>2 DEF Rolling

\* The next step is an event whose handler finds the counters as it needs them,
LEMMA ScheduleCounts ==
  ASSUME NEW k, NEW p, NEW e \in EventNames, Rolling(k, p), Ready(k, p, e)
  PROVE  Tallied(Schedule(k, e), p)
<1> DEFINE r == Schedule(k, e)
<1>1. IsDisk(k) /\ k.events = {} /\ k.flight = {}
  BY DEF Rolling, Between, NoStep
<1>2. Same(k, r)
  BY <1>1, ScheduleSame
<1>3. /\ r.events = k.events \cup {e} /\ r.flight = k.flight
      /\ r.dmaState = k.dmaState /\ r.devState = k.devState
  BY <1>1, ScheduleIs
<1> HIDE DEF r
<1>4. Ready(r, p, e)
  BY <1>2, SameReady
<1>5. Whole(r) /\ Table(r, p)
  BY <1>2, SameWhole, SameTable DEF Rolling
<1>6. r.devState = "Transfer_Data_Dma" /\ ~Armed(r)
  BY <1>3 DEF Rolling, Running, Armed
<1>7. r.events = {e} /\ r.flight = {}
  BY <1>1, <1>3
<1>8. Tallied(r, p)
  BY <1>4, <1>5, <1>6, <1>7 DEF Tallied, Words
<1> QED BY <1>8 DEF r

\* or an action at the DMA port.
LEMMA FlightCounts ==
  ASSUME NEW k, NEW r, NEW p, NEW f, Rolling(k, p), Same(k, r), r.events = {}, r.flight = {f},
         r.devState = k.devState, r.dmaState = k.dmaState, f.event \in EventNames, Underway(k, p, f)
  PROVE  Tallied(r, p)
<1>1. Underway(r, p, f)
  <2>1. CASE f.event = "PrdRead"
    <3>1. f.addr = r.prdAddr /\ Ready(k, p, "Transfer")
      BY <2>1 DEF Underway, Same
    <3> QED BY <2>1, <3>1, SameReady DEF Underway, EventNames
  <2>2. CASE f.event # "PrdRead"
    BY <2>2, SameReady DEF Underway
  <2> QED BY <2>1, <2>2
<1>2. Whole(r) /\ Table(r, p)
  BY SameWhole, SameTable DEF Rolling
<1>3. r.devState = "Transfer_Data_Dma" /\ ~Armed(r)
  BY DEF Rolling, Running, Armed
<1> QED BY <1>1, <1>2, <1>3 DEF Tallied, Words

\* A stopped transfer ends without a failed assertion.
LEMMA AbortCounts ==
  ASSUME NEW k, NEW p, Between(k), Aborted(k), Whole(k)
  PROVE  Tallied(Update(k, "CMD_ERROR"), p)
<1> DEFINE s == [k EXCEPT !.dmaAborted = FALSE, !.dmaState = "Dma_Idle"]
<1>1. Update(k, "CMD_ERROR") = DmaComplete(s)
  BY DEF Update, UpdateState, Aborted
<1>2. /\ IsDisk(s) /\ s.intrPending = FALSE /\ s.dmaState = "Dma_Idle" /\ s.dmaAborted = FALSE
      /\ Same(k, s)
  BY DEF IsDisk, DiskFields, Between, Aborted, Same
<1> HIDE DEF s
<1>3. Fresh(DmaComplete(s), p)
  BY <1>2, SameWhole, DmaCompleteCounts
<1>4. ~Running(DmaComplete(s))
  BY <1>2, DmaCompleteIs DEF Resting, Running
<1> QED BY <1>1, <1>3, <1>4, FreshTallied

\* doDmaTransfer,
LEMMA DoDmaTransferCounts ==
  ASSUME NEW k, NEW p, NEW busy, Rolling(k, p), Ready(k, p, "Transfer")
  PROVE  Tallied(DoDmaTransfer(k, busy), p)
<1>1. Running(k) /\ IsDisk(k) /\ k.events = {} /\ k.flight = {}
  BY DEF Rolling, Between, NoStep
<1>2. CASE busy
  <2>1. DoDmaTransfer(k, busy) = Schedule(k, "Transfer")
    BY <1>1, <1>2 DEF DoDmaTransfer, Running
  <2> QED BY <2>1, ScheduleCounts DEF EventNames
<1>3. CASE ~busy
  <2> DEFINE f == Dma("PrdRead", k.prdAddr, ZeroSector)
             r == [k EXCEPT !.flight = @ \cup {f}]
  <2>1. DoDmaTransfer(k, busy) = r
    BY <1>1, <1>3 DEF DoDmaTransfer, Running
  <2>2. f.event = "PrdRead" /\ f.addr = k.prdAddr
    BY DEF Dma
  <2> HIDE DEF f
  <2>3. Same(k, r) /\ r.events = {} /\ r.flight = {f} /\ r.devState = k.devState /\ r.dmaState = k.dmaState
    BY <1>1 DEF Same, IsDisk, DiskFields
  <2> HIDE DEF r
  <2>4. Underway(k, p, f) /\ f.event \in EventNames
    BY <2>2 DEF Underway, EventNames
  <2> QED BY <2>1, <2>3, <2>4, FlightCounts
<1> QED BY <1>2, <1>3

\* the end of a PRD entry: at the last one nothing is left,
LEMMA EndOfPrdCounts ==
  ASSUME NEW k, NEW p, NEW busy, Rolling(k, p), Ready(k, p, "WriteWait")
  PROVE  Tallied(EndOfPrd(k, busy), p)
<1> DEFINE i == k.prdAddr - 1
           n == k.sec
<1>1. i \in DOMAIN p /\ DoneTo(k, p, i) /\ k.prd = PrdEntry(p, i) /\ k.prdAddr \in Nat
  BY DEF Ready
<1>2. n \in Nat \ {0} /\ p \in PrdTables(n)
  BY DEF Rolling, Table
<1> HIDE DEF i, n
<1>3. /\ i = Len(p) => PrdEnd(p, i) = n
      /\ i # Len(p) => i + 1 \in DOMAIN p
      /\ k.prd.eot <=> i = Len(p)
      /\ i \in Nat
  BY <1>1, <1>2, PrdFacts
<1>4. CASE k.prd.eot
  <2> DEFINE s == [k EXCEPT !.dmaState = "Dma_Idle"]
  <2>1. k.cmdBytesLeft = 0
    <3>1. k.cmdBytesLeft = (n - n) * SectorWords
      BY <1>1, <1>3, <1>4 DEF DoneTo, n
    <3> QED BY <1>2, <3>1, SectorAssumption
  <2>2. EndOfPrd(k, busy) = Update(s, "DMA_DONE")
    BY <1>4, <2>1 DEF EndOfPrd, Require
  <2>3. /\ IsDisk(s) /\ s.intrPending = FALSE /\ s.dmaState = "Dma_Idle" /\ s.dmaAborted = FALSE
        /\ s.devState = "Transfer_Data_Dma" /\ Same(k, s)
    BY DEF IsDisk, DiskFields, Rolling, Between, Running, Same
  <2> HIDE DEF s
  <2>4. Update(s, "DMA_DONE") = DmaComplete(s)
    BY <2>3 DEF Update, UpdateState
  <2>5. Whole(s)
    BY <2>3, SameWhole DEF Rolling
  <2>6. Fresh(DmaComplete(s), p)
    BY <2>3, <2>5, DmaCompleteCounts
  <2>7. ~Running(DmaComplete(s))
    BY <2>3, DmaCompleteIs DEF Resting, Running
  <2> QED BY <2>2, <2>4, <2>6, <2>7, FreshTallied
<1>5. CASE ~k.prd.eot
  <2>1. k.prdAddr \in DOMAIN p /\ k.prdAddr - 1 = i
    <3>1. i + 1 \in DOMAIN p
      BY <1>3, <1>5
    <3>2. k.prdAddr - 1 = i
      BY DEF i
    <3>3. k.prdAddr = i + 1
      BY <1>1 DEF i
    <3>4. k.prdAddr \in DOMAIN p
      BY <3>1, <3>3
    <3> QED BY <3>2, <3>4
  <2>2. Ready(k, p, "Transfer")
    BY <1>1, <2>1 DEF Ready
  <2>3. EndOfPrd(k, busy) = DoDmaTransfer(k, busy)
    BY <1>5 DEF EndOfPrd
  <2> QED BY <2>2, <2>3, DoDmaTransferCounts
<1> QED BY <1>4, <1>5

\* Entry i is counted as moved.
LEMMA EntryDone ==
  ASSUME NEW k, NEW r, NEW p, NEW i \in DOMAIN p, Table(k, p), DoneTo(k, p, i - 1), k.prd = PrdEntry(p, i),
         r.sec = k.sec, r.lba = k.lba, r.curSector = k.curSector + k.prd.n,
         r.cmdBytesLeft = k.cmdBytesLeft - k.prd.n * SectorWords
  PROVE  DoneTo(r, p, i) /\ k.curSector + k.prd.n <= NumSectors
<1> DEFINE n == k.sec
           a == PrdEnd(p, i - 1)
           b == PrdEnd(p, i)
           m == k.prd.n
<1>1. n \in Nat \ {0} /\ p \in PrdTables(n) /\ k.lba \in Nat /\ k.lba + n <= NumSectors
  BY DEF Table
<1>2. b \in 1 .. n /\ a \in 0 .. n /\ a < b /\ m = b - a
  BY <1>1, PrdFacts
<1>3. k.curSector = k.lba + a /\ k.cmdBytesLeft = (n - a) * SectorWords
  BY DEF DoneTo
<1>4. r.curSector = k.curSector + m /\ r.cmdBytesLeft = k.cmdBytesLeft - m * SectorWords /\ r.lba = k.lba /\ r.sec = n
  OBVIOUS
<1> HIDE DEF n, a, b, m
<1>5. r.curSector = r.lba + b /\ k.curSector + m <= NumSectors
  BY <1>1, <1>2, <1>3, <1>4, SectorAssumption
<1>6. (n - a) * SectorWords - m * SectorWords = (n - b) * SectorWords
  <2>1. n - a \in Nat /\ m \in Nat /\ (n - a) - m = n - b
    BY <1>1, <1>2
  <2> QED BY <2>1, Fewer
<1>7. r.cmdBytesLeft = (r.sec - b) * SectorWords
  BY <1>3, <1>4, <1>6
<1> QED BY <1>5, <1>7 DEF DoneTo, b, m

\* dmaPrdReadDone: the sectors of the entry are in the image,
LEMMA DmaPrdReadDoneCounts ==
  ASSUME NEW k, NEW p, Rolling(k, p), Ready(k, p, "PrdRead")
  PROVE  Tallied(DmaPrdReadDone(k), p)
<1> DEFINE sectors == [i \in 1..BufSize |-> IF i <= k.prd.n /\ k.curSector + i - 1 \in DOMAIN k.image
                                            THEN k.image[k.curSector + i - 1] ELSE ZeroSector]
           r == [k EXCEPT !.prdAddr = @ + 1]
           q == Require(k.curSector + k.prd.n <= NumSectors, r)
           s == [q EXCEPT !.buf = sectors, !.curSector = @ + k.prd.n,
                          !.cmdBytesLeft = @ - k.prd.n * SectorWords]
           i == k.prdAddr
<1>1. DmaPrdReadDone(k) = IF k.dmaAborted THEN Update(k, "CMD_ERROR")
                          ELSE IF k.dmaRead THEN Schedule(r, "ReadWait") ELSE Schedule(s, "WriteWait")
  BY DEF DmaPrdReadDone
<1>2. k.dmaAborted = FALSE /\ IsDisk(k) /\ Whole(k) /\ Table(k, p)
  BY DEF Rolling, Running, Between
<1>3. i \in Nat /\ i \in DOMAIN p /\ DoneTo(k, p, i - 1) /\ k.prd = PrdEntry(p, i)
  BY DEF Ready
<1> HIDE DEF sectors
<1>4. /\ IsDisk(r) /\ r.prdAddr = i + 1 /\ r.prd = k.prd /\ r.sec = k.sec /\ r.lba = k.lba
      /\ r.curSector = k.curSector /\ r.cmdBytesLeft = k.cmdBytesLeft /\ r.image = k.image /\ r.out = k.out
  BY <1>2 DEF IsDisk, DiskFields
<1>5. Alike(k, r)
  BY <1>2 DEF Alike, Calm, IsDisk, DiskFields
<1> HIDE DEF r
<1>6. Rolling(r, p)
  BY <1>2, <1>4, <1>5, AlikeRuns DEF Rolling, Whole, Table
<1>7. Ready(r, p, "ReadWait")
  <2>1. r.prdAddr \in Nat /\ r.prdAddr - 1 = i /\ r.prdAddr - 2 = i - 1
    BY <1>3, <1>4
  <2>2. DoneTo(r, p, i - 1)
    BY <1>3, <1>4 DEF DoneTo
  <2> HIDE DEF i
  <2> QED BY <1>3, <1>4, <2>1, <2>2 DEF Ready
<1>8. Tallied(Schedule(r, "ReadWait"), p)
  BY <1>6, <1>7, ScheduleCounts DEF EventNames
<1> DEFINE t == [r EXCEPT !.buf = sectors, !.curSector = @ + k.prd.n,
                          !.cmdBytesLeft = @ - k.prd.n * SectorWords]
<1>9. /\ IsDisk(t) /\ t.prdAddr = r.prdAddr /\ t.prd = k.prd /\ t.sec = k.sec /\ t.lba = k.lba
      /\ t.curSector = k.curSector + k.prd.n /\ t.cmdBytesLeft = k.cmdBytesLeft - k.prd.n * SectorWords
      /\ t.image = k.image /\ t.out = k.out
  BY <1>4 DEF IsDisk, DiskFields
<1>10. Alike(r, t)
  BY <1>4 DEF Alike, Calm, IsDisk, DiskFields
<1> HIDE DEF t
<1>11. DoneTo(t, p, i) /\ k.curSector + k.prd.n <= NumSectors
  <2> HIDE DEF i
  <2> QED BY <1>2, <1>3, <1>9, EntryDone
<1>12. s = t
  BY <1>11 DEF Require, t
<1> HIDE DEF q, s
<1>13. Rolling(t, p)
  BY <1>2, <1>6, <1>9, <1>10, AlikeRuns DEF Rolling, Whole, Table
<1>14. Ready(t, p, "WriteWait")
  <2>1. t.prdAddr \in Nat /\ t.prdAddr - 1 = i
    BY <1>3, <1>4, <1>9
  <2> HIDE DEF i
  <2> QED BY <1>3, <1>9, <1>11, <2>1 DEF Ready
<1>15. Tallied(Schedule(t, "WriteWait"), p)
  BY <1>13, <1>14, ScheduleCounts DEF EventNames
<1> QED BY <1>1, <1>2, <1>8, <1>12, <1>15

\* dmaReadDone,
LEMMA DmaReadDoneCounts ==
  ASSUME NEW k, NEW p, NEW busy, Rolling(k, p), Ready(k, p, "ReadWait")
  PROVE  Tallied(DmaReadDone(k, busy), p)
<1> DEFINE n == k.prd.n
           image == [t \in DOMAIN k.image |-> IF t \in k.curSector .. k.curSector + n - 1
                                             THEN k.buf[t - k.curSector + 1] ELSE k.image[t]]
           left == k.cmdBytesLeft - n * SectorWords
           r == [k EXCEPT !.image = image, !.curSector = @ + n, !.cmdBytesLeft = left]
           q == Require(k.curSector + n <= NumSectors, r)
           i == k.prdAddr - 1
<1>1. DmaReadDone(k, busy) = EndOfPrd(q, busy)
  BY DEF DmaReadDone
<1>2. IsDisk(k) /\ Whole(k) /\ Table(k, p)
  BY DEF Rolling, Between
<1>3. k.prdAddr \in Nat /\ i \in DOMAIN p /\ DoneTo(k, p, k.prdAddr - 2) /\ k.prd = PrdEntry(p, i)
  BY DEF Ready
<1>4. k.prdAddr - 2 = i - 1
  BY <1>3
<1>5. DOMAIN image = DOMAIN k.image
  OBVIOUS
<1> HIDE DEF image, left
<1>6. /\ IsDisk(r) /\ r.prdAddr = k.prdAddr /\ r.prd = k.prd /\ r.sec = k.sec /\ r.lba = k.lba
      /\ r.curSector = k.curSector + n /\ r.cmdBytesLeft = left
      /\ r.image = image /\ r.out = k.out
  BY <1>2 DEF IsDisk, DiskFields
<1>7. Alike(k, r)
  BY <1>2 DEF Alike, Calm, IsDisk, DiskFields
<1> HIDE DEF r
<1>8. DoneTo(r, p, i) /\ k.curSector + n <= NumSectors
  <2>1. r.cmdBytesLeft = k.cmdBytesLeft - k.prd.n * SectorWords /\ DoneTo(k, p, i - 1)
    BY <1>3, <1>4, <1>6 DEF left
  <2> HIDE DEF i
  <2> QED BY <1>2, <1>3, <1>6, <2>1, EntryDone
<1>9. q = r
  BY <1>8 DEF Require
<1>10. Rolling(r, p)
  BY <1>2, <1>5, <1>6, <1>7, AlikeRuns DEF Rolling, Whole, Table
<1>11. Ready(r, p, "WriteWait")
  BY <1>3, <1>6, <1>8 DEF Ready
<1> HIDE DEF q
<1> QED BY <1>1, <1>9, <1>10, <1>11, EndOfPrdCounts

\* doDmaRead,
LEMMA DoDmaReadCounts ==
  ASSUME NEW k, NEW p, NEW busy, NEW m, Rolling(k, p), Ready(k, p, "ReadWait")
  PROVE  Tallied(DoDmaRead(k, busy, m), p)
<1> DEFINE r == IF k.cg = NoCG THEN [k EXCEPT !.cg = 0, !.buf = ZeroBuffer] ELSE k
           a == [k EXCEPT !.cg = NoCG]
           f == Dma("ReadWait", r.prd.base + r.cg, ZeroSector)
           c == [r EXCEPT !.cg = @ + 1, !.buf[r.cg + 1] = m[r.prd.base + r.cg], !.flight = @ \cup {f}]
           d == [r EXCEPT !.cg = NoCG]
<1>1. DoDmaRead(k, busy, m) = IF k.dmaAborted THEN Update(a, "CMD_ERROR")
                              ELSE IF busy THEN Schedule(r, "ReadWait")
                              ELSE IF r.cg < r.prd.n THEN c ELSE DmaReadDone(d, busy)
  BY DEF DoDmaRead
<1>2. k.dmaAborted = FALSE /\ IsDisk(k)
  BY DEF Rolling, Running, Between
<1> HIDE DEF a
<1>3. Alike(k, r) /\ Same(k, r)
  <2>1. CASE k.cg = NoCG
    BY <1>2, <2>1 DEF Alike, Calm, Same, IsDisk, DiskFields
  <2>2. CASE k.cg # NoCG
    BY <1>2, <2>2 DEF Alike, Calm, Same
  <2> QED BY <2>1, <2>2
<1> HIDE DEF r
<1>4. Rolling(r, p) /\ Ready(r, p, "ReadWait")
  BY <1>3, SameRolling, SameReady DEF EventNames
<1>5. Tallied(Schedule(r, "ReadWait"), p)
  BY <1>4, ScheduleCounts DEF EventNames
<1>6. IsDisk(r) /\ r.events = {} /\ r.flight = {}
  BY <1>4 DEF Rolling, Between, NoStep
<1>7. Tallied(c, p)
  <2>1. f.event = "ReadWait"
    BY DEF Dma
  <2> HIDE DEF f
  <2>2. Same(r, c) /\ c.events = {} /\ c.flight = {f} /\ c.devState = r.devState /\ c.dmaState = r.dmaState
    BY <1>6 DEF Same, IsDisk, DiskFields
  <2>3. Underway(r, p, f) /\ f.event \in EventNames
    BY <1>4, <2>1 DEF Underway, EventNames
  <2> HIDE DEF c
  <2> QED BY <1>4, <2>2, <2>3, FlightCounts
<1>8. Tallied(DmaReadDone(d, busy), p)
  <2>1. Alike(r, d) /\ Same(r, d)
    BY <1>6 DEF Alike, Calm, Same, IsDisk, DiskFields
  <2> HIDE DEF d
  <2>2. Rolling(d, p) /\ Ready(d, p, "ReadWait")
    BY <1>4, <2>1, SameRolling, SameReady DEF EventNames
  <2> QED BY <2>2, DmaReadDoneCounts
<1> HIDE DEF c, d
<1> QED BY <1>1, <1>2, <1>5, <1>7, <1>8

\* and doDmaWrite.
LEMMA DoDmaWriteCounts ==
  ASSUME NEW k, NEW p, NEW busy, Rolling(k, p), Ready(k, p, "WriteWait")
  PROVE  Tallied(DoDmaWrite(k, busy), p)
<1> DEFINE r == IF k.cg = NoCG THEN [k EXCEPT !.cg = 0] ELSE k
           a == [k EXCEPT !.cg = NoCG]
           f == Dma("WriteWait", r.prd.base + r.cg, r.buf[r.cg + 1])
           c == [r EXCEPT !.cg = @ + 1, !.flight = @ \cup {f}]
           d == [r EXCEPT !.cg = NoCG]
<1>1. DoDmaWrite(k, busy) = IF k.dmaAborted THEN Update(a, "CMD_ERROR")
                            ELSE IF busy THEN Schedule(r, "WriteWait")
                            ELSE IF r.cg < r.prd.n THEN c ELSE EndOfPrd(d, busy)
  BY DEF DoDmaWrite
<1>2. k.dmaAborted = FALSE /\ IsDisk(k)
  BY DEF Rolling, Running, Between
<1> HIDE DEF a
<1>3. Alike(k, r) /\ Same(k, r)
  <2>1. CASE k.cg = NoCG
    BY <1>2, <2>1 DEF Alike, Calm, Same, IsDisk, DiskFields
  <2>2. CASE k.cg # NoCG
    BY <1>2, <2>2 DEF Alike, Calm, Same
  <2> QED BY <2>1, <2>2
<1> HIDE DEF r
<1>4. Rolling(r, p) /\ Ready(r, p, "WriteWait")
  BY <1>3, SameRolling, SameReady DEF EventNames
<1>5. Tallied(Schedule(r, "WriteWait"), p)
  BY <1>4, ScheduleCounts DEF EventNames
<1>6. IsDisk(r) /\ r.events = {} /\ r.flight = {}
  BY <1>4 DEF Rolling, Between, NoStep
<1>7. Tallied(c, p)
  <2>1. f.event = "WriteWait"
    BY DEF Dma
  <2> HIDE DEF f
  <2>2. Same(r, c) /\ c.events = {} /\ c.flight = {f} /\ c.devState = r.devState /\ c.dmaState = r.dmaState
    BY <1>6 DEF Same, IsDisk, DiskFields
  <2>3. Underway(r, p, f) /\ f.event \in EventNames
    BY <1>4, <2>1 DEF Underway, EventNames
  <2> HIDE DEF c
  <2> QED BY <1>4, <2>2, <2>3, FlightCounts
<1>8. Tallied(EndOfPrd(d, busy), p)
  <2>1. Alike(r, d) /\ Same(r, d)
    BY <1>6 DEF Alike, Calm, Same, IsDisk, DiskFields
  <2> HIDE DEF d
  <2>2. Rolling(d, p) /\ Ready(d, p, "WriteWait")
    BY <1>4, <2>1, SameRolling, SameReady DEF EventNames
  <2> QED BY <2>2, EndOfPrdCounts
<1> HIDE DEF c, d
<1> QED BY <1>1, <1>2, <1>5, <1>7, <1>8

\* A stopped transfer, whatever its event.
LEMMA AbortedCounts ==
  ASSUME NEW k, NEW p, NEW e \in EventNames, NEW busy, NEW m, Between(k), Aborted(k), Whole(k)
  PROVE  /\ Tallied(DoDmaTransfer(k, busy), p) /\ Tallied(DmaPrdReadDone(k), p)
         /\ Tallied(DoDmaRead(k, busy, m), p) /\ Tallied(DoDmaWrite(k, busy), p)
<1> DEFINE a == [k EXCEPT !.cg = NoCG]
<1>1. k.dmaAborted = TRUE /\ IsDisk(k)
  BY DEF Aborted, Between
<1>2. /\ DoDmaTransfer(k, busy) = Update(k, "CMD_ERROR") /\ DmaPrdReadDone(k) = Update(k, "CMD_ERROR")
      /\ DoDmaRead(k, busy, m) = Update(a, "CMD_ERROR") /\ DoDmaWrite(k, busy) = Update(a, "CMD_ERROR")
  BY <1>1 DEF DoDmaTransfer, DmaPrdReadDone, DoDmaRead, DoDmaWrite
<1>3. Between(a) /\ Aborted(a) /\ Same(k, a)
  BY DEF Between, NoStep, Aborted, Same, IsDisk, DiskFields
<1> HIDE DEF a
<1>4. Whole(a)
  BY <1>3, SameWhole
<1> QED BY <1>2, <1>3, <1>4, AbortCounts

\* No event of a disk fails an assertion.
LEMMA ProcessCounts ==
  ASSUME NEW k, NEW p, NEW e \in EventNames, NEW busy, NEW m, IsDisk(k), k.events = {e}, k.flight = {},
         "dmaComplete" \notin k.out, Running(k) \/ Aborted(k), Tallied(k, p)
  PROVE  Tallied(Process(k, e, busy, m), p)
<1> DEFINE r == [k EXCEPT !.events = @ \ {e}]
           s == Process(k, e, busy, m)
<1>1. s = CASE e = "Transfer" -> DoDmaTransfer(r, busy)
            [] e = "PrdRead" -> DmaPrdReadDone(r)
            [] e = "ReadWait" -> DoDmaRead(r, busy, m)
            [] e = "WriteWait" -> DoDmaWrite(r, busy)
  BY DEF Process
<1>2. /\ Same(k, r) /\ r.events = k.events \ {e} /\ r.flight = k.flight /\ r.out = k.out
      /\ r.dmaState = k.dmaState /\ r.dmaAborted = k.dmaAborted /\ r.devState = k.devState
      /\ r.intrPending = k.intrPending /\ r.status = k.status
  BY DEF Same, IsDisk, DiskFields
<1> HIDE DEF r, s
<1>3. Between(r) /\ (Running(k) <=> Running(r)) /\ (Aborted(k) <=> Aborted(r))
  BY <1>2 DEF Between, NoStep, Running, Aborted, Same
<1>4. Whole(r)
  BY <1>2, SameWhole DEF Tallied
<1>5. CASE Aborted(k)
  <2>1. /\ Tallied(DoDmaTransfer(r, busy), p) /\ Tallied(DmaPrdReadDone(r), p)
        /\ Tallied(DoDmaRead(r, busy, m), p) /\ Tallied(DoDmaWrite(r, busy), p)
    BY <1>3, <1>4, <1>5, AbortedCounts
  <2>2. Tallied(s, p)
    BY <1>1, <2>1 DEF EventNames
  <2> QED BY <2>2 DEF s
<1>6. CASE Running(k)
  <2>1. Table(k, p) /\ Ready(k, p, e)
    BY <1>6 DEF Tallied
  <2>2. Rolling(r, p) /\ Ready(r, p, e)
    BY <1>2, <1>3, <1>4, <1>6, <2>1, SameTable, SameReady DEF Rolling
  <2>3. CASE e = "Transfer"
    BY <1>1, <2>2, <2>3, DoDmaTransferCounts DEF s
  <2>4. CASE e = "PrdRead"
    BY <1>1, <2>2, <2>4, DmaPrdReadDoneCounts DEF s
  <2>5. CASE e = "ReadWait"
    BY <1>1, <2>2, <2>5, DoDmaReadCounts DEF s
  <2>6. CASE e = "WriteWait"
    BY <1>1, <2>2, <2>6, DoDmaWriteCounts DEF s
  <2> QED BY <2>3, <2>4, <2>5, <2>6 DEF EventNames
<1> QED BY <1>5, <1>6

\* An operation that leaves the counters and the phase of a disk.
LEMMA SameTallied ==
  ASSUME NEW k, NEW r, NEW p, Sound(k), Tallied(k, p), Same(k, r),
         r.events = k.events, r.flight = k.flight, r.devState = k.devState, r.dmaState = k.dmaState,
         r.dmaAborted = k.dmaAborted, r.intrPending = k.intrPending, r.status = k.status
  PROVE  Tallied(r, p) /\ Sound(r)
<1>1. /\ Resting(r) <=> Resting(k)
      /\ Armed(r) <=> Armed(k)
      /\ Running(r) <=> Running(k)
      /\ Aborted(r) <=> Aborted(k)
      /\ NoStep(r) <=> NoStep(k)
      /\ OneStep(r) <=> OneStep(k)
  BY DEF Resting, Armed, Running, Aborted, NoStep, OneStep
<1>2. Sound(r)
  BY <1>1 DEF Sound, Same
<1>3. Whole(r)
  BY SameWhole DEF Tallied
<1>4. Words(r)
  <2>1. InLeft(k) => InLeft(r)
    BY DEF Same, InLeft
  <2>2. OutLeft(k) => OutLeft(r)
    BY DEF Same, OutLeft
  <2> QED BY <2>1, <2>2 DEF Same, Words, Tallied
<1>5. Armed(r) => Table(r, p) /\ DoneTo(r, p, 0)
  BY <1>1 DEF Tallied, Same, Table, DoneTo
<1>6. ASSUME Running(r)
      PROVE  /\ Table(r, p)
             /\ \A e \in r.events : Ready(r, p, e)
             /\ \A f \in r.flight : Underway(r, p, f)
  <2>1. /\ Table(k, p) /\ OneStep(k)
        /\ \A e \in k.events : Ready(k, p, e)
        /\ \A f \in k.flight : Underway(k, p, f)
    BY <1>1, <1>6 DEF Tallied, Sound, Resting, Armed, Running, Aborted
  <2>2. Table(r, p)
    BY <2>1, SameTable
  <2>3. ASSUME NEW e \in r.events PROVE Ready(r, p, e)
    BY <2>1, SameReady DEF OneStep
  <2>4. ASSUME NEW f \in r.flight PROVE Underway(r, p, f)
    <3>1. f.event \in EventNames /\ Underway(k, p, f)
      BY <2>1 DEF OneStep
    <3>2. CASE f.event = "PrdRead"
      <4>1. f.addr = r.prdAddr /\ Ready(k, p, "Transfer")
        BY <3>1, <3>2 DEF Underway, Same
      <4> QED BY <3>2, <4>1, SameReady DEF Underway, EventNames
    <3>3. CASE f.event # "PrdRead"
      BY <3>1, <3>3, SameReady DEF Underway
    <3> QED BY <3>2, <3>3
  <2> QED BY <2>2, <2>3, <2>4
<1> QED BY <1>2, <1>3, <1>4, <1>5, <1>6 DEF Tallied

\* The PRD table is no concern of a resting disk.
LEMMA RestingTallied ==
  ASSUME NEW k, NEW p, NEW q, Resting(k), Tallied(k, p)
  PROVE  Tallied(k, q)
BY DEF Tallied, Resting, Armed, Running

\* The controller empties out.
LEMMA Emptied ==
  ASSUME NEW k, NEW p, Sound(k), Tallied(k, p)
  PROVE  Tallied([k EXCEPT !.out = {}], p)
<1> DEFINE r == [k EXCEPT !.out = {}]
<1>1. IsDisk(k) /\ "panic" \notin k.out
  BY DEF Sound, Tallied, Whole
<1>2. /\ Same(k, r)
      /\ r.events = k.events /\ r.flight = k.flight /\ r.devState = k.devState /\ r.dmaState = k.dmaState
      /\ r.dmaAborted = k.dmaAborted /\ r.intrPending = k.intrPending /\ r.status = k.status
  BY <1>1 DEF Same, IsDisk, DiskFields
<1> HIDE DEF r
<1>3. Tallied(r, p)
  BY <1>2, SameTallied
<1> QED BY <1>3 DEF r

\* Disk d becomes k, and its channel's PRD table p; the other disks of the channel rest.
LEMMA Counting ==
  ASSUME CountInv, DiskInv, NEW d \in Disks, NEW k, NEW ch, NEW p, Becomes(d, k, ch), Sound(k), Tallied(k, p),
         DOMAIN mem' = Channels, \A b \in Channels : "prds" \in DOMAIN mem'[b],
         mem'[d[1]].prds = p, \A b \in Channels : b # d[1] => mem'[b].prds = mem[b].prds,
         \A e \in Disks : e[1] = d[1] /\ e # d => Resting(disk[e])
  PROVE  CountInv'
<1> DEFINE r == [k EXCEPT !.out = {}]
<1>1. disk' = [disk EXCEPT ![d] = r] /\ (panicked' <=> (panicked \/ "panic" \in k.out))
  BY DEF Becomes
<1>2. Tallied(r, p) /\ ~panicked'
  BY <1>1, Emptied DEF CountInv, Tallied, Whole
<1> HIDE DEF r
<1>3. ASSUME NEW e \in Disks PROVE Tallied(disk'[e], mem'[e[1]].prds)
  <2>1. e[1] \in Channels /\ DOMAIN disk = Disks /\ Tallied(disk[e], mem[e[1]].prds)
    BY DisksAre DEF DiskInv, CountInv
  <2>2. CASE e = d
    BY <1>1, <1>2, <2>1, <2>2
  <2>3. CASE e # d /\ e[1] = d[1]
    BY <1>1, <2>1, <2>3, RestingTallied
  <2>4. CASE e[1] # d[1]
    BY <1>1, <2>1, <2>4
  <2> QED BY <2>2, <2>3, <2>4
<1> QED BY <1>2, <1>3 DEF CountInv

\* The same for the selected disk, with the PRD table it had.
LEMMA CountingSelected ==
  ASSUME CountInv, DiskInv, NEW c \in Channels, NEW k, NEW ch, Becomes(Selected(c), k, ch), Sound(k),
         Tallied(k, mem[c].prds), UNCHANGED mem
  PROVE  CountInv'
<1> DEFINE d == Selected(c)
           p == mem[c].prds
<1>1. d \in Disks /\ d[1] = c /\ \A e \in Disks : e[1] = c /\ e # d => Resting(disk[e])
  BY DEF DiskInv, Selected
<1>2. DOMAIN mem' = Channels /\ (\A b \in Channels : "prds" \in DOMAIN mem'[b]) /\ mem'[c].prds = p
  BY DEF CountInv
<1>3. Becomes(d, k, ch) /\ Tallied(k, p) /\ \A b \in Channels : mem'[b].prds = mem[b].prds
  OBVIOUS
<1> HIDE DEF d, p
<1> QED BY <1>1, <1>2, <1>3, Counting

\* What an operation on a resting disk leaves.
LEMMA RestCounted ==
  ASSUME NEW k, NEW r, NEW p, Sound(k), k.out = {}, Resting(k), Follows(k, r), Resting(r) \/ Armed(r), Fresh(r, p)
  PROVE  Sound(r) /\ Tallied(r, p) /\ "dmaComplete" \notin r.out
<1>1. NoStep(k)
  BY DEF Sound, Resting, Armed, Running, Aborted
<1>2. Sound(r) /\ ~Running(r) /\ "dmaComplete" \notin r.out
  BY <1>1, RestSound
<1> QED BY <1>2, FreshTallied

\* updateState in a resting disk, for an action that is not a command.
LEMMA UpdateRestCounted ==
  ASSUME NEW k, NEW action, NEW w, NEW r, NEW p, IsDisk(k), Resting(k), action # "CMD_WRITE", Whole(k), Words(k),
         r = UpdateState(k, action, TRUE, w)
  PROVE  Follows(k, r) /\ Resting(r) /\ Fresh(r, p)
<1> DEFINE selected == TRUE
<1>1. Follows(k, r) /\ Resting(r)
  BY UpdateStaysResting
<1>2. Fresh(UpdateState(k, action, selected, w), p)
  <2>1. action = "CMD_WRITE" => k.cmd \in Commands /\ Given(k, p)
    OBVIOUS
  <2> HIDE DEF selected
  <2> QED BY <2>1, UpdateRestsCounts
<1> QED BY <1>1, <1>2

\* The actions keep the counters: the drive is selected,
LEMMA SelectCounts ==
  ASSUME CountInv, DiskInv, NEW c \in Channels, NEW bit \in {0, 1}, Select(c, bit)
  PROVE  CountInv'
<1> DEFINE d == <<c, bit>>
           s == disk[d]
           p == mem[c].prds
           action == "SELECT_WRITE"
           k == Update(s, action)
           ch == [chan EXCEPT ![c].selectBit = bit]
<1>1. Quiet(c) /\ d \in Disks /\ Becomes(d, k, ch) /\ UNCHANGED mem
  BY DEF Select
<1>2. d[1] = c /\ \A e \in Disks : e[1] = c => Resting(disk[e])
  BY <1>1, QuietRests
<1>3. Sound(s) /\ s.out = {} /\ Resting(s) /\ IsDisk(s) /\ Whole(s) /\ Words(s)
  BY <1>1, <1>2 DEF DiskInv, CountInv, Tallied, Sound
<1>4. k = UpdateState(s, action, TRUE, Zero) /\ action # "CMD_WRITE"
  BY DEF Update
<1>5. mem'[c].prds = p /\ DOMAIN mem' = Channels /\ \A b \in Channels : "prds" \in DOMAIN mem'[b]
  BY <1>1 DEF CountInv
<1>6. \A b \in Channels : mem'[b].prds = mem[b].prds
  BY <1>1
<1> HIDE DEF s, ch, k, p, action, d
<1>7. Follows(s, k) /\ Resting(k) /\ Fresh(k, p)
  BY <1>3, <1>4, UpdateRestCounted
<1>8. Sound(k) /\ Tallied(k, p)
  BY <1>3, <1>7, RestCounted
<1> QED BY <1>1, <1>2, <1>5, <1>6, <1>8, Counting

\* a command is written: its sectors are in the image, and the PRD table is one for them,
LEMMA CommandCounts ==
  ASSUME CountInv, DiskInv, NEW c \in Channels, NEW cmd \in Workload[c], NEW n \in Nat \ {0}, NEW lba \in Nat,
         Command(c, cmd, n, lba)
  PROVE  CountInv'
<1> DEFINE d == Selected(c)
           s == disk[d]
           t == [s EXCEPT !.cmd = cmd, !.sec = n, !.lba = lba]
           k == WriteCommand(s, cmd, n, lba)
           data == IF cmd = "WRITEDMA" THEN Filled(HostSector) ELSE Filled(Blank)
<1>1. Quiet(c) /\ Becomes(d, k, chan) /\ cmd \in Commands /\ lba + n <= NumSectors
  BY DisksAre DEF Command
<1>2. PICK p \in IF cmd \in DmaCommands THEN PrdTables(n) ELSE {<< >>} :
        mem' = [mem EXCEPT ![c] = [data |-> data, prds |-> p]]
  BY DEF Command
<1> HIDE DEF data
<1>3. /\ mem'[c].prds = p /\ DOMAIN mem' = Channels /\ \A b \in Channels : "prds" \in DOMAIN mem'[b]
      /\ \A b \in Channels : b # c => mem'[b].prds = mem[b].prds
  BY <1>2 DEF CountInv
<1>4. /\ d \in Disks /\ d[1] = c
      /\ \A e \in Disks : e[1] = c => Resting(disk[e])
  BY <1>1, QuietRests DEF DiskInv, Selected
<1>5. Sound(s) /\ s.out = {} /\ Resting(s) /\ IsDisk(s) /\ Whole(s) /\ Words(s)
  BY <1>4 DEF DiskInv, CountInv, Tallied, Sound
<1> HIDE DEF s, d
<1>6. /\ IsDisk(t) /\ t.events = s.events /\ t.flight = s.flight /\ t.out = s.out
      /\ t.dmaState = s.dmaState /\ t.dmaAborted = s.dmaAborted /\ t.devState = s.devState
      /\ t.intrPending = s.intrPending /\ t.status = s.status /\ t.image = s.image
      /\ t.cmd = cmd /\ t.sec = n /\ t.lba = lba
  BY <1>5 DEF IsDisk, DiskFields
<1>7. k = UpdateState(t, "CMD_WRITE", TRUE, Zero)
  BY DEF WriteCommand, Update
<1> HIDE DEF t, k
<1>8. Resting(t) /\ Follows(s, t) /\ Whole(t)
  BY <1>5, <1>6 DEF Resting, Follows, Whole
<1>9. Words(t)
  <2>1. "DRQ" \notin s.status
    BY <1>1, <1>4 DEF Quiet, s
  <2> QED BY <1>5, <1>6, <2>1 DEF Words
<1>10. Given(t, p) /\ t.cmd \in Commands
  BY <1>1, <1>2, <1>6 DEF Given
<1>11. Follows(t, k) /\ (Resting(k) \/ Armed(k))
  BY <1>6, <1>7, <1>8, <1>10, UpdateRests
<1>12. Follows(s, k)
  BY <1>8, <1>11 DEF Follows
<1>13. Fresh(k, p)
  <2> DEFINE selected == TRUE
             action == "CMD_WRITE"
  <2>1. k = UpdateState(t, action, selected, Zero) /\ (action = "CMD_WRITE" => t.cmd \in Commands /\ Given(t, p))
    BY <1>7, <1>10
  <2> HIDE DEF selected, action
  <2> QED BY <1>6, <1>8, <1>9, <2>1, UpdateRestsCounts
<1>14. Sound(k) /\ Tallied(k, p)
  BY <1>5, <1>11, <1>12, <1>13, RestCounted
<1> QED BY <1>1, <1>3, <1>4, <1>14, Counting

\* the transfer is started,
LEMMA StartCounts ==
  ASSUME CountInv, DiskInv, NEW c \in Channels, Start(c)
  PROVE  CountInv'
<1> DEFINE d == Selected(c)
           s == disk[d]
           p == mem[c].prds
           t == [s EXCEPT !.prdAddr = 1, !.dmaState = "Dma_Transfer"]
           k == StartDma(s)
           ch == [chan EXCEPT ![c].active = TRUE, ![c].start = TRUE]
<1>1. Sound(s) /\ s.out = {} /\ Tallied(s, p)
  BY DEF DiskInv, Selected, CountInv
<1>2. chan[c].start = FALSE
  BY DEF Start, DiskInv, Chans
<1>3. Becomes(d, k, ch) /\ UNCHANGED mem
  BY <1>2 DEF Start, WriteBMICommand
<1>4. Armed(s) /\ NoStep(s) /\ IsDisk(s)
  BY <1>1 DEF Start, Sound, Resting, Armed, Running, Aborted
<1>5. k = Schedule(t, "Transfer")
  BY <1>4, RequireHolds DEF StartDma, Armed
<1> HIDE DEF s, ch, k, p, d
<1>6. /\ IsDisk(t) /\ t.events = s.events /\ t.flight = s.flight /\ t.out = s.out
      /\ t.dmaState = "Dma_Transfer" /\ t.dmaAborted = s.dmaAborted /\ t.devState = s.devState
      /\ t.intrPending = s.intrPending /\ t.status = s.status /\ t.image = s.image
      /\ t.prdAddr = 1 /\ t.sec = s.sec /\ t.lba = s.lba
      /\ t.curSector = s.curSector /\ t.cmdBytesLeft = s.cmdBytesLeft
  BY <1>4 DEF IsDisk, DiskFields
<1> HIDE DEF t
<1>7. Between(t) /\ Running(t)
  BY <1>1, <1>4, <1>6 DEF Between, NoStep, Armed, Running
<1>8. Table(t, p) /\ DoneTo(t, p, 0) /\ Whole(t)
  BY <1>1, <1>4, <1>6 DEF Tallied, Table, DoneTo, Whole
<1>9. 1 \in DOMAIN p
  <2>1. PICK m \in 1 .. t.sec : p \in [1 .. m -> 1 .. t.sec]
    BY <1>8 DEF Table, PrdTables
  <2> QED BY <1>8, <2>1 DEF Table
<1>10. Ready(t, p, "Transfer")
  <2>1. t.prdAddr \in Nat /\ t.prdAddr - 1 = 0
    BY <1>6
  <2> QED BY <1>6, <1>8, <1>9, <2>1 DEF Ready
<1>11. Tallied(k, p)
  BY <1>5, <1>7, <1>8, <1>10, ScheduleCounts DEF Rolling, EventNames
<1>12. Sound(k)
  <2>1. Progress(t, k)
    BY <1>5, <1>7, ScheduleRuns DEF EventNames
  <2> QED BY <2>1 DEF Progress, Sound
<1> QED BY <1>3, <1>11, <1>12, CountingSelected DEF d, p

\* and stopped: an aborted transfer moves nothing more,
LEMMA StopCounts ==
  ASSUME CountInv, DiskInv, NEW c \in Channels, Stop(c)
  PROVE  CountInv'
<1> DEFINE d == Selected(c)
           s == disk[d]
           p == mem[c].prds
           k == AbortDma(s)
           ch == [chan EXCEPT ![c].active = FALSE, ![c].start = FALSE]
<1>1. Sound(s) /\ s.out = {} /\ Tallied(s, p)
  BY DEF DiskInv, Selected, CountInv
<1>2. chan[c].start = TRUE
  BY DEF Stop, DiskInv, Chans
<1>3. Becomes(d, k, ch) /\ UNCHANGED mem
  BY <1>2 DEF Stop, WriteBMICommand
<1>4. Running(s) /\ OneStep(s) /\ IsDisk(s)
  <2>1. Running(s)
    BY <1>2 DEF DiskInv
  <2> QED BY <1>1, <2>1 DEF Sound, Resting, Armed, Running, Aborted
<1> HIDE DEF s, ch, p, d
<1>5. k = [s EXCEPT !.dmaAborted = TRUE, !.devState = "Device_Dma_Abort"]
  BY <1>4, RequireHolds DEF AbortDma, Update, UpdateState, Running
<1>6. /\ IsDisk(k) /\ k.events = s.events /\ k.flight = s.flight /\ k.out = s.out
      /\ k.dmaState = s.dmaState /\ k.dmaAborted = TRUE /\ k.devState = "Device_Dma_Abort"
      /\ k.intrPending = s.intrPending /\ k.status = s.status /\ k.image = s.image
  BY <1>4, <1>5 DEF IsDisk, DiskFields
<1> HIDE DEF k
<1>7. Aborted(k) /\ ~Running(k) /\ ~Armed(k) /\ OneStep(k)
  BY <1>4, <1>6 DEF Running, Aborted, Armed, OneStep
<1>8. Sound(k)
  BY <1>6, <1>7 DEF Sound
<1>9. Tallied(k, p)
  BY <1>1, <1>6, <1>7 DEF Tallied, Whole, Words
<1> QED BY <1>3, <1>8, <1>9, CountingSelected DEF d, p

\* An action of updateState that is not a command, and does not concern a transfer.
LEMMA UpdateCounts ==
  ASSUME CountInv, DiskInv, NEW c \in Channels, NEW action, NEW w, NEW k, Becomes(Selected(c), k, chan),
         k = UpdateState(disk[Selected(c)], action, TRUE, w), UNCHANGED mem,
         action \notin {"CMD_ERROR", "DMA_DONE", "CMD_WRITE"}
  PROVE  CountInv'
<1> DEFINE d == Selected(c)
           s == disk[d]
           p == mem[c].prds
<1>1. Sound(s) /\ s.out = {} /\ Tallied(s, p)
  BY DEF DiskInv, Selected, CountInv
<1>2. Becomes(d, k, chan) /\ k = UpdateState(s, action, TRUE, w)
  OBVIOUS
<1> HIDE DEF s, p, d
<1>3. CASE Resting(s)
  <2>1. IsDisk(s) /\ Whole(s) /\ Words(s) /\ action # "CMD_WRITE"
    BY <1>1 DEF Sound, Tallied
  <2>2. Follows(s, k) /\ Resting(k) /\ Fresh(k, p)
    BY <1>2, <1>3, <2>1, UpdateRestCounted
  <2>3. Sound(k) /\ Tallied(k, p)
    BY <1>1, <1>3, <2>2, RestCounted
  <2> QED BY <1>2, <2>3, CountingSelected DEF d, p
<1>4. CASE ~Resting(s)
  <2>1. s.devState \in {"Transfer_Data_Dma", "Device_Dma_Abort"}
    BY <1>1, <1>4 DEF Sound, Armed, Running, Aborted
  <2>2. k = s
    BY <1>2, <2>1, UpdateStays
  <2> QED BY <1>1, <1>2, <2>2, CountingSelected DEF d, p
<1> QED BY <1>3, <1>4

\* the status is read,
LEMMA ReadStatusCounts ==
  ASSUME CountInv, DiskInv, NEW c \in Channels, ReadStatus(c)
  PROVE  CountInv'
<1> DEFINE action == "STAT_READ"
           k == Update(disk[Selected(c)], action)
<1>1. /\ k = UpdateState(disk[Selected(c)], action, TRUE, Zero)
      /\ action \notin {"CMD_ERROR", "DMA_DONE", "CMD_WRITE"}
  BY DEF Update
<1>2. Becomes(Selected(c), k, chan) /\ UNCHANGED mem
  BY DEF ReadStatus
<1> HIDE DEF k, action
<1> QED BY <1>1, <1>2, UpdateCounts

\* One or two words of programmed I/O.
LEMMA WordsCount ==
  ASSUME CountInv, DiskInv, NEW c \in Channels, NEW action \in {"DATA_READ_SHORT", "DATA_WRITE_SHORT"},
         NEW v, NEW w, NEW j, NEW k, Becomes(Selected(c), k, chan), UNCHANGED mem,
         j = UpdateState(disk[Selected(c)], action, TRUE, v),
         k = j \/ k = UpdateState(j, action, TRUE, w),
         disk[Selected(c)].devState \in {"Transfer_Data_In", "Transfer_Data_Out"}
  PROVE  CountInv'
<1> DEFINE d == Selected(c)
           s == disk[d]
           p == mem[c].prds
<1>1. Sound(s) /\ s.out = {} /\ Tallied(s, p)
  BY DEF DiskInv, Selected, CountInv
<1>2. Becomes(d, k, chan) /\ j = UpdateState(s, action, TRUE, v) /\ action # "CMD_WRITE"
  OBVIOUS
<1>3. Resting(s) /\ IsDisk(s) /\ Whole(s) /\ Words(s)
  BY <1>1 DEF Sound, Armed, Running, Aborted, Tallied
<1> HIDE DEF s, p, d
<1>4. Follows(s, j) /\ Resting(j) /\ Fresh(j, p)
  BY <1>2, <1>3, UpdateRestCounted
<1>5. Follows(s, k) /\ Resting(k) /\ Fresh(k, p)
  <2>1. CASE k = j
    BY <1>4, <2>1
  <2>2. CASE k = UpdateState(j, action, TRUE, w)
    <3>1. IsDisk(j) /\ Whole(j) /\ Words(j)
      BY <1>4 DEF Follows, Fresh
    <3>2. Follows(j, k) /\ Resting(k) /\ Fresh(k, p)
      BY <1>2, <1>4, <2>2, <3>1, UpdateRestCounted
    <3> QED BY <1>4, <3>2 DEF Follows
  <2> QED BY <2>1, <2>2
<1>6. Sound(k) /\ Tallied(k, p)
  BY <1>1, <1>3, <1>5, RestCounted
<1> QED BY <1>2, <1>6, CountingSelected DEF d, p

\* data is read,
LEMMA ReadDataCounts ==
  ASSUME CountInv, DiskInv, NEW c \in Channels, NEW words, ReadData(c, words)
  PROVE  CountInv'
<1> DEFINE s == disk[Selected(c)]
           j == Update(s, "DATA_READ_SHORT")
           k == IF words = 1 THEN j ELSE Update(j, "DATA_READ_SHORT")
<1>1. Becomes(Selected(c), k, chan) /\ s.devState = "Transfer_Data_In" /\ UNCHANGED mem
  BY DEF ReadData
<1>2. /\ j = UpdateState(s, "DATA_READ_SHORT", TRUE, Zero)
      /\ k = j \/ k = UpdateState(j, "DATA_READ_SHORT", TRUE, Zero)
  BY DEF Update
<1> HIDE DEF j, k
<1> QED BY <1>1, <1>2, WordsCount

\* and data is written.
LEMMA WriteDataCounts ==
  ASSUME CountInv, DiskInv, NEW c \in Channels, NEW words, WriteData(c, words)
  PROVE  CountInv'
<1> DEFINE s == disk[Selected(c)]
           v == NextWord(s)
           j == UpdateState(s, "DATA_WRITE_SHORT", TRUE, v)
           w == NextWord(j)
           k == IF words = 1 THEN j ELSE UpdateState(j, "DATA_WRITE_SHORT", TRUE, w)
<1>1. Becomes(Selected(c), k, chan) /\ s.devState = "Transfer_Data_Out" /\ UNCHANGED mem
  BY DEF WriteData
<1>2. /\ j = UpdateState(s, "DATA_WRITE_SHORT", TRUE, v)
      /\ k = j \/ k = UpdateState(j, "DATA_WRITE_SHORT", TRUE, w)
  OBVIOUS
<1> HIDE DEF j, k, v, w
<1> QED BY <1>1, <1>2, WordsCount

\* The control register: a reset begins and ends without an assertion, and nIEN is
\* no concern of the counters.
LEMMA ControlCounts ==
  ASSUME CountInv, DiskInv, ~busyReset', NEW c \in Channels, NEW srst \in BOOLEAN, NEW nIEN, Control(c, srst, nIEN)
  PROVE  CountInv'
<1> DEFINE d == Selected(c)
           s == disk[d]
           p == mem[c].prds
           u == [s EXCEPT !.devState = "Device_Srst"]
           r == IF srst THEN Update(u, "SRST_SET")
                ELSE IF s.devState = "Device_Srst" THEN Update(s, "SRST_CLEAR") ELSE s
           k == [r EXCEPT !.nIEN = nIEN]
<1>1. Becomes(d, k, chan) /\ (srst => Quiet(c)) /\ UNCHANGED mem
  <2>1. Becomes(d, k, chan) /\ UNCHANGED mem
    BY DEF Control, WriteControl
  <2>2. srst => Quiet(c)
    BY DEF Control
  <2> QED BY <2>1, <2>2
<1>2. Sound(s) /\ s.out = {} /\ Tallied(s, p) /\ d \in Disks /\ d[1] = c
  BY DEF DiskInv, Selected, CountInv
<1>3. (srst => Resting(s)) /\ IsDisk(s)
  BY <1>1, <1>2, QuietRests DEF Sound
<1> HIDE DEF s, d, p
<1>4. Sound(r) /\ Tallied(r, p)
  <2>1. CASE srst
    <3>1. u.devState = "Device_Srst"
      BY <1>3 DEF IsDisk, DiskFields
    <3>2. r = [u EXCEPT !.status = @ \cup {"BSY"}]
      BY <2>1, <3>1 DEF Update, UpdateState
    <3> HIDE DEF r
    <3>3. /\ IsDisk(r) /\ r.events = s.events /\ r.flight = s.flight /\ r.out = s.out
          /\ r.dmaState = s.dmaState /\ r.dmaAborted = s.dmaAborted /\ r.devState = "Device_Srst"
          /\ r.intrPending = s.intrPending /\ "BSY" \in r.status /\ r.image = s.image
      BY <1>3, <3>2 DEF IsDisk, DiskFields
    <3>4. Follows(s, r) /\ Resting(r)
      BY <1>3, <2>1, <3>3 DEF Follows, Resting
    <3>5. Fresh(r, p)
      BY <1>2, <3>3 DEF Fresh, Words, Whole, Tallied
    <3> QED BY <1>2, <1>3, <2>1, <3>4, <3>5, RestCounted
  <2>2. CASE ~srst /\ s.devState = "Device_Srst"
    <3>1. r = Reset(s, s.devID)
      BY <2>2 DEF Update, UpdateState
    <3>2. Resting(s) /\ Whole(s)
      BY <1>2, <2>2 DEF Sound, Armed, Running, Aborted, Tallied
    <3> HIDE DEF r
    <3>3. IsDisk(r) /\ r.events = s.events /\ r.flight = s.flight /\ r.out = s.out /\ Resting(r)
      BY <1>3, <3>1, ResetIs
    <3>4. Follows(s, r)
      BY <3>3 DEF Follows
    <3>5. Fresh(r, p)
      BY <1>3, <3>1, <3>2, ResetCounts
    <3> QED BY <1>2, <3>2, <3>3, <3>4, <3>5, RestCounted
  <2>3. CASE ~srst /\ s.devState # "Device_Srst"
    BY <1>2, <2>3
  <2> QED BY <2>1, <2>2, <2>3
<1> HIDE DEF r
<1>5. IsDisk(r)
  BY <1>4 DEF Sound
<1>6. /\ Same(r, k)
      /\ k.events = r.events /\ k.flight = r.flight /\ k.devState = r.devState /\ k.dmaState = r.dmaState
      /\ k.dmaAborted = r.dmaAborted /\ k.intrPending = r.intrPending /\ k.status = r.status
  BY <1>5 DEF Same, IsDisk, DiskFields
<1> HIDE DEF k
<1>7. Sound(k) /\ Tallied(k, p)
  BY <1>4, <1>6, SameTallied
<1> QED BY <1>1, <1>7, CountingSelected DEF d, p

\* An event of a disk fires.
LEMMA ProcessEventCounts ==
  ASSUME CountInv, DiskInv, NEW d \in Disks, ProcessEvent(d)
  PROVE  CountInv'
<1> DEFINE s == disk[d]
           busy == DmaPending \/ drain # "Running"
           m == mem[d[1]].data
           p == mem[d[1]].prds
<1>1. UNCHANGED mem /\ \E e \in s.events : Becomes(d, Process(s, e, busy, m), chan)
  BY DEF ProcessEvent
<1>2. PICK e \in s.events : Becomes(d, Process(s, e, busy, m), chan)
  BY <1>1
<1> DEFINE k == Process(s, e, busy, m)
<1>3. d[1] \in Channels /\ d = Selected(d[1]) /\ (Running(s) \/ Aborted(s)) /\ OneStep(s) /\ IsDisk(s) /\ s.out = {}
  BY StepIsSelected DEF NoStep
<1>4. e \in EventNames /\ s.events = {e} /\ s.flight = {} /\ Tallied(s, p)
  BY <1>3 DEF OneStep, CountInv
<1> HIDE DEF s, busy, m, p
<1>5. Progress(s, k) /\ Tallied(k, p)
  BY <1>3, <1>4, ProcessIs, ProcessCounts
<1>6. Becomes(Selected(d[1]), k, chan)
  BY <1>2, <1>3
<1> HIDE DEF k
<1>7. Sound(k)
  BY <1>5 DEF Progress, Sound
<1> QED BY <1>1, <1>3, <1>5, <1>6, <1>7, CountingSelected DEF p

\* The DMA port completes an action: of a PRD, whose entry the disk now has, or of data.
LEMMA CompleteDmaCounts ==
  ASSUME CountInv, DiskInv, NEW d \in Disks, CompleteDma(d)
  PROVE  CountInv'
<1> DEFINE s == disk[d]
           p == mem[d[1]].prds
<1>1. PICK f \in s.flight :
        /\ Becomes(d, Schedule([s EXCEPT !.flight = @ \ {f},
                     !.prd = IF f.event = "PrdRead" THEN PrdEntry(p, f.addr) ELSE @], f.event), chan)
        /\ mem' = IF f.event = "WriteWait" THEN [mem EXCEPT ![d[1]].data[f.addr] = f.data] ELSE mem
  BY DEF CompleteDma
<1> DEFINE prd == IF f.event = "PrdRead" THEN PrdEntry(p, f.addr) ELSE s.prd
           t == [s EXCEPT !.flight = @ \ {f}, !.prd = prd]
           k == Schedule(t, f.event)
<1>2. d[1] \in Channels /\ d = Selected(d[1]) /\ (Running(s) \/ Aborted(s)) /\ OneStep(s) /\ IsDisk(s) /\ s.out = {}
  BY StepIsSelected DEF NoStep
<1>3. f.event \in EventNames /\ s.events = {} /\ s.flight = {f} /\ Tallied(s, p)
  BY <1>2 DEF OneStep, CountInv
<1>4. /\ DOMAIN mem' = Channels /\ \A b \in Channels : "prds" \in DOMAIN mem'[b] /\ mem'[b].prds = mem[b].prds
  <2> DEFINE new == [mem[d[1]].data EXCEPT ![f.addr] = f.data]
             mc == [mem[d[1]] EXCEPT !.data = new]
  <2>1. CASE f.event = "WriteWait"
    <3>1. mem' = [mem EXCEPT ![d[1]] = mc]
      BY <1>1, <2>1
    <3> HIDE DEF new
    <3>2. "prds" \in DOMAIN mc /\ mc.prds = mem[d[1]].prds
      BY <1>2 DEF CountInv
    <3> HIDE DEF mc
    <3> QED BY <1>2, <3>1, <3>2 DEF CountInv
  <2>2. CASE f.event # "WriteWait"
    BY <1>1, <2>2 DEF CountInv
  <2> QED BY <2>1, <2>2
<1> HIDE DEF s, p
<1>5. Becomes(d, k, chan)
  <2>1. [s EXCEPT !.flight = @ \ {f}, !.prd = IF f.event = "PrdRead" THEN PrdEntry(p, f.addr) ELSE @] = t
    BY <1>2 DEF IsDisk, DiskFields
  <2> QED BY <1>1, <2>1
<1>6. prd = IF f.event = "PrdRead" THEN PrdEntry(p, f.addr) ELSE s.prd
  OBVIOUS
<1> HIDE DEF prd
<1>7. /\ IsDisk(t) /\ t.events = {} /\ t.flight = {} /\ t.out = {} /\ t.prd = prd
      /\ t.dmaState = s.dmaState /\ t.dmaAborted = s.dmaAborted /\ t.devState = s.devState
      /\ t.intrPending = s.intrPending /\ t.status = s.status /\ t.image = s.image
      /\ t.sec = s.sec /\ t.lba = s.lba /\ t.curSector = s.curSector
      /\ t.cmdBytesLeft = s.cmdBytesLeft /\ t.prdAddr = s.prdAddr
  BY <1>2, <1>3 DEF IsDisk, DiskFields
<1> HIDE DEF t
<1>8. /\ IsDisk(k) /\ k.events = {f.event} /\ k.flight = {}
      /\ k.dmaState = s.dmaState /\ k.dmaAborted = s.dmaAborted /\ k.devState = s.devState
      /\ k.intrPending = s.intrPending /\ k.status = s.status /\ Same(t, k)
  BY <1>7, ScheduleIs, ScheduleSame
<1>9. Sound(k)
  <2>1. OneStep(k)
    BY <1>3, <1>8 DEF OneStep
  <2>2. (Running(k) <=> Running(s)) /\ (Aborted(k) <=> Aborted(s))
    BY <1>8 DEF Running, Aborted
  <2> QED BY <1>2, <1>8, <2>1, <2>2 DEF Sound
<1>10. Whole(t)
  BY <1>3, <1>7 DEF Tallied, Whole
<1>11. Tallied(k, p)
  <2>1. CASE Running(s)
    <3>1. Table(s, p) /\ Underway(s, p, f)
      BY <1>3, <2>1 DEF Tallied
    <3>2. Between(t) /\ Running(t) /\ Table(t, p)
      BY <1>7, <2>1, <3>1 DEF Between, NoStep, Running, Table
    <3>3. Ready(t, p, f.event)
      <4>1. CASE f.event = "PrdRead"
        <5>1. f.addr = s.prdAddr /\ Ready(s, p, "Transfer")
          BY <3>1, <4>1 DEF Underway
        <5>2. t.prd = PrdEntry(p, t.prdAddr)
          BY <1>6, <1>7, <4>1, <5>1
        <5> QED BY <1>7, <4>1, <5>1, <5>2 DEF Ready, DoneTo
      <4>2. CASE f.event # "PrdRead"
        <5>1. t.prd = s.prd /\ Ready(s, p, f.event)
          BY <1>6, <1>7, <3>1, <4>2 DEF Underway
        <5> QED BY <1>3, <1>7, <4>2, <5>1 DEF Ready, DoneTo, EventNames
      <4> QED BY <4>1, <4>2
    <3> QED BY <1>3, <1>10, <3>2, <3>3, ScheduleCounts DEF Rolling
  <2>2. CASE Aborted(s)
    <3> HIDE DEF k
    <3>1. Whole(k)
      BY <1>8, <1>10, SameWhole
    <3> QED BY <1>8, <2>2, <3>1 DEF Tallied, Words, Aborted, Armed, Running
  <2> QED BY <1>2, <2>1, <2>2
<1> HIDE DEF k
<1>12. \A e \in Disks : e[1] = d[1] /\ e # d => Resting(disk[e])
  BY <1>2 DEF DiskInv
<1> QED BY <1>2, <1>4, <1>5, <1>9, <1>11, <1>12, Counting DEF p

\* A checkpoint saves one event at most, and the counters.
LEMMA RestoreCounts ==
  ASSUME CountInv, DiskInv, Restore
  PROVE  CountInv'
<1>1. /\ \A d \in Disks : disk'[d] = [Restored(disk[d]) EXCEPT !.out = {}]
      /\ panicked' <=> (panicked \/ \E d \in Disks : "panic" \in Restored(disk[d]).out)
      /\ UNCHANGED mem
  BY DEF Restore
<1>2. ASSUME NEW d \in Disks
      PROVE  Tallied(disk'[d], mem[d[1]].prds) /\ "panic" \notin Restored(disk[d]).out
  <2> DEFINE s == disk[d]
             p == mem[d[1]].prds
             t == [s EXCEPT !.cg = NoCG]
  <2>1. Sound(s) /\ Tallied(s, p) /\ IsDisk(s)
    BY DEF DiskInv, CountInv, Sound
  <2>2. Cardinality(s.events) <= 1
    <3>1. s.events = {} \/ \E e \in EventNames : s.events = {e}
      BY <2>1 DEF Sound, NoStep, OneStep
    <3>2. Cardinality({}) = 0 /\ \A e \in EventNames : Cardinality({e}) = 1
      BY FS_EmptySet, FS_Singleton
    <3>3. Cardinality(s.events) \in {0, 1}
      BY <3>1, <3>2
    <3> QED BY <3>3
  <2>3. Restored(s) = t
    BY <2>2, RequireHolds DEF Restored
  <2> HIDE DEF s, p
  <2>4. /\ Same(s, t)
        /\ t.events = s.events /\ t.flight = s.flight /\ t.devState = s.devState /\ t.dmaState = s.dmaState
        /\ t.dmaAborted = s.dmaAborted /\ t.intrPending = s.intrPending /\ t.status = s.status
    BY <2>1 DEF Same, IsDisk, DiskFields
  <2> HIDE DEF t
  <2>5. Sound(t) /\ Tallied(t, p)
    BY <2>1, <2>4, SameTallied
  <2>6. Tallied([t EXCEPT !.out = {}], p) /\ "panic" \notin t.out
    BY <2>5, Emptied DEF Tallied, Whole
  <2> QED BY <1>1, <2>3, <2>6 DEF s, p
<1> QED BY <1>1, <1>2 DEF CountInv

\* A new disk has nothing to move.
LEMMA InitCounts == Init => CountInv
<1> SUFFICES ASSUME Init PROVE CountInv
  OBVIOUS
<1>1. \A d \in Disks : disk[d] \in NewDisks(d[2], ImageOf(d))
  BY DEF Init
<1>2. ASSUME NEW d \in Disks PROVE Tallied(disk[d], mem[d[1]].prds)
  <2>1. PICK n \in BOOLEAN : disk[d] =
             Reset([devID |-> d[2], image |-> ImageOf(d), nIEN |-> n, cg |-> NoCG, events |-> {},
             flight |-> {}, out |-> {}, buf |-> ZeroBuffer, cmd |-> "none", sec |-> 0,
             lba |-> 0, prd |-> ZeroPrd, prdAddr |-> 0, curSector |-> 0, cmdBytes |-> 0,
             cmdBytesLeft |-> 0, drqBytesLeft |-> 0, dmaRead |-> FALSE,
             intrPending |-> FALSE, dmaAborted |-> FALSE, dmaState |-> "Dma_Idle",
             status |-> {}, devState |-> "Device_Idle_NS"], d[2])
    BY <1>1 DEF NewDisks
  <2> DEFINE im == ImageOf(d)
             b == [devID |-> d[2], image |-> im, nIEN |-> n, cg |-> NoCG, events |-> {},
             flight |-> {}, out |-> {}, buf |-> ZeroBuffer, cmd |-> "none", sec |-> 0,
             lba |-> 0, prd |-> ZeroPrd, prdAddr |-> 0, curSector |-> 0, cmdBytes |-> 0,
             cmdBytesLeft |-> 0, drqBytesLeft |-> 0, dmaRead |-> FALSE,
             intrPending |-> FALSE, dmaAborted |-> FALSE, dmaState |-> "Dma_Idle",
             status |-> {}, devState |-> "Device_Idle_NS"]
             k == Reset(b, d[2])
             p == mem[d[1]].prds
  <2>2. disk[d] = k
    BY <2>1
  <2>3. DOMAIN im = 0 .. NumSectors - 1
    BY DEF ImageOf
  <2> HIDE DEF im
  <2>4. IsDisk(b) /\ b.out = {} /\ b.image = im
    BY DEF IsDisk, DiskFields
  <2> HIDE DEF b
  <2>5. Whole(b)
    BY <2>3, <2>4 DEF Whole
  <2> HIDE DEF p
  <2>6. Fresh(k, p) /\ Resting(k)
    BY <2>4, <2>5, ResetCounts, ResetIs
  <2> HIDE DEF k
  <2>7. ~Running(k)
    BY <2>6 DEF Resting, Running
  <2> QED BY <2>2, <2>6, <2>7, FreshTallied DEF p
<1>3. ~panicked /\ DOMAIN mem = Channels /\ \A c \in Channels : "prds" \in DOMAIN mem[c]
  <2> DEFINE data == Filled(Blank)
  <2>1. ~panicked /\ mem = [c \in Channels |-> [data |-> data, prds |-> << >>]]
    BY DEF Init
  <2> HIDE DEF data
  <2> QED BY <2>1
<1> QED BY <1>2, <1>3 DEF CountInv

\* All of the driver.
LEMMA DriverCounts ==
  ASSUME CountInv, DiskInv, ~busyReset', NEW c \in Channels, Driver(c)
  PROVE  CountInv'
<1>1. ASSUME NEW bit \in {0, 1}, Select(c, bit) PROVE CountInv'
  BY <1>1, SelectCounts
<1>2. ASSUME NEW cmd \in Workload[c], NEW t \in Transfers, Command(c, cmd, t[1], t[2]) PROVE CountInv'
  <2>1. t[1] \in Nat \ {0} /\ t[2] \in Nat
    <3>1. t[1] \in 1 .. MaxSectors /\ t[2] \in Nat
      BY TransferAssumption
    <3> QED BY <3>1
  <2> QED BY <1>2, <2>1, CommandCounts
<1>3. CASE Start(c)
  BY <1>3, StartCounts
<1>4. CASE Stop(c)
  BY <1>4, StopCounts
<1>5. CASE ReadStatus(c)
  BY <1>5, ReadStatusCounts
<1>6. ASSUME NEW words \in {1, 2}, ReadData(c, words) PROVE CountInv'
  BY <1>6, ReadDataCounts
<1>7. ASSUME NEW words \in {1, 2}, WriteData(c, words) PROVE CountInv'
  BY <1>7, WriteDataCounts
<1>8. ASSUME NEW srst \in BOOLEAN, NEW nIEN \in BOOLEAN, Control(c, srst, nIEN) PROVE CountInv'
  BY <1>8, ControlCounts
<1> QED BY <1>1, <1>2, <1>3, <1>4, <1>5, <1>6, <1>7, <1>8 DEF Driver

\* Every step that leaves no busy channel reset keeps the counters.
LEMMA NextCounts ==
  ASSUME CountInv, DiskInv, ~busyReset', [Next]_vars
  PROVE  CountInv'
<1>1. CASE UNCHANGED <<disk, mem, panicked>>
  BY <1>1 DEF CountInv
<1>2. CASE ConfigBar \/ ConfigCommand \/ Drain \/ Resume \/ UNCHANGED vars
  BY <1>1, <1>2 DEF ConfigBar, ConfigCommand, Drain, Resume, vars
<1>3. ASSUME NEW c \in Channels, Driver(c) PROVE CountInv'
  BY <1>3, DriverCounts
<1>4. ASSUME NEW d \in Disks, ProcessEvent(d) PROVE CountInv'
  BY <1>4, ProcessEventCounts
<1>5. ASSUME NEW d \in Disks, CompleteDma(d) PROVE CountInv'
  BY <1>5, CompleteDmaCounts
<1>6. CASE Restore
  BY <1>6, RestoreCounts
<1> QED BY <1>2, <1>3, <1>4, <1>5, <1>6 DEF Next

\* The counters of the disks agree with their commands and PRD tables.
CountInvUntil == busyReset \/ CountInv

LEMMA CountInvariant == Spec => []CountInvUntil
<1>1. Init => CountInvUntil
  BY InitCounts DEF CountInvUntil
<1>2. DiskInvUntil /\ CountInvUntil /\ [Next]_vars => CountInvUntil'
  BY NextCounts, ResetsRemembered DEF DiskInvUntil, CountInvUntil
<1> QED BY <1>1, <1>2, DiskInvariant, PTL DEF Spec

\* For any disks, image and PRD tables, and a driver whose commands name sectors of
\* the image: until it resets a channel that is busy, no assertion and no panic of
\* a disk fires.  No interrupt is posted twice or cleared when none is pending, no
\* event is scheduled twice, no sector outside the image is read or written, and
\* nothing is left to move at the end of the PRD table.
THEOREM PanicFree == Spec => []NoPanic
<1>1. CountInvUntil => NoPanic
  BY DEF CountInv, CountInvUntil, NoPanic
<1> QED BY <1>1, CountInvariant, PTL
=============================================================================
