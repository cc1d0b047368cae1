------------------------------- MODULE IOHub -------------------------------
(***************************************************************************)
(* The IO hub's shadow of PCI base address registers (iohub.cc), reached   *)
(* through the address mapper in front of it (tag_addr_mapper.cc).         *)
(*                                                                         *)
(* Every LDom programs the BARs of the devices assigned to it as if they   *)
(* were its own.  The hub gives each BAR one window that no other BAR has  *)
(* (uniqBAR), writes that one to the device whatever the LDom asks for,    *)
(* and keeps, per LDom, a map from the addresses the LDom chose to the     *)
(* window.  A write of zero or of all ones (the sizing protocol), whatever *)
(* its bit 0, is passed on as it is.  The mapper hooks a request before it *)
(* knows whether the crossbar takes it, so the retry of a refused request  *)
(* is hooked again.                                                        *)
(*                                                                         *)
(* A device stands for one BAR, and I/O ports and memory for one address   *)
(* space: the code treats each pair alike.  The type bit of a BAR, which   *)
(* hub and device keep as it is, is left out of the addresses.  mask is    *)
(* what the control plane answers to getDeviceMask; module IOHubCP is      *)
(* about how it comes about.                                               *)
(***************************************************************************)
EXTENDS Integers

CONSTANTS
  NDev,         \* number of devices
  LDoms,        \* DSids of the LDoms
  Size,         \* the size of each device's window
  MaxSize,      \* a bound on the sizes
  UniqBase,     \* where the unique windows start: 0xC000, 0xC1000000
  GuestBases,   \* addresses LDoms choose for a BAR
  W,            \* 2^32: a BAR is a uint32_t
  MaxWrites     \* bound on the BAR writes of all LDoms

Devices == 1 .. NDev

ASSUME ConstantAssumption ==
  /\ NDev \in Nat \ {0} /\ MaxSize \in Nat /\ UniqBase \in Nat \ {0}
  /\ Size \in [Devices -> 1 .. MaxSize]
  /\ W \in Nat /\ UniqBase + NDev * MaxSize <= W - 4
  /\ W % 4 = 0 /\ UniqBase % 4 = 0 /\ \A d \in Devices : Size[d] % 4 = 0
  /\ GuestBases \subseteq 2 .. W - 3 /\ \A v \in GuestBases : v % 2 = 0
  /\ MaxWrites \in Nat
  /\ -1 \notin LDoms

VARIABLES
  sized, nextBase,      \* startup: devices sized so far, the next free window
  uniqBAR, userBAR,     \* the shadow of each device's BAR
  pciIoShadow,          \* per LDom, the ranges it programmed and their offset
  baseAddr, barAddr,    \* the device: its register, and where it decodes
  mask,                 \* per LDom, the devices it is assigned
  writes,               \* BAR writes so far
  pend,                 \* per LDom, a refused BAR write, to be retried
  prog,                 \* history: the address the LDom last gave the BAR
  writer,               \* history: the LDom whose write the shadow holds
  clash                 \* history: LDoms with a range that met another's

hubVars == <<sized, nextBase, uniqBAR, userBAR, pciIoShadow>>
devVars == <<baseAddr, barAddr>>
histVars == <<prog, writer, clash>>
vars == <<sized, nextBase, uniqBAR, userBAR, pciIoShadow, baseAddr, barAddr,
          mask, writes, pend, prog, writer, clash>>

----------------------------------------------------------------------------

NoLDom == -1
NoWrite == [dev |-> 0, val |-> 0]
Probe == W - 1                          \* all ones
Base(v) == v - (v % 2)                  \* & 0xFFFFFFFE
Plain(v) == Base(v) \in {0, W - 2}      \* values that the hub lets through
Masked(v) == v - (v % 4)                \* & ~BAR_IO_MASK, in the device
Top == Masked(W - 2)                    \* where 0xFFFFFFFE leads a device

Init ==
  /\ sized = 0 /\ nextBase = UniqBase
  /\ uniqBAR = [d \in Devices |-> 0]
  /\ userBAR = [d \in Devices |-> 0]
  /\ pciIoShadow = [l \in LDoms |-> {}]
  /\ baseAddr = [d \in Devices |-> 0]
  /\ barAddr = [d \in Devices |-> 0]
  /\ mask = [l \in LDoms |-> {}]
  /\ writes = 0
  /\ pend = [l \in LDoms |-> NoWrite]
  /\ prog = [l \in LDoms |-> [d \in Devices |-> 0]]
  /\ writer = [d \in Devices |-> NoLDom]
  /\ clash = {}

\* startup(): the next device is sized, given the next window, and cleared.
Startup ==
  /\ sized < NDev
  /\ uniqBAR' = [uniqBAR EXCEPT ![sized + 1] = nextBase]
  /\ userBAR' = [userBAR EXCEPT ![sized + 1] = 0]
  /\ baseAddr' = [baseAddr EXCEPT ![sized + 1] = 0]
  /\ nextBase' = nextBase + Size[sized + 1]
  /\ sized' = sized + 1
  /\ UNCHANGED <<pciIoShadow, barAddr, mask, writes, pend, histVars>>

\* The control plane's table gives LDom l other devices.
SetMask(l, m) ==
  /\ sized = NDev
  /\ mask' = [mask EXCEPT ![l] = m]
  /\ UNCHANGED <<hubVars, devVars, writes, pend, histVars>>

----------------------------------------------------------------------------
(* The hub.                                                                *)

Overlap(e, f) == e.base < f.base + f.size /\ f.base < e.base + e.size

\* AddrRangeMap::insert leaves the map alone when the range is partly taken.
BugInsert(ranges, e) == ranges \cup {e}
Insert(ranges, e) ==
  IF \E f \in ranges : Overlap(e, f) THEN ranges ELSE ranges \cup {e}

\* The entry for device d at address v; the difference is a uint32_t.
BugRangeOf(d, v) ==
  [base |-> Base(v), size |-> Size[d], off |-> (uniqBAR[d] - userBAR[d]) % W]
RangeOf(d, v) ==
  [base |-> Base(v), size |-> Size[d], off |-> (uniqBAR[d] - v) % W]

\* remapAddr for an address outside configuration space.
RemapIo(l, a) ==
  IF \E e \in pciIoShadow[l] : e.base <= a /\ a < e.base + e.size
    THEN a + (CHOOSE e \in pciIoShadow[l] :
                e.base <= a /\ a < e.base + e.size).off
    ELSE a

\* hookPciAccess of a write request: the shadow, and the value sent on.
HookWrite(l, d, v) ==
  IF Plain(v)
    THEN UNCHANGED <<userBAR, pciIoShadow, writer, clash>>
    ELSE /\ userBAR' = [userBAR EXCEPT ![d] = v]
         /\ pciIoShadow' = [pciIoShadow EXCEPT ![l] = Insert(@, RangeOf(d, v))]
         /\ writer' = [writer EXCEPT ![d] = l]
         /\ clash' = IF \E f \in pciIoShadow[l] :
                          Overlap(RangeOf(d, v), f) /\ f # RangeOf(d, v)
                       THEN clash \cup {l} ELSE clash

BugHooked(d, v) == v
Hooked(d, v) == IF Plain(v) THEN v ELSE uniqBAR[d]

\* hookPciAccess of a read response: what the LDom sees in the BAR.
ReadBar(d) == IF baseAddr[d] = uniqBAR[d] THEN userBAR[d] ELSE baseAddr[d]

\* The device's configuration write: all ones, bit 0 included, ask for the
\* size, and neither they nor zero move the window that the device decodes.
WriteConfig(d, v) ==
  /\ baseAddr' = [baseAddr EXCEPT ![d] =
                    IF v = Probe THEN W - Size[d] ELSE Masked(v)]
  /\ barAddr' = [barAddr EXCEPT ![d] =
                   IF v = Probe \/ Masked(v) = 0 THEN @ ELSE Masked(v)]

----------------------------------------------------------------------------
(* Configuration writes of the LDoms, through the mapper.  A device that   *)
(* is not assigned to the LDom is hidden: the write goes nowhere.          *)

Programmed(l, d, v) ==
  /\ writes < MaxWrites /\ writes' = writes + 1
  /\ prog' = CASE Base(v) = W - 2 -> prog
               [] Base(v) = 0 -> [prog EXCEPT ![l][d] = 0]
               [] OTHER -> [prog EXCEPT ![l][d] = v]

\* The first offer of a write, taken by the crossbar.
WriteBar(l, d, v) ==
  /\ sized = NDev /\ pend[l] = NoWrite /\ d \in mask[l]
  /\ HookWrite(l, d, v)
  /\ WriteConfig(d, Hooked(d, v))
  /\ Programmed(l, d, v)
  /\ UNCHANGED <<sized, nextBase, uniqBAR, mask, pend>>

\* The first offer, refused: the packet goes back as the hook left it.
WriteBarRefused(l, d, v) ==
  /\ sized = NDev /\ pend[l] = NoWrite /\ d \in mask[l]
  /\ HookWrite(l, d, v)
  /\ pend' = [pend EXCEPT ![l] = [dev |-> d, val |-> Hooked(d, v)]]
  /\ Programmed(l, d, v)
  /\ UNCHANGED <<sized, nextBase, uniqBAR, baseAddr, barAddr, mask>>

\* A later offer: hooked again, with what is in the packet by now.
RetryTaken(l) ==
  /\ pend[l] # NoWrite /\ pend[l].dev \in mask[l]
  /\ HookWrite(l, pend[l].dev, pend[l].val)
  /\ WriteConfig(pend[l].dev, Hooked(pend[l].dev, pend[l].val))
  /\ pend' = [pend EXCEPT ![l] = NoWrite]
  /\ UNCHANGED <<sized, nextBase, uniqBAR, mask, writes, prog>>

RetryRefused(l) ==
  /\ pend[l] # NoWrite /\ pend[l].dev \in mask[l]
  /\ HookWrite(l, pend[l].dev, pend[l].val)
  /\ UNCHANGED <<sized, nextBase, uniqBAR, baseAddr, barAddr, mask, writes,
                 pend, prog>>

\* The device was taken from the LDom meanwhile.
RetryHidden(l) ==
  /\ pend[l] # NoWrite /\ pend[l].dev \notin mask[l]
  /\ pend' = [pend EXCEPT ![l] = NoWrite]
  /\ UNCHANGED <<hubVars, devVars, mask, writes, histVars>>

GuestValues == GuestBases \cup {0, 1, W - 2, Probe}

GuestWrite(l) ==
  \E d \in Devices, v \in GuestValues :
    WriteBar(l, d, v) \/ WriteBarRefused(l, d, v)

Next ==
  \/ Startup
  \/ \E l \in LDoms : \/ \E m \in SUBSET Devices : SetMask(l, m)
                      \/ GuestWrite(l)
                      \/ RetryTaken(l) \/ RetryRefused(l) \/ RetryHidden(l)

Spec == Init /\ [][Next]_vars

----------------------------------------------------------------------------
(* Properties.                                                             *)

Range == [base : Nat, size : Nat, off : Nat]

TypeOK ==
  /\ sized \in 0 .. NDev /\ nextBase \in Nat
  /\ uniqBAR \in [Devices -> 0 .. W - 2]
  /\ userBAR \in [Devices -> 0 .. W - 2]
  /\ pciIoShadow \in [LDoms -> SUBSET Range]
  /\ baseAddr \in [Devices -> 0 .. W - 1]
  /\ barAddr \in [Devices -> 0 .. W - 2]
  /\ mask \in [LDoms -> SUBSET Devices] /\ writes \in 0 .. MaxWrites
  /\ pend \in [LDoms -> [dev : 0 .. NDev, val : 0 .. W - 1]]
  /\ prog \in [LDoms -> [Devices -> 0 .. W - 2]]
  /\ writer \in [Devices -> LDoms \cup {NoLDom}]
  /\ clash \subseteq LDoms

\* Whatever addresses the LDoms choose, the same ones included, and whatever is
\* refused and retried, two devices decode a common address only when both were
\* sent to Top by a value that the hub lets through (startup's windows, and
\* hookPciAccess's substitution).
DecodeDisjoint ==
  \A d, e \in Devices :
    d # e /\ barAddr[d] # 0 /\ barAddr[e] # 0 =>
      \/ barAddr[d] = Top /\ barAddr[e] = Top
      \/ barAddr[d] + Size[d] <= barAddr[e]
      \/ barAddr[e] + Size[e] <= barAddr[d]

\* Every entry of an LDom's map is as large as some device's window and, unless
\* it lies above that window, leads to its start; the entries of an LDom are
\* disjoint, so that an address has one translation (AddrRangeMap::insert).
EntriesLeadToWindows ==
  \A l \in LDoms : \A e \in pciIoShadow[l] :
    /\ \E d \in Devices :
         /\ e.size = Size[d]
         /\ e.base <= uniqBAR[d] => e.base + e.off = uniqBAR[d]
    /\ \A f \in pciIoShadow[l] : Overlap(e, f) => e = f

\* An LDom none of whose ranges met another one (the hub never takes a range
\* out of the map, and drops one that meets an old range) reaches its device,
\* at the same offset, where it last put the BAR, if that is not above the
\* device's window, even when its writes were refused and retried.
WindowReached ==
  \A l \in LDoms \ clash : \A d \in Devices :
    prog[l][d] \in 1 .. uniqBAR[d] =>
      \A o \in 0 .. Size[d] - 1 : RemapIo(l, prog[l][d] + o) = uniqBAR[d] + o

\* "For write request to BAR register, we shadow it" (hookPciAccess): a device
\* decodes nothing or the window that the hub gave it.  Does not hold: a write
\* of 0xFFFFFFFE is no sizing write to the device, but one to the hub.
WritesShadowed == \A d \in Devices : barAddr[d] \in {0, uniqBAR[d]}

\* "<DSid, UserAddr> ==> uniqAddr" (pciIoShadow): every entry leads to the start
\* of a window.  Does not hold for an LDom's address above the window: the
\* difference wraps at 32 bits and is added to a 64-bit address.
ShadowMapsToUniq ==
  \A l \in LDoms : \A e \in pciIoShadow[l] :
    \E d \in Devices : e.base + e.off = uniqBAR[d] /\ e.size = Size[d]

\* "For read response, check shadow and reture original user BAR"
\* (hookPciAccess): the LDom whose write the shadow holds reads back what it
\* wrote.  Does not hold: the retry of a refused write is hooked again, and the
\* shadow then holds the window that the first hook put into the packet.
ReadsBackOwn ==
  \A l \in LDoms, d \in Devices :
    writer[d] = l /\ pend[l] = NoWrite /\ baseAddr[d] = uniqBAR[d] =>
      ReadBar(d) = prog[l][d]
=============================================================================
