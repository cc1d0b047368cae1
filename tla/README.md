# A TLA+ model of PARD-gem5

PARD-gem5 extends the gem5 simulator with the PARD architecture: a server
partitioned into *logical domains* (LDoms).  Every memory request carries the tag
(DSid) of the LDom it is made for; the memory controller, the I/O hub, the chip
set and the system each have a *control plane*, a small table indexed by DSid
that tells them how to treat a tagged request; and a *platform resource manager*
(PRM), a separate Linux machine with its own drivers and tools, programs the
tables through a *control plane network*.  This directory models the parts where
several actors meet: requests, refusals and retries on tagged paths, devices and
their drivers, and PRM software that changes tables in use.

Paths below are relative to `src/src/` unless they start with `system/`.

## 1. Inventory

| Component | State | Operations | Model |
|---|---|---|---|
| TagBridge (`mem/tag_bridge`) | request and response queues, send events, `outstandingResponses`, `retryReq` | `recvTimingReq`, `recvTimingResp`, `trySendTiming` and `recvRetry` on both ports | `TagBridge` |
| PARDMemoryCtrl (`mem/pard_mem_ctrl`) | none but what it pushes on the packet | `recvTimingReq`, `recvTimingResp`, retries, `recvAtomic`, `recvFunctional` | `MemCtrl` |
| System crossbar (`mem/pard_system_xbar`), TagXBar (`mem/tag_xbar`) | `outstandingReq`, the layers and who waits for them, the state pushed on a packet | `recvTimingReq` with both refusals, `recvTimingResp`, `recvRetry` | `Fabric` |
| DMA port (`dev/pard/dma_device`) | `transmitList`, `sendEvent`, `inRetry`, `pendingCount`, `drainManager`, one `DmaReqState` per action | `dmaAction`, `sendDma`, `trySendTimingReq`, `recvRetry`, `handleResp`, `drain`, `setDSid` | `DmaPort` |
| IDE disk and controller (`dev/pard/ide_disk`, `ide_ctrl`) | task file, ATA and DMA state, PRD, data buffer, scheduled events; channel selection, bus master registers, BARs | register accesses, DMA events, abort, reset, drain, checkpoint | `IdeDisk`, `IdeCtrl` |
| PCI device (`dev/pard/pcidev`) | configuration registers, decoded ranges | `readConfig`, `writeConfig`, `drain`, `unserialize` | in `IOHub` and `IdeCtrl` |
| IO hub (`dev/pard/iohub`) behind `mem/tag_addr_mapper` | shadow of each BAR, address map of each LDom; a refused packet | `startup`, `hookPciAccess`, `remapAddr`, the mapper's `recvTimingReq` | `IOHub` |
| IO hub control plane (`dev/pard/iohub_cp`) and tool (`system/utils/ioh`) | parameter table, DSid of each device; the tool's scan | `updateTable`, `queryTable`, `getDeviceMask`; `ioh assign`, `ioh release` | `IOHubCP` |
| Control plane network (`prm/CPAdaptor`, `CPConnector`, `ControlPlane`) and the driver's accesses (`system/modules/cpa/access.c`) | adaptor lock, select register, argument registers of each connector, tables | read, write, command; each a sequence of register accesses | `CPNetwork`, `ConfigService` |
| PRM drivers (`system/modules/cpa/init.c`, `system/modules/pardg5v`) | what was taken from the kernel, the bus, reference counts, device numbers, open files | load, unload, probe, bind, unbind, remove, open, close | `PrmDrivers` |
| System control plane (`arch/x86/pardg5v_system_cp`) | parameter rows, configuration memory | `parseAddr`, `queryTable`, `updateTable`, the boot command | tables in `CPNetwork`, rows in `LDomBoot` |
| LDom start-up (`arch/x86/pardg5v_system`, `mem/pard_port_proxy`), `system/utils/biosloader.c` | tags of the CPUs' TLBs and local APICs, the shared loader proxy, active CPUs; the loader | `handleCommand`, `startupLDomain`, `initBSPState`; the loader's stores | `LDomBoot` |
| ICH and its control plane (`dev/cellx/ich*`), `system/utils/ich`, `system/utils/kickstart` | parameter rows, one word at a time; the tool | `remapAddr`, `remapInterrupt`, `updateTable`; `ich --assign`, `ich --irqmap` | `LDoms` |
| IO APIC (`dev/cellx/i82094ax`) | `regSelVector`, `redirTableVector`, pins | register access, `signalInterrupt` | `LDoms` |
| Serial port and platform (`dev/cellx/i8250x`, `cellx`) | IER, LCR, pending interrupts, two events, the pin | register access, `dataAvailable`, events | `Uart` |
| TLB and local APIC wrappers (`arch/x86/pard_*`) | the tag | set at start-up, read by accesses and delivery | in `LDomBoot`, `LDoms` |
| XBridge, Ethernet tap, PCI Express, CoherentTagXBar, `cpa-old`, biosbuilder, configurations | | | left out, section 7 |

**Interactions.**  A CPU's or device's request is tagged at its source (the TLB,
the DMA port) or by a TagBridge, passes TagXBar and the system crossbar, and
reaches DRAM through the memory controller, which adds the window of its LDom.
An access of a CPU to a device passes the address mapper of the IO hub, whose
hook reads and writes the shadow configuration and asks the IO hub's control
plane which devices the LDom has, or the ICH, whose control plane chooses the
LDom's serial port and timer and says which of its interrupt lines a physical
line becomes.  The PRM changes those tables through one adaptor; a change in the
IO hub's table re-tags the devices' DMA, and a command to the system control
plane boots a domain.  All timing paths follow one protocol: the receiver takes a
packet or refuses it, a refused sender keeps the packet *as it was left* and
offers it again after `recvRetry`.

**What is hard here.**  Refusal after the packet has been changed (tagged,
remapped, hooked, a state pushed); retries owed from several places and handed
through several layers; counters and maps changed in one handler and undone in
another; answers in any order; registers shared by the PRM's threads; tables
written word by word while they are in use; a tag that changes under a transfer
in flight; a transfer stopped, reset or checkpointed between two of its events;
edge-triggered interrupts that are lowered by more than one path; probes of
several steps, each of which may fail; unsigned arithmetic at its edges.  The
`hazards` in `PROJECT.json` list these at their lines.

## 2. Modules and the code

A definition carries the name of the function or field it stands for.  A
definition whose name starts with `Bug` is a plausible error in the definition
that follows it: with it in place the named property must fail.  Assertions and
panics of the code are properties, or end the behaviour where the text says so.

* **TagBridge.**  One action per outcome of a handler.  `RefuseReqFull`,
  `RefuseRespFull` and `Accept` are the three ends of `recvTimingReq`;
  `MasterTrySendOk/Fail` and `SlaveTrySendOk/Fail` are `trySendTiming`, run by
  the send event or by `recvRetry`.  The peers (a gem5 crossbar and memory) are
  external and follow the timing protocol.  Delays are abstracted: a scheduled
  event happens some time later.
* **MemCtrl.**  `Accepted`/`Refused` are `recvTimingReq`,
  `RespDelivered`/`RespRefused` are `recvTimingResp`; two history fields of a packet
  remember what was asked for and how often it was refused.  Requests carry addresses
  inside and beyond the window: no line checks the bound.
* **Fabric** composes TagXBar (the cached ports of one CPU), PARDSystemXBar and
  another master.  `Send` is one call chain from a master down to the device:
  refused inside TagXBar (`RefusedInside`), at a busy layer (`RefusedByLayer`), by
  the device (`RefusedByPeer`), or `Accepted`.  gem5's layers are external: one
  request at a time, a queue of waiting ports, and a retry that the first of them
  must use in the same call (`turn`).  A request may be *inhibited*: another cache
  of the CPU owns the line and answers.  `RespondTag` with `RecvTimingResp` is the way
  back through TagXBar: the response is popped and redirected, and put back as it came
  (`PutBack`) when the layer inside is still busy with another answer (`answering`).
  `died` says which assertion failed, after which nothing happens: a refused response
  (gem5's own assertion), a refused inhibited request, or a reused `Request`; `stale`
  is history.
* **DmaPort.**  `dmaAction` is one action (it runs to its end without returning
  to the event loop), including the first send; `Chunks` is gem5's
  `ChunkGenerator`, as a closed formula.  `reqState` keeps finished actions so that
  a second completion would be seen.  `DSid` keeps its 16 bits, and `Rejected` is
  the comparison `DSid == -1` as C++ evaluates it: never true.
* **IdeDisk, IdeCtrl.**  `IdeDisk` is a disk as operators on a record of its fields:
  the ATA states (`UpdateState`), the DMA chain (`StartDma`, `DoDmaTransfer`,
  `DmaPrdReadDone`, `DoDmaRead`, `DoDmaWrite`, ...), interrupts, abort, reset and
  `Restored` (serialize followed by unserialize).  A panic is collected in `out`.
  `IdeCtrl` places disks on channels behind the BARs that firmware programs, and
  adds the driver (external, following the ATA protocol: commands when idle, data
  when asked for, a stop or a control write, the reset bit included, at any moment),
  the shared DMA port as `DmaPort` describes it from outside (an action completes
  once), drain and restore.  `busyReset` is history: a channel was reset before its
  disks were quiet.
  Each word of each sector has a value of its own, so that misplaced data is seen.
* **ConfigService / CPNetwork.**  `CPNetwork` has one action per register access
  of the driver; `WriteCmd` includes all that `CPConnector::recvAtomic` does in
  that access.  `ConfigService` is the promise: every operation takes effect at
  one instant.  `Linearizable` is `ConfigService!Spec` under a refinement mapping
  in which a read has its result from the moment the command register is written.
* **PrmDrivers.**  A function that takes resources one after another is a record:
  what step k takes, the label a failure of step k jumps to, what each label gives
  back.  `Outcome` computes what is left after a failure at any step; the records
  of `cpa_adaptor_probe`, `pardg5v_init_module`, `__allocate_*cp_device` and the
  others are read off the code.  A probe of a plane is two actions, since the node
  can be opened between `cdev_add` and `list_add_tail`.  An adaptor without planes
  returns an error code that was never set: the probe goes either way.  `adaptors` is
  `g_adaptor_list`, each entry with whether its memory is still allocated: no label and
  no removal takes an entry off.  The operator may unbind a plane, whoever has it open
  (`Unbind`), and unbind and bind the adaptor (`UnbindAdaptor`, `BindAdaptor`, the latter
  while `pardg5v` is out); a removal that meets a freed entry is `RemoveStale`, after
  which the model says nothing more of `cpa`.  `torn` is history: the planes unbound by
  hand or with their adaptor.
* **LDomBoot, Uart, LDoms.**  `LDomBoot` has biosloader's stores to the system
  control plane one by one, and the boot command as one action.  `Uart` is a
  serial port as operators on a record.  `LDoms` extends both with the ICH
  control plane, written one word at a time by `ich`, the IO APIC with a register
  selector and a redirection table per DSid, timers and PCI interrupts, and guests
  (external) that program the IO APIC and run a serial driver, which answers a
  transmit interrupt with a character or, having none, by disabling it (`declined` is
  history).  A `Kickstart` is the script `system/utils/kickstart`: assign, map the
  disk's line, load, boot.  When `SignalInterrupt` meets a row whose DSid is not
  written yet it reads memory outside its tables: the simulator dies, or the message
  found there goes to any running CPU (`stray`, taken by `TakeStray`).
* **IOHubCP.**  A run of the tool reads a row, then the next, and writes one row
  back; `WriteRow` includes the re-tagging that `updateTable` does.  An access is
  atomic, which is what `CPNetwork` shows.  `Serial` says whether runs overlap.
  `asked`, `granted` and `shared` are history.
* **IOHub.**  `Startup` sizes one device; `WriteBar`, `WriteBarRefused` and the
  `Retry` actions are the mapper's `recvTimingReq` with the hub's hook, the
  crossbar's answer and, when taken, the device's `writeConfig`.  One device
  stands for one BAR and one address space for both of I/O and memory; the type bit
  is left out of addresses, but the hub's mask of bit 0 is kept: `Plain` lets through
  0, 1, all ones and all ones but bit 0.  `prog`, `writer` and `clash` are history.  `mask` changes freely: that is what `IOHubCP`
  may make of it.

The `MC` modules add symmetry sets and constant values and nothing else.

## 3. Runs

| Run | Checks | Shows |
|---|---|---|
| `tag_bridge` | `SlotsConserved`, `RequestsInOrder`, `ResponsesRouted`, `RetryOwed`, `StalledIsAccepted` | slots are conserved, order and routing kept, no wake-up is lost, a refused peer is eventually served |
| `tag_bridge_stamp` (violation) | `NeverStampedTwice` | a request refused for want of a response slot has been stamped; its retry trips `assert(!pkt->hasDSid())` |
| `cp_network` | `CommandHasItsArguments`, `Linearizable`, `OperationReturns` | operations of two threads on two planes are atomic, reach what they name, and return |
| `mem_ctrl` | `SenderStateBalanced`, `ResponsesRestored`, `RefusedResponseUntouched` | sender states balance, responses are restored, a refused response is left as DRAM offered it |
| `mem_ctrl_retry` (violation) | `RefusedRequestUntouched` | a refused request goes back with the remapped address; its retry is remapped again |
| `fabric` | `OutstandingExact`, `PacketsComeHome`, `NoLostRetry` | nothing refused is left in `outstandingReq`, packets return to their port as they left it (a refused inhibited one excepted), a refused response is put back, every refused master is told to retry although the retry passes two crossbars |
| `dma_port` | `CompletedOnce`, `PacketsOfAction`, `DrainSignalledIdle`, `ActionsComplete`, `DrainSignalled` | completion exactly once and only at the end, drain signalled when and only when idle, packets keep the tag of their action |
| `iohub_cp` | `OneRowPerLDom`, `TagFollowsTable`, `MaskAsGranted`, `ToolReturns` | with one run of the tool at a time: one row per LDom; tag and row agree; an LDom sees exactly what it was given; the tool ends |
| `iohub` | `DecodeDisjoint`, `EntriesLeadToWindows`, `WindowReached` | devices decode disjoint windows but for the top of the address space; entries that are not above their window lead to it, also after refused writes |
| `ide` | `NoPanic`, `IntrTracksState`, `DmaHasOneStep`, `TransfersComplete`, `DmaEnds` | until a busy channel is reset: no panic is reached, interrupts follow the state, a transfer has one step to come, moves the right data and ends, also after a stop, a drain or a restore |
| `prm_drivers` | `Unwound`, `RefsBalanced`, `NodesReachTheirPlane`, `OpenPlanesStay` | every error label gives back what was taken but the entry in `g_adaptor_list`; references balance; a node leads to its plane; an open plane stays unless it is unbound by hand or with its adaptor, and the driver's code stays in any case |
| `ldoms` | `PublishedWhole`, `BootComplete`, `EntriesAsProgrammed`, `InterruptsStayHome`, `NoLostInterrupt` | rows are valid only when whole, a booted domain has its own tag and memory, interrupts remapped for a domain reach it only, and those of a port whose driver had a character for each are not lost |

**Bounds, and why they are enough.**

* `tag_bridge`: limits of 2 and 5 requests let both queues fill independently, a
  request be stalled behind either, and more requests than all slots together.
* `cp_network`: two threads show every interleaving of two critical sections; two
  planes share the select register; a mapped and an unmapped address, and a
  command to a plane that handles it (650 853 states, the longest run).
* `mem_ctrl`: two tags, windows of two addresses, an address in either half and one
  beyond, and two refusals reach every window edge and a repeated retry.
* `fabric`: two ports behind TagXBar and one other master on three requests: a
  layer is busy while two ports wait, of which one stands for two; two
  destinations, so that TagXBar waits for one while the other is released, and two
  answers meet at one port.
* `dma_port`: actions of 1 to 4 bytes from an aligned or unaligned start on lines
  of 2 bytes give 1, 2 and 3 packets, and two actions overlap.
* `iohub_cp`: three LDoms on two rows fill the table; row numbers wrap after 4, so
  a scan that missed the end would go round.
* `iohub`: two windows of different sizes; two LDoms choosing among the same
  addresses below, at and above the windows, and the four values the hub lets through;
  three writes: program, disturb, move.
* `ide`: a master and a slave on one channel and a master on the other; transfers
  of two sectors, in one PRD entry or in two; two commands, so that transfers on
  the two channels compete for the port, and one disturbance (stop, control
  write or drain) at any point (122 544 states).  A state after the reset of a busy
  channel is not continued, since every property ends there.  Commands are bounded, so
  the run may stop: deadlock is not checked here.
* `prm_drivers`: a machine without planes, and one with two system planes, one of
  each other kind and one that `pardg5v` has no operations for; six device
  numbers, so that unbinding and binding exhausts them; two processes; two adaptors
  on the list, so that a removal can meet a freed one (418 000 states).
* `ldoms`: two domains on two CPUs, the first kick-started again after the second;
  two characters waiting; guests that program two entries each; the second domain's
  timer ticks, the first one's interrupts are its serial port's (471 029 states).

Where a theorem exists (section 5) the bounds do not matter.

**Where the code does not do what it says.**  Two such places are runs of the table.
For the others a property of the table carries the exception in its definition, as a
history variable (`busyReset`, `torn`, `declined`, `died`) or as a condition on the entry
or packet, and the modules contain the case; only `iohub_cp` is a run in which it does not
arise (`Serial`).  A configuration of its own
checks the property without the condition, and `tlc -config X.cfg M` gives the
counterexample in seconds:

| Configuration | Property | Counterexample, and the line it contradicts |
|---|---|---|
| `MCFabric_inhibited` | `InhibitedAlwaysSucceed` | an inhibited request finds its layer busy, is refused and loses its owner's sender state; `mem/tag_xbar.cc:72` "always succeeds for inhibited packets" |
| `MCIOHubCP_lost` | `MaskAsGranted` | two overlapping runs of `ioh` choose one row, or write back an old mask; `ioh_list.c:150` "register a new param entry" |
| `MCIOHub_unshadowed` | `WritesShadowed` | 0xFFFFFFFE passes the hub as a sizing write, the device (`pcidev.cc:430`) takes it for an address; `iohub.cc:228` "for write request to BAR register, we shadow it" |
| `MCIOHub_wrap` | `ShadowMapsToUniq` | for an address above the window the 32-bit offset wraps and leads 2^32 too far; `iohub.hh:105` "<DSid, UserAddr> ==> uniqAddr" |
| `MCIOHub_readback` | `ReadsBackOwn` | after a refused and retried BAR write the LDom reads the hub's window; `iohub.cc:243` "reture original user BAR" |
| `MCIde_reset` | `NeverPanics` | a reset leaves the event of a running DMA chain, which then finds a state that `ide_disk.cc:344` panics on |
| `MCPrmDrivers_stale` | `GetsItsAdaptor` | the removal of an adaptor bound again takes the freed entry of the first binding for its own; `init.c:386` "get control_plane_adaptor pointer from pci_dev" |
| `MCPrmDrivers_unbind` | `RemovedOnlyAtUnload` | a plane is unbound under an open file; `sys.c:64` "called when driver unload" |
| `MCLDoms_stray` | `OnlyToRequestedDSid` | a timer ticks while `ich` has stored a row's interrupt lines but not its DSid; `i82094ax.cc:282` "Only send interrupt to localApic with requested DSid" |
| `MCLDoms_noedge` | `TxInterruptsCleared` | a driver with nothing to send disables the transmit interrupt, the pin stays up and the next interrupt makes no edge; `i8250x.cc:154` "Tx interrupts are cleared on IIR reads" |

`Fabric` also ends in `died` when a `Request` that was answered by a cache above the
crossbar is reused while its entry is still in `outstandingReq`, an abort in a debug build.

**Deadlock** is checked in every other run.  `TagBridge` and `MemCtrl` have an action
`Served`, enabled only when all requests of the bounded run are answered, and
`Fabric` an action `Dead` for a failed assertion, so that any other stop is
reported.

## 4. Fairness

* TagBridge, DmaPort: scheduled events fire (gem5's queue is run until it is
  empty) and memory answers what it took: weak fairness.  A receiver that refuses
  sends a retry and does not refuse for ever: strong fairness of the successful
  send, the usual assumption on gem5 peers.  Issuing requests is not fair.
* IdeCtrl: for each disk, weak fairness of its next event or the completion of its
  DMA action, and of resuming after a drain.  The driver is not fair at all.
  That a disk which polls the shared port gets its turn is a result.
* CPNetwork: a thread within the lock keeps running (it holds a spin lock); the
  kernel's ticket lock admits a waiting thread: strong fairness of `SpinLock`.
  Calling an operation is not fair.
* IOHubCP: a started run of the tool keeps running; starting one is not fair.
* The other modules state no liveness.  `NoLostRetry` and `NoLostInterrupt` say as
  invariants that somebody is about to act.

## 5. Proofs

All theorems hold for every value of the constants that satisfies the named
assumptions; the bounds on steps (`MaxPackets`, `MaxWrites`...) are constants too.

* **TagBridge_proofs.**  `IInv` strengthens the type invariant by flow control
  (what the flags say of each queue and each peer), by the order of requests, by
  the form of a packet in flight, and by uniqueness of the ids in the three
  places a slot holder can be: slot conservation is a statement about the size of
  their union, which no action preserves unless the places are disjoint.  From it:
  `TypeCorrect`, `SlotConservation`, `BoundedQueues` (an injection of queued
  responses into slots), `InOrder`, `Routing`, `NoLostWakeup`, `RetryAccepted`.
* **CPNetwork_proofs.**  `IInv` is the type invariant, mutual exclusion, and
  `ArgsWritten`: which registers hold the owner's arguments at each of its steps.
  From it `TypeCorrect`, `LockProtects`, `CommandsCorrect`, and `Refinement`: the
  register protocol implements `ConfigService`, step by step.
* **MemCtrl_proofs.**  The invariant describes the stack and the address of a
  packet in each place (held, below, refused, delivered).  From it `TypeCorrect`,
  `StateBalanced`, `Restoring`, `Untouched` for any addresses and any window size.
* **Fabric_proofs.**  `IInv` adds to the type invariant `Recorded` (a request that
  was forwarded is in `outstandingReq`, and one that is there was forwarded or
  answered above) and `Way` (by the place a packet is in, its port and exactly the
  states its master and TagXBar pushed; the pop after a refusal is right only
  because the push is known).  From it `TypeCorrect`, `Outstanding`, `ComeHome`, for
  any ports, addresses, maps and number of requests; `ComeHome` covers the responses
  refused inside TagXBar and excepts only the inhibited requests that are refused.
  `NobodyForgotten` (that is
  `NoLostRetry`) needs a second invariant, `QInv`, of the queues: a port is in at
  most one place among all waiting lists and all owed retries (`OnePlace`), a
  layer's list and its state agree (`Lines`), TagXBar waits outside exactly when
  it holds a refused request of its own (`TagOutside`), a turn is given only
  between a release and the next call (`Turns`), and a master that waits is
  waiting where its request would go (`Waiters`, `Aimed`).
* **Devices_proofs** is about the three components that a device's DMA goes through.
  1. IOHubCP: `AssignmentTypes` and `Asked` for any number of overlapping runs.  Under
     `Serial`: `UniqueRow`, `TagsVisible`, `TagsFollow`, `AsGranted`.  The invariant says what a scan
     has established about the rows it passed, which stays true only because no other
     run writes, and that free rows have empty masks.
  2. DmaPort: lemmas on `Chunks` say that the pieces of an action follow one another
     without gap or overlap, for any line size.  From them `PortInv`: a packet is
     queued once or below, never both (`OnceIn`); it belongs to an action, with its tag
     and in its range (`Owned`); packets of one action are disjoint (`Disjoint`); they
     are counted by `pendingCount` (`Counted`); a send event or a retry is due while
     something is queued (`SendDue`); and the bytes answered plus the bytes of the
     packets outstanding are the bytes asked for (`Acked`), without which the answer
     that completes an action cannot be told from the others.  It gives
     `DmaIsolation`, `DmaCompletion` and `DrainIdle`.
  3. IdeCtrl: `DiskInv` says that a disk is in one of four phases (`Resting`, `Armed`,
     `Running`, `Aborted`), each with its ATA states, its interrupt and the number of
     its steps to come; that only the selected disk of a channel is not resting; and
     that the start and active bits tell whether it is running.  Every operation of
     IdeDisk has a lemma saying between which phases it leads.  It gives
     `InterruptsTracked` and `OneStepEach`.  `CountInv` adds what a disk has left to
     move (`Tallied`): by programmed I/O the rest of a sector and whole sectors that
     the image has (`Words`), by DMA the entries of the PRD table from the one that
     the next event or the DMA action under way is about (`Ready`, `Underway`).
     Without it nothing shows that a sector read or written is one of the image, or
     that nothing is left at the last entry.  It gives `PanicFree`.  The
     invariants hold until `busyReset` (`ResetsRemembered`: it never becomes false
     again), and so do the theorems; section 3 says what happens after it.  Hypotheses:
     `DiskAssumption`, `SectorAssumption` (sizes are natural numbers) and `TransferAssumption` (a command
     moves at least one sector); that its sectors are in the image is a guard of
     `Command`.

  Definitions of IOHubCP and DmaPort whose names the three modules would share carry
  a prefix (`CPInit`, `PortInit`, ...), so that one module can extend all of them.
* **IOHub_proofs.**  `TypeCorrect`, `Disjoint`, `LeadToWindows` and `Reached`, wherever
  the LDoms put their BARs; that an entry above its window is the exception is part of
  what the last two state.
* **PrmDrivers_proofs.**  The lemma `AllOrNothing` says of each record of steps and
  labels that an outcome has everything the function takes or nothing; it is
  applied to the functions of both modules.  `IInv` is the type invariant, what is
  held for each state of the modules (`Resources`), how bus, drivers and the probe
  under way relate (`Binding`), that numbers below the counter are used once and
  lead to bound planes (`Nodes`), that planes which are not bound hold nothing
  (`Released`), that the bound adaptor is the allocated entry of the list, `RefsBalanced`,
  and what open files pin unless their plane is `torn` (`OpenFiles`).  From it
  `TypeCorrect`, `Unwinding`, `References`, `NodeRouting`, `OpenStay`, for any
  planes, types, numbers and processes.
* **LDoms_proofs** has four layers, each resting on the one before.
  1. `BootInv`: what biosloader has copied and stored at each of its steps, that a
     valid row is whole, and that a running CPU is the one with its domain's
     number.  It gives `BootsComplete`.
  2. `IchInv`: a row of the ICH's table is whole when valid and holds just the
     words stored so far when not; rows are taken in order, one to a domain, and a
     domain whose assignment is over has a row or finds the table full for good
     (`Served`): a running guest is never given a row later.  That only the first
     four rows are used, for which there are components, is a pigeonhole argument
     (`SearchStops`): there are at most four domains.  It gives `PublishesWhole`.
  3. `ApicInv`: how far each guest has come with its four writes per entry and
     what the select register and the entry hold at each of them (`Programs`); an
     entry is programmed, or still physical and masked unless it is line 4
     (`Entries`); a port that can interrupt belongs to a domain whose serial line
     is programmed (`Enabled`), which keeps the open line 4 of power on, aimed at
     APIC 0, from ever delivering.  It gives `EntriesHold` and
     `InterruptsHome`, which is about the interrupts remapped for a domain; a message
     read outside the tables is for none.
  4. `Ports` (an enabled, pending or scheduled interrupt is consistent with the
     characters waiting) and, for the ports not `declined`, `Drivers`: what a serial
     driver relies on at each of its steps; whenever an idle driver's pin is up something
     is pending, and then the interrupt is at its local APIC.  It gives
     `NoInterruptLost`.

  Assumptions: domains are 0 to 3, which is what kickstart and biosloader accept;
  lines 4 to 7 are raised by serial ports only, as `cellx` connects them; a guest
  that opens its serial port is one whose kernel routes the serial line; a row of
  the system control plane has four segments.

Model-checked only: liveness (`StalledIsAccepted`, `OperationReturns`,
`ActionsComplete`, `DrainSignalled`, `ToolReturns`, `DmaEnds`), which is outside the
prover's reach, and `TransfersComplete` of IdeCtrl, which is about the contents of the
sectors, not only how many are left.

## 6. Plan

1. *IdeCtrl*: `TransfersComplete`, from `CountInv` and an invariant on what the sectors
   moved so far contain.
2. Snoops from below through TagXBar and the system crossbar; a composition of
   `Fabric` with `MemCtrl` for isolation from end to end.

## 7. Not modelled

* Atomic and functional accesses of the bridges and crossbars (they change none of
  the state modelled); snoops that come from below, which need gem5's caches.
* XBridge: the same queues, slots and retries as TagBridge without the stamp.
  CoherentTagXBar and PCI Express: no configuration instantiates them.
* The Ethernet tap: socket input and output.
* IDE: the interrupt status bits (set and never read by the controller), the rw
  bit, the timing registers, a sector count of 0 (meaning 256), the alternate
  status register, bus master accesses while mastering is disabled.
* PCI: power management, MSI and PCI Express capability registers, which are plain
  storage here; interrupt pins of the IO hub.
* IO APIC: ExtInt delivery, the id registers, rotation of lowest priority among
  several CPUs of a domain, an index past the table's end.
* PRM: identification strings, sysfs attributes, the printed listings of `ioh` and
  `ich`, a second adaptor; `generic.c`, `cache.c`, `memcntrl.c` of pardg5v, which its
  Makefile leaves out; `cpa-old`, which it superseded; binding the adaptor again
  while `pardg5v` is loaded; what a process does with a plane unbound under it.
* biosbuilder lays out binary tables; the test utilities exercise one system call;
  the Python configurations and the build were read to know what is connected.

An LDom that moves a BAR and gives its old address to another keeps reaching the
first device, since the hub never takes a range out of its map and drops one
that meets an old range; `WindowReached` is about the LDoms that do not.

**Smaller hazards that no property covers**, found while reading: the mapper's hook
runs again after a refused response (`mem/tag_addr_mapper.cc:159`; it writes the
same value); two valid rows that name one device (`dev/pard/iohub_cp.cc:125`;
`TagFollowsTable` is stated for the others); an unsigned bound that underflows on an
empty statistics entry (`iohub_cp.cc:155`); an `int` shift tested against a 64-bit
mask (`arch/x86/pardg5v_system.cc:101`); a redirection index one past the table
(`dev/cellx/i82094ax.cc:174`); rows routed without `FLAG_VALID`
(`dev/cellx/ich_cp.cc:134`; no row is ever retired); two `ich --irqmap` on one word
(`system/utils/ich/ich_list.c:106`); snoop requests that bypass the push which the
snoop response pops (`mem/tag_xbar.hh:131`); the direction bit of the bus master
(`dev/pard/ide_ctrl.cc:395`; read nowhere); the command register of a connector, which
executes its command again when it is read (`prm/CPConnector.cc:130`; the driver never
reads it); the adaptor's spin lock, held while planes are registered, which may probe
them (`system/modules/cpa/init.c:349`; only with `pardg5v` loaded before `cpa`, against the
module dependency); the stamp of CoherentTagXBar (`mem/coherent_tag_xbar.hh:77`, as in
TagBridge).
