# TLA+ models of eBoot

eBoot is a two-stage bootloader with two application slots (A and B), trial
boots with automatic rollback, an anti-rollback counter in fuses, a recovery
mode, and firmware update over a UART. What makes it hard is not any one
function: it is that power can fail between any two flash operations, that
three programs (stage-0, stage-1, the application) take turns on the same
persistent record, and that an update arrives over a line that loses and
repeats. These modules model that part and check it.

## Inventory

| Component | State | Operations | Hard part | What makes it correct |
|---|---|---|---|---|
| Boot control block (`core/bootctl.c`) | two flash copies of one record | load, save, and the edits (attempts, pending, confirm, recovery and factory-reset requests) | a save is four flash operations; power fails or flash errors in between | a load returns the last record written |
| Stage-0 (`stage0/`) | none of its own | reset, recovery trigger, check and jump to stage-1, start the watchdog | every reset passes here | a requested recovery or factory reset is not bypassed |
| Stage-1 and boot policy (`stage1/`, `core/boot_policy.c`) | RAM copy of the block, cached slot states | scan, select, count the attempt, jump | edits some of which are saved and some not; limits checked in one function and counted in another | bounded trials, an image that hangs is replaced |
| Slot manager (`core/slot_manager.c`) | contents of the slots | verify, erase | an erase that fails half-way | only a verified slot is started |
| Anti-rollback (`core/rollback.c`) | fuse counter, staged value in RAM | verify, stage, commit | fuses burn one at a time and never go back | the floor follows confirmed images and no others |
| Firmware services (`core/fw_services.c`) | the application's copy of the block | confirm, request upgrade / recovery / factory reset | a copy loaded once and saved whole | a confirm names the image that runs |
| Update pipeline (`core/fw_update.c`) | update context | begin, write, finalize, abort | input cut anywhere; the slot to erase may be the one in use | the running slot is never erased, the slot bound holds |
| UART transports (`core/fw_transport_uart.c`) | locals of the receive loop | raw, XMODEM, YMODEM receive | lost answers, repeats, padding, 8-bit block numbers | flash holds the file, once and in order |
| Recovery mode (`core/recovery.c`, `tools/uart_recovery.py`) | authentication state and failure count, the block | enter, factory reset, challenge and response, operator commands | no framing, two programs that wait for each other, a factory reset cut short at any point | nothing changes without the secret; an accepted factory reset is final |
| Boot log (`core/boot_log.c`) | flash ring, head in RAM and in the block | append, clear, read out | NOR cells that are not erased on wrap, a head that was not saved | entries are kept and read in order |
| Image header and TLV (`core/image_*.c`) | none | bounds checks, TLV walk | 32-bit arithmetic on untrusted sizes | what is accepted lies inside its slot |
| Key store, secure boot (`core/keystore.c`, `core/secure_boot.c`) | key slots, OTP, attestation record | open, revoke, verify, close the debug port | every OTP access can fail on its own, and "no OTP" is not a failure | a fault never selects another key; a revocation in OTP stays |
| Streaming cryptography (`core/crypto_boot.c`, `sha512.c`, `fw_decrypt.c`) | partial block, counts | update, final | data cut anywhere | the result does not depend on the cuts |
| Multicore (`core/multicore.c`) | core table | start, stop, reset | a slot rewritten while a core runs | a core runs only what was verified |
| Runtime services (`core/runtime_services.c`) | variable array, next boot slot | set, get, delete | shifting and reuse of places | the array is a map |
| Boards (`boards/`, `hal/`) | registry, active board, flash regions | register, detect, activate, erase, write | sector boundaries, partial erase, 83 layouts | an operation touches its own region |
| Device table (`core/device_table.c`) | table | init, add, finalize, validate | changed after it was sealed | a valid table is the sealed one |
| Memory protection (`core/mpu_boot.c`, `rtos_boot.c`) | region list, unit | profiles, add, apply, disable | power-of-two encoding, regions that overlap, remains of an earlier profile | what is locked stays locked; an address gets what was asked for it |
| Device tree (`core/fdt_loader.c`) | position of the walk | get a property | a walk without a stack over any blob | the property is of the node asked for |
| Curve and block-cipher arithmetic, clocks, DRAM, PCI, OS hand-over | registers, buffers | - | arithmetic or register I/O | not modelled: see the end |

Interactions: stage-0, stage-1 and the application never run at the same
time, but each loads the block, keeps a copy and may save it. The jump stages the
image's security counter in static data of stage-1, where the code that runs in the
application expects it. The application
drives the update pipeline, which reads the block to learn which slot is in
use, and the transport feeds the pipeline.

## Modules

- `AtomicBlock` - what the control block promises: one durable record; a save
  takes effect at one instant or not at all.
- `BootCtl` - the two flash copies behind it. One action per flash operation
  of `eos_bootctl_save()`; each can report an error (having worked or not) and
  power can fail between any two. `durable` and `faults` are history: the last
  value written to the primary, and the faults since the copies agreed. It is
  shown to implement `AtomicBlock`.
- `BootCtl_proofs` - its theorems.
- `Boot` - one device from reset to application and back. `primary` and `backup`
  are the copies of the block in flash, `nv` what a load returns from them, `bctl`
  the copy of the program that runs, `slots` the flash, `floor` the fuse counter,
  `pc` the place in the code. One action per function of stage-0, stage-1, the
  policy, the services, the update and recovery. `Reset` may happen between any two
  actions and loses RAM; `PowerLossInSave` is power loss inside any of the saves
  those actions make, and leaves the primary erased, the primary written, or the
  backup erased (`Stopped`). `cuts` counts the saves cut short since the last
  complete one and `MaxCuts` bounds it. `condemned`, `proven` and `starts` are
  history variables that the properties need.
- `MCBoot` - images for the instances: two good ones with counters 1 and 2,
  one that hangs, one whose TLV area is damaged.
- `Boot_proofs`, `Boot_updates_proofs` - theorems about `Boot`.
- `FwUpdate` - operators for the update context: how a container is cut into
  header, payload and TLV area, what reaches flash, what a call returns.
- `Transport` - the three receivers on top of `FwUpdate`, a sender, and a line
  that loses, damages, and delays. Units of the file are their own positions,
  so a repeated, skipped or padded unit in flash is visible.
- `Recovery` - the session: its entry, which may carry out a factory reset that an
  application asked for, the device's command loop and authentication, the
  client, and a line of units that loses and damages. A unit is what a packet
  takes; a digest and a chunk are several, and whatever the command loop reads
  of them is an arbitrary packet. `Client` chooses between the repository's
  client and one that follows the firmware (and its unit test).
- `BootLog` - the ring. A cell is the set of entries programmed since it was
  erased, so that the AND of overwritten cells can be read back.
- `SecureBoot` - key store, signature check and secure boot driver over an OTP
  whose every access may fail.
- `ImageCheck` - header, slot bounds and TLV walk in arithmetic modulo `Word`.
- `Streams` - how three algorithms cut, buffer and pad their input. The block
  functions are not interpreted; the properties compare the sequence of blocks
  with the standard's.
- `Multicore`, `Mpu`, `Fdt` - the component of that name.
- `VarMap`, `Services` - the map that the variable services promise, and the
  array that implements it.
- `BoardPorts` - the 83 ports as data: layout, driver, device table. `Boards` -
  registry, HAL flash operations and device table over them.
- `MCUnits` - `BootCtl` and the parts from `BootLog` on, side by side: a behaviour is one of
  exactly one part, so their state spaces add up.
- `Transport_proofs`, `Recovery_proofs` - theorems about the module of that name;
  `Verify_proofs` about `SecureBoot`, `ImageCheck`, `Multicore` and `Streams`,
  `Store_proofs` about `BootLog` and `Services`, `Hw_proofs` about `Fdt`, `Boards`
  and `Mpu`. Each of the parts below `MCUnits` has a specification of its own
  (`LogSpec`, `KeySpec`, `ImageSpec`, `McSpec`, `StreamsSpec`, `SvcSpec`, `FdtSpec`,
  `BoardsSpec`, `MpuSpec`) that the theorems use.
- `MCTransport` - the files offered: good ones and one for each way a file or
  its declared size can be wrong.

A save of `Boot` is one step that completes, reports an error or is cut short, with
the outcomes of the flash operations that `BootCtl` has one at a time.
`Boot` sees an update as an image that arrives whole, or not; `Transport` and
`FwUpdate` have the stream. Operators whose name ends in a capitalised
suffix after an underscore (`Repeated_Never`) are deliberately wrong variants
of the definition that follows them; putting one in place of the definition
breaks the property it is paired with in `PROJECT.json`.

## Runs

| Run | Checks | Instance |
|---|---|---|
| `bootctl_power_loss` | `LoadReturnsDurable` (violated) | two power losses in a row, no flash errors |
| `boot_faults` | `TypeOK`, `FloorWithinProven`, `FactoryResetHonoured` | two images, both upgrade modes, forced recovery, one flash error, one save cut short, fuse step 1 |
| `boot_updates` | `BoundedTrials`, `RunningSlotIntact`, `ConfirmNamesRunning`, `HungImageReplaced`, `FactoryResetCompletes` | three images (good, hanging, damaged), test mode, one save cut short, with fairness |
| `boot_floor` | `FloorRaisedOnConfirm` (violated) | two images, no faults |
| `boot_rollback_target` | `RollsBackToConfirmed` (violated) | two images |
| `boot_last_resort` | `RecoveryIsLastResort` (violated) | two images |
| `boot_permanent` | `RunningSlotIntact` (violated) | permanent mode |
| `transport` | `TypeOK`, `FlashIsPrefix`, `CutIsIrrelevant`, `SuccessIsWhole`, `WithinSlot`, `Completes` | eleven files, three protocols, three troubles |
| `recovery` | `TypeOK`, `OneAnswerPerChallenge`, `WrongAnswersBounded`, `SuccessIsTrue`, `ChangesAreAuthorised`, `ClientCompletes` | boards with and without secret and entropy; uploads and factory resets by operators with right and wrong secrets; one trouble |
| `recovery_tool` | `ClientCompletes` (violated) | the repository's client on a perfect line |
| `units` | the eighteen properties below | see below |
| `mpu_granted` | `GrantedAsAsked` (violated) | the boot loader's own profiles |

`units` asks of each part: `OneFaultKeepsBlock` and `BlockIsAtomic` (the two copies
implement `AtomicBlock` with one fault between complete saves); `NoLogGap`, `SavedEntriesKept`, `ReadOutInOrder` (boot
log); `SignedByTrustedKey`, `RevokedStaysRevoked`, `AttestationTells` (keys and
secure boot); `AcceptedImageInSlot`, `TlvEntriesInside` (images);
`CutsDoNotMatter` (streams); `CoresRunVerified` (cores); `StoreIsMap` (the
variable array implements `VarMap`); `RegionsKept`, `TableTells` (every port on
its own, and three in one build); `LockdownHolds` (memory protection);
`PropOfNodeAsked` (device tree); and `UnitsTypeOK`.

Bounds. `MaxAttempts = 2` is the smallest limit that tells "the last attempt"
from "the first"; the code's limit is only compared with and counted to. Two
slots are the code's own number. Two security counters are enough for one
image to be below another's floor, and `MaxStep = 1` puts the commit's limit on
the edge. One flash error per behaviour already meets every error branch;
`Boot_proofs` covers any number. `MaxCuts = 1` is a bound of what the code promises
and not only of the search: with `MaxCuts = 2` TLC finds a factory reset that is
forgotten (`FactoryResetHonoured`) and an attempt too many (`BoundedTrials`). A save
cut after the erase of the backup and the next one cut after the erase of the
primary leave no valid copy, and the load returns defaults. Four block values let
`units` tell the defaults, the old, the new and an older value apart. In `transport`, header 2, slot 7, blocks of 2
and 3 put block boundaries inside the header, the payload and the TLV area;
block numbers modulo 4 make them wrap in a four-block file; three troubles
include a lost answer followed by the loss of its repeat. A counter that is
modelled modulo 4 can confuse blocks that are four apart, which takes more
delayed frames than the bound allows, as 256 would.

In `recovery` two wrong answers lock a session (the code's five are only compared
with and counted to), three runs of the client allow one more than that, and two
units per digest and one per chunk let a boundary fall inside a digest. One slot
is enough because the client names one; a stray packet that names the other is
refused or changes it under the same conditions. In `units` the ring has three
cells and four appends, so it wraps onto written cells; words are 16 values wide
with slots at the upper end of the range, so that every sum can wrap; blocks are
4 bytes and data up to 11, so that padding does and does not need a block more;
three names compete for two places; a tree has depth five and paths of up to two
names that share a prefix. The key store has the code's two slots, the MPU the
code's regions, the ports the code's own numbers.

Deadlock is checked except in `transport`, `recovery` and `units`, whose
transfers, operators and calls come to an end.

Fairness. `boot_updates` assumes that the watchdog resets an application that
hangs (stage-0 starts it and nothing stops it), that each boot and wipe step is
taken when nothing keeps it from it (weak fairness: there is no waiting in the boot
path), and that power fails any number of times, inside saves too, but not for ever
(`<>[][~PowerFails]_vars`). It assumes nothing of the application. In
`transport` the receiver polls its UART in a loop and the sender repeats what
is not answered; the line is never obliged to misbehave or to stop. In
`recovery` device and client are loops that run and whose reads time out, so each
of the two is weakly fair; starting a client, the line and the flash are not.

`ClientCompletes` promises nothing on a board without secret or entropy, to a
client that starts while the device waits for another's digest, after a lock-out
or during a back-off longer than the client's timeout of 5 s.

Where `Completes` stops. It makes no promise when the sender stops, an answer
comes later than the sender's timeout, flash fails, the receiver times out, or
an XMODEM acknowledgement is lost. The last is a limit of the code:
`xmodem_receive()` refuses a repeated block, which `ymodem_receive()`
acknowledges, so sender and receiver then repeat block and NAK without end.

A file shorter than its container can be completed by XMODEM padding.
`SuccessIsWhole` speaks of length, `FlashIsPrefix` says where padding may be;
it is the hash check of finalize that refuses such an image.

### Where the code and its documents differ

- `bootctl_power_loss`: a load that finds a valid primary does not repair the
  backup. A save cut after the erase of the backup, and the next one cut after the
  erase of the primary, lose the last value written, against "protects against
  power loss during metadata updates".
- `boot_rollback_target`: exhausted attempts roll back to the slot that is not
  active, not to `confirmed_slot`.
- `boot_last_resort`: an image below the floor or with a damaged TLV area is
  selected by the scan and refused by the jump, and the device enters recovery
  although the other slot is startable.
- `boot_floor`: the staged counter (`core/rollback.c:17`) is static data of stage-1,
  and neither a linker script nor a service table shares it with an application. One
  that links its own copy of `core/rollback.c` confirms without raising the floor,
  against the table of `docs/secure_boot_chain.md`. `boot_faults` sets
  `StagedSurvives`, so that the fuses burn and `FloorWithinProven` is put to the test.
- `boot_permanent`: a permanent upgrade moves `active_slot` at once, so a second
  update before the reset erases the slot the application runs from.
- `recovery_tool`: the device reads a digest only after a second AUTH packet, as
  its unit test sends it. `tools/uart_recovery.py` sends the digest alone; the
  device takes it for commands and the client never authenticates.
- `mpu_granted`: `eos_mpu_apply()` says "log2 - 1" and computes log2, so every region
  is twice as large as asked for. In the bootloader profile the data region, which
  wins, takes execution from the code below it; the lockdown profile also locks the
  first 128 KiB of the application. Neither has a caller yet. `LockdownHolds` says
  what can be relied on all the same: the boot loader's flash is locked.

Seen while modelling, and not shown by a run of its own:

- `eboot_jump_to_app()` announces "MPU lockdown: restrict bootloader memory" and
  applies the default profile, in which the boot loader's flash is readable.
- Without OTP, which no board under `boards/` has, `eos_keystore_revoke_slot()`
  returns `EOS_OK`, and the next `eos_keystore_init()` hands the key out again.
  `RevokedStaysRevoked` speaks of boards with OTP.
- The x86 port declares 16 MiB of flash at 0xFFF00000, past the end of the address
  space, and slots below that base; the powerpc port's flash ends past 2^32 too.
  `TableTells` says nothing of the layout of these two.
- `eos_slot_mark_booting()` and `eos_slot_confirm()` are called by tests only.

- In privileged mode `rtos_boot.c` asks for 2 MiB from `entry & 0xFFF00000`. The
  region is a block of 4 MiB, so it stops 1 MiB short when that address modulo 4 MiB
  is 3 MiB. An RTOS heap or a region of a platform that is not aligned to its rounded
  size is cut off in the same way; the code checks neither, and the model has both.
- A client of the recovery session that times out during a long back-off leaves its
  AUTH in the device's input; the client after it takes the answer for its own (see
  `SuccessTold` below).
- The fourth step of `eos_secure_boot()` refuses every board whose root of trust
  is provisioned, as its comment says.
- Ports with less than 384 KiB of flash place slots beyond its end, several ports
  share a board identifier, and RAM of 4 GiB and more is cut off to 32 bits in
  the device table. `TableTells` speaks of the flashes that are large enough.
- On ports whose flash driver does nothing, erase and write report success.
  `RegionsKept` leaves them out.
- A board's `reset_core` restarts a core without looking at its slot again;
  `CoresRunVerified` leaves such boards out.
- In the log, an entry overwritten by another reads back as the AND of both; an
  event that becomes 0 that way is dropped by the read-out, and
  `ReadOutInOrder` excludes it.

## Proofs

Every theorem holds for every value of the constants that satisfies the named
assumptions of the modules (`ImageAssumption`, `BootAssumption`,
`LineAssumption`, ...), not only for the instances of the runs: any images and
counters, attempt limits, lengths of slots, headers and blocks, files, trees and
faults. The assumptions are types and what the code fixes (a ring is not empty,
small blocks are not larger than big ones, a fuse step is not 0). Where a theorem
needs more, the hypothesis is written in its statement.

**`BootCtl_proofs`.** `OneFaultKeepsBlock` speaks of the moments between saves and
is not inductive: a state in the middle of a save says nothing about what the
sectors hold. `IInv` adds what each point of a save guarantees: before the
primary is erased the copies still give the durable value (`IdleInv`); while it
is blank the backup carries it (`BlankPrimaryInv`); once it is programmed it
carries the new one while the backup is replaced (`NewPrimaryInv`). From it
follow `OneFaultSafety` and `Refinement` (`BootCtl` implements `AtomicBlock`
when `MaxFaults <= 1`; `bootctl_power_loss` shows that the bound is needed).

**`Boot_proofs`.** `IInv` is `TypeOK` with three parts. `CopiesInv` says that the
copies of the block agree after a complete save. `ControlInv` says which variables
mean something at each place, and that the jump is reached only with an attempt
left, without which the attempt counter would leave its range. `FloorInv` says that
the running image is not below the floor, that what is staged is that image's
counter, and that the floor moves only for the image just confirmed; `FloorSafety`
follows, however many saves are cut short.

`FactoryResetSafety` has the hypothesis `OneCut`, that at most one save between two
complete ones is cut short. Under it a save that is cut leaves what a load returns
as it was, or at the new value (`CutKeepsBlock`, the counterpart of `BootCtl`'s
refinement). `ResetInv` says that an outstanding factory reset is named by the
durable block *and* by the copy of whoever may save it next, so that no boot gets
past stage-0 and no whole-record save drops it. The steps are one lemma per part
(`TypeStep`, `ResetStep`, `FloorStep`) with one case per action.

**`Boot_updates_proofs`.** Three theorems about updates, on a device whose flash
reports no errors (`NoFlashErrors`) and under `OneCut`; power may fail anywhere.
Neither hypothesis can be dropped: `eboot_jump_to_app()` ignores the result of the
save that counts the attempt and moves the active slot, so one lost save leaves the
durable block behind what runs, and two saves that are cut short forget the count.
`CopyInv` says that the application's copy is the durable block; `CountedStarts` that
the starts of a slot nobody vouched for are counted by the durable attempts, or that
the policy has just turned to the other slot; `TrialsAreBounded` follows. `SlotInv`
says that the application runs from the active slot and that an update under way has
another target; from it `RunningSlotSafety` and `ConfirmSafety`, without the
permanent mode, for which `boot_permanent` is the counterexample.

**`Recovery_proofs`.** `TypeInv` types the queues unit by unit, and in particular
says that a digest with the right secret on the line was computed by a client for
a challenge it was sent. `AuthInv` ties authentication state, challenge and
failure count to the place in the code; `ComparedInv` says that a challenge that
still waits was not compared before; `WrongInv` that the wrong answers heard are
at most the failures counted, and below the limit once the session is open.
`TypeCorrect`, `OneComparison`, `GuessesAreBounded` and the action property
`AuthorisedChanges` follow, for any number of slots, chunks, failures, client
runs and line faults. A new session is the one place where slots and block change
without an answer: `eos_recovery_enter()` carries out the application's factory
reset, and the theorem says so.

`SuccessTold` says that a client which found the device idle and met no trouble
tells the truth when it reports success. The invariant follows one exchange through
its stages and says at each of them what is on the line in either direction, down to
the unit: what the device has answered is what the client has not read, and nothing
else is under way. A client is `OnCourse` as long as device and line are where its
own commands put them, `Refused` once the next answer it reads is an error, and
`Unanswered` once nothing is under way that could answer it. The hypothesis that the device was idle is needed. After four
failures the device waits out a back-off longer than the client's timeout; a client
that gives up meanwhile leaves its AUTH behind, and the next one takes the answer to
it for its own. The instance of the run locks the session before it backs off that
long; the proof for any `SlowFrom` and `MaxFails` brought it up.

**`Verify_proofs`.** Cores: `McInv` says of each core what it was started with
(`CoresAreVerified`). Keys and secure boot: `KeyInv` says that every revocation
reported on a board with OTP is in the fuses (`OnlyTrustedSigners`,
`AttestationIsVerdict`, `RevocationLasts`: no failing read selects a key that a
good one would exclude). Images: `ImageInv` says where the TLV walk stands
relative to the area and to what it yielded; `AcceptedInSlot` and
`EntriesInside` hold for every word width, sums wrapping.

Streams: `StreamsInv` says that the context is a function of how much data came:
the whole blocks were absorbed, the rest is in the buffer (`HashAt`; what lies behind
the rest is old data), and for GCM that the plaintext so far used the key stream at
its own places (`GcmAt`). The update loops are functions defined by recursion on the
pass. `Iterated` shows that such a function exists, `LoopEnds` that a loop which
takes a byte in every pass is over in time; both argue by a least counterexample
(`NatMin`), since the provers have no induction. `Sha256Taken`, `Sha512Taken` and
`GcmTaken` say what an update does, `ShaFinal` and `GcmFinal` that padding or length
complete the standard's input. `PiecesMakeTheWhole` follows for any block size, any
length field shorter than a block and data of any length.

**`Store_proofs`.** `LogInv` adds to `NoLogGap` that the head in RAM is never
behind the saved one before the ring comes round; that is what keeps saved
entries from being programmed again (`LogHasNoGap`, `SavedEntriesStay`). `SvcInv`
says that the used places of the variable array are its first ones and that
names in them differ; with it every call of the services is a step of `VarMap`
or leaves the map as it is (`StoreImplementsMap`).

`LogIsReadInOrder` covers the read-out after the ring came round. `RingInv` says
which entry each cell got last, going back from the head (`RingFrom`); the read-out
loop is a function defined by recursion on the position, and a least position at
which its output is not the written cells in order leads to a contradiction.

**`Hw_proofs`.** `MatchedPrefix` says that the walk's counter is the length of the
longest prefix of the path that the open nodes match, which is what a stack of
open nodes would have told; `TargetOpen` that the target is open exactly while
that prefix is the whole path (`PropertyOfNode`). `TableInv` says how a table and
the sealed one relate; `TableIsTold` adds the arithmetic of the layout over all
ports. The layout lemma needs flash of whole KiB, as every port has: 384 KiB and
one byte would make slot B and the recovery area coincide.

`RegionsAreKept` is about the flash of the same ports. All but two clear nothing
(`IdlePorts`); on `riscv64_virt` an erase clears exactly what was asked for, and on
the STM32F4 each region begins with a sector and has its sectors to itself, so
that an erase which stops after any sector stays inside it (`SectorErase`). The
boot loader's own image ends where the first region begins (`BootEnds`). `FlashInv`
adds that the region of the last successful erase stays cleared until the next
operation, since the property speaks of the last operation on later steps too.

`MpuInv` says that the first regions of the unit hold what was asked for last, as
the code encodes it, and that whatever an earlier and longer profile left behind
them is the system region or one that a platform added. Behind the locked region of
the lockdown profile there is then nothing that reaches the boot loader's flash
(`BootLoaderLocked`), for any heap, stack and entry point of an RTOS before it and
any added regions that keep away from that flash. Powers of two are written out
(`TwoTo`), as the provers have no exponentiation; sizes of 4 GiB and more, which
they do not reach, do not fit the code's 32 bits either.

**`Transport_proofs`.** `ContextInv` says what each state of the update context
says of its counters and of the flash; `PassInv` what a pass of the loop of
`write_container_bytes()` leaves; `BaseInv` types sender, receiver, line and
queues and says what a result of the receiver means. `NothingBeyondSlot` and
`SuccessBringsAll` follow, for any protocol, cuts, declared sizes and amount of
trouble.

`FlashHoldsTheFile`, `TransferTyped` and `CutsMakeNoDifference` need to know that
the receiver never takes a block for another whose number is the same modulo
`BlkMod`. `LineInv` therefore counts blocks without the modulus: the sender has
block S outstanding, the receiver expects E, and each frame under way has a
number between E - 1 and S, in order and without gaps (`Numbers`); a block with
number m carries the units from `at[m] + 1` to `at[m + 1]` (`Carries`). That keeps
E at or behind S + 1, but not S near E: a late answer makes the sender skip a
block that the receiver lacks. `Budget` bounds this. Frames and answers under way
are at most one more than the troubles so far, and if no readable frame of the
expected block is under way, the sender is ahead, acknowledgements it has yet to
read included, by fewer blocks than there were troubles. So with fewer troubles
than block numbers (`FewTroubles`, a hypothesis of the three theorems) equal
remainders are equal numbers (`NotDeceived`). `RawLine` is the counterpart for
the raw protocol, which has one frame under way at a time. Together with what was
received (`StreamInv`) this is `ProtocolInv`; its step has one lemma for each kind
of step at the receiver, the sender and the line.

The receiver tells a block from its neighbours by the number modulo 256, and with
as many troubles as there are numbers it can be deceived: TLC finds no violation
of `FlashIsPrefix` with 2 numbers and 1 trouble or 3 and 2, and one with 2 and 2
or 3 and 3. So the bound `MaxTrouble < BlkMod` is sharp; for the code it takes 256
lost or late frames and answers in one transfer. The `transport` run has 4 and 3.

### Only model-checked

- `HungImageReplaced`, `FactoryResetCompletes`, `Completes`, `ClientCompletes`:
  liveness under fairness is outside the prover's reach.
- `UnitsTypeOK`: it joins the types of the parts that `MCUnits` puts side by side.
  The parts whose types matter to a theorem have them in their invariants.

## Abstractions

- A block, an image and a file unit are values; CRC, hash and signature checks
  are verdicts. An interrupted or partial erase or write of a slot is a slot
  that does not verify.
- Counters, versions, CRCs and the reset reason in the control block are
  written and reported, never read for a decision, and are left out. So is the
  log head; saves that only store it (stage-0's, and the second one of
  `eboot_jump_to_app()`) are there as saves that can fail or be cut short.
- The recovery operator of `Boot` has authenticated; `Recovery` says how. In
  turn `Recovery` has of slots and block only what was last written to them.
- An entropy source never repeats a challenge.
- A failed OTP read returns an error; a read that returns wrong data is not
  modelled.
- In `Recovery` an application's factory reset is an input of the entry, whole or
  stopped at an erase or save that fails; `Boot` has its steps. Of the entry's first
  save nothing is left there, since `FORCE_RECOVERY` and the log head are not in `ctl`.
- Damage on the line of the raw protocol, which has no check of its own, is left to the
  verification of the image.
- `Mpu` has access and execution of a region; cache attributes are left out.
- The update loops of `Streams` and the read-out loop of `BootLog` are functions of
  the number of passes; a pass after the last one changes nothing.
- Boards without a monotonic counter are not modelled; there the floor checks
  are compiled to "not supported".
- A frame damaged so that its block number and the complement still agree but
  are wrong is not modelled.

## Plan

1. *(done)* control block, its abstract specification, refinement and proof.
2. *(done)* the boot cycle with rollback, floor, services, update, recovery;
   safety and progress; type, floor and factory-reset theorems; power loss inside
   the saves.
3. *(done)* update stream and UART transports.
4. *(done)* recovery session with its client.
5. *(done)* boot log; header bounds and TLV walk; key store and secure boot;
   streaming cryptography; cores; runtime variables; boards and device table;
   memory protection; device tree.
6. *(done)* theorems: `BoundedTrials`, `RunningSlotIntact` and
   `ConfirmNamesRunning` in `Boot`; the safety of `Recovery`, of the boot log,
   keys, images, cores, variables, device tree and device table; all invariants of
   `Transport`.
7. *(done)* theorems about what took longer: `SuccessIsTrue` of `Recovery`,
   `ReadOutInOrder` of the boot log, `LockdownHolds` of the memory protection and
   `CutsDoNotMatter` of the streams.

## Not modelled

The rounds of SHA-2 and AES, Galois-field and curve arithmetic (out of reach of
model checking); clock, power, DRAM, PCI and ECC initialisation and the debug-lock
registers (register values written once); RTOS parameter marshalling, storage
registration and the boot menu; inter-processor messages, which are passed to the
board; UART, clock and watchdog registers of the board files; generated and
vendored code. They hold no state that a later decision of the modelled parts
reads.
