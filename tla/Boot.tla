-------------------------------- MODULE Boot --------------------------------
(***************************************************************************)
(* One device from reset to application and back: stage-0, stage-1 with    *)
(* its boot policy, the anti-rollback floor, the firmware services an      *)
(* application calls, the install of an update, and recovery mode.         *)
(*                                                                         *)
(* Power can be lost anywhere.  An action writes one slot, one fuse or one *)
(* boot control block, so Reset covers power loss between two writes and   *)
(* PowerLossInSave the one inside a save of the block, which erases and    *)
(* writes the primary copy and then the backup.  Module BootCtl has that   *)
(* save one flash operation at a time.  Two saves in a row that are cut    *)
(* short can leave no valid copy; MaxCuts bounds them.                     *)
(***************************************************************************)
EXTENDS Integers, FiniteSets

CONSTANTS
  Image,            \* signed images that can be written to a slot
  ImageCounter,     \* the authenticated EOS_TLV_MIN_SEC_VER of each image
  BadTlv,           \* images whose TLV area does not match the signed header
  Hung,             \* images that stop feeding the watchdog once started
  FactoryImage,     \* the image in slot A when the device leaves the factory
  Blank,            \* contents of a slot no image can be verified in
  MaxAttempts,      \* EOS_MAX_BOOT_ATTEMPTS
  MaxStep,          \* EOS_ROLLBACK_MAX_STEP
  Modes,            \* upgrade modes the application uses
  StagedSurvives,   \* the staged counter outlives the jump to the application
  MaxFlashFaults,   \* bound on the flash operations that report an error
  Corrupt,          \* a copy of the block that is erased or does not match its CRC
  MaxCuts,          \* bound on the saves cut short between two complete ones
  ForcedRecovery    \* the recovery pin or a stage-1 mismatch may divert a boot

ASSUME ImageAssumption ==
  /\ ImageCounter \in [Image -> Nat]
  /\ BadTlv \subseteq Image
  /\ Hung \subseteq Image
  /\ FactoryImage \in Image
  /\ Blank \notin Image

ASSUME BootAssumption ==
  /\ MaxAttempts \in Nat \ {0}
  /\ MaxStep \in Nat \ {0}
  /\ Modes \subseteq {"TEST", "PERMANENT"}
  /\ StagedSurvives \in BOOLEAN
  /\ MaxFlashFaults \in Nat
  /\ MaxCuts \in Nat
  /\ ForcedRecovery \in BOOLEAN

Slot == {"A", "B"}
None == "NONE"

Flag == {"FORCE_RECOVERY", "TEST_BOOT", "CONFIRMED", "ROLLBACK",
         "FACTORY_RESET", "UPGRADE_PENDING"}

(* The fields of eos_bootctl_t that boot decisions read.  The counters,    *)
(* versions, CRCs and reset reason are reported and never read back; the   *)
(* log head is left to the boot log.                                       *)
ControlBlock ==
  [active : Slot, pending : Slot \union {None}, confirmed : Slot \union {None},
   attempts : 0..MaxAttempts, flags : SUBSET Flag]

Defaults ==
  [active |-> "A", pending |-> None, confirmed |-> None,
   attempts |-> 0, flags |-> {}]

ASSUME CorruptAssumption == Corrupt \notin ControlBlock

NotStaged == -1     \* g_staged_valid is false

VARIABLES
  primary,      \* the copy of the control block at ops->bootctl_addr
  backup,       \* the copy at ops->bootctl_backup_addr
  cuts,         \* saves cut short since the last complete one
  slots,        \* what the flash of each slot holds
  floor,        \* the device's monotonic counter
  pc,           \* where the running program is
  bctl,         \* its copy of the control block
  target,       \* the slot selected, then the slot the application runs from
  running,      \* the image that was started, Blank before the jump
  staged,       \* g_staged_counter, NotStaged when not valid
  upd,          \* the update context: its state and target slot
  faults,       \* flash operations that reported an error so far
  condemned,    \* history: slots that held an image when a factory reset was accepted
  proven,       \* history: the last image an application confirmed
  starts        \* history: the slot an attempt was counted for last, and how
                \* often in a row since an application vouched for an image
                \* or recovery was entered

copies == <<primary, backup, cuts>>

vars == <<primary, backup, cuts, slots, floor, pc, bctl, target, running, staged,
          upd, faults, condemned, proven, starts>>

NoStarts == [slot |-> None, n |-> 0]

NoUpdate == [state |-> "IDLE", slot |-> None]

BootPcs == {"stage0", "stage1", "select", "jump", "handover"}
AppPcs == {"app", "commit"}
RecoveryPcs == {"enter", "wipe_a", "wipe_b", "wipe_save", "recovery"}

eos_bootctl_other_slot(s) == IF s = "A" THEN "B" ELSE "A"

(* The durable block: what eos_bootctl_load() returns from the two copies. *)
nv == IF primary # Corrupt THEN primary
      ELSE IF backup # Corrupt THEN backup
      ELSE Defaults

(* A header that parses, fits its slot, matches its hash and is signed.    *)
Verifies(content) == content # Blank

(* What eboot_jump_to_app() requires beyond that: the counter can be read  *)
(* and is not below the device's floor.                                    *)
Startable(content) ==
  /\ Verifies(content)
  /\ content \notin BadTlv
  /\ ImageCounter[content] >= floor

(* Blank sectors, or a block written in production.                        *)
Init ==
  /\ primary \in {Defaults, Corrupt}
  /\ backup = primary
  /\ cuts = 0
  /\ slots = [s \in Slot |-> IF s = "A" THEN FactoryImage ELSE Blank]
  /\ floor = 0
  /\ pc = "stage0"
  /\ bctl = Defaults
  /\ target = None
  /\ running = Blank
  /\ staged = NotStaged
  /\ upd = NoUpdate
  /\ faults = 0
  /\ condemned = {}
  /\ proven = Blank
  /\ starts = NoStarts

(***************************************************************************)
(* Flash.  A save stops at the first operation that reports an error, with *)
(* or without its effect; an erase that reports an error has blanked the   *)
(* slot or has not.                                                        *)
(***************************************************************************)
FlashOk == UNCHANGED faults

FlashFails == faults < MaxFlashFaults /\ faults' = faults + 1

SaveCompletes(b) ==
  /\ primary' = b
  /\ backup' = b
  /\ cuts' = 0

(* What a save of b leaves that stops with the primary erased, with the    *)
(* primary written, or with the backup erased.                             *)
Stopped(b) == {<<Corrupt, backup>>, <<b, backup>>, <<b, Corrupt>>}

(* One that reports an error may also have done nothing or everything.     *)
Failed(b) == Stopped(b) \union {<<primary, backup>>, <<b, b>>}

SaveIsCut(left) ==
  /\ cuts < MaxCuts
  /\ cuts' = cuts + 1
  /\ \E c \in left : primary' = c[1] /\ backup' = c[2]

eos_bootctl_save(b, ok) ==
  \/ ok /\ FlashOk /\ SaveCompletes(b)
  \/ ~ok /\ FlashFails /\ SaveIsCut(Failed(b))

SaveIgnoringResult(b) == \E ok \in BOOLEAN : eos_bootctl_save(b, ok)

eos_slot_erase(s, ok) ==
  /\ \/ ok /\ FlashOk /\ slots' = [slots EXCEPT ![s] = Blank]
     \/ ~ok /\ FlashFails /\ slots' \in {slots, [slots EXCEPT ![s] = Blank]}
  /\ condemned' = {c \in condemned : slots'[c] # Blank}

(***************************************************************************)
(* Reset: power loss outside a save, the watchdog, or                      *)
(* eos_hal_system_reset().  Everything held in RAM is lost.                *)
(***************************************************************************)
LoseRam ==
  /\ pc' = "stage0"
  /\ bctl' = Defaults
  /\ target' = None
  /\ running' = Blank
  /\ staged' = NotStaged
  /\ upd' = NoUpdate

Reset ==
  /\ LoseRam
  /\ UNCHANGED <<copies, slots, faults, floor, condemned, proven, starts>>

(***************************************************************************)
(* Stage-0 and the start of stage-1.  Both load the block and divert to    *)
(* recovery when it was requested.  On the way to stage-1, stage-0 saves   *)
(* the block it loaded with the log head.                                  *)
(***************************************************************************)
(* (should_recover_ForceOnly forgets the factory reset.)                   *)
should_recover_ForceOnly(b) == "FORCE_RECOVERY" \in b.flags

should_recover(b) == b.flags \intersect {"FORCE_RECOVERY", "FACTORY_RESET"} # {}

ebldr_stage0_main ==
  /\ pc = "stage0"
  /\ bctl' = nv
  /\ \/ /\ should_recover(nv) \/ ForcedRecovery
        /\ pc' = "enter"
        /\ UNCHANGED <<copies, faults>>
     \/ /\ ~should_recover(nv)
        /\ SaveIgnoringResult(nv)
        /\ pc' = "stage1"
  /\ UNCHANGED <<slots, floor, target, running, staged, upd,
                 condemned, proven, starts>>

eboot_main ==
  /\ pc = "stage1"
  /\ bctl' = nv
  /\ pc' = IF should_recover(nv) THEN "enter" ELSE "select"
  /\ UNCHANGED <<copies, slots, faults, floor, target, running, staged, upd,
                 condemned, proven, starts>>

(***************************************************************************)
(* eos_boot_policy_select(), on the slot states eboot_scan_images() cached *)
(* just before: nothing writes a slot between the scan and the selection.  *)
(* Only two of the outcomes save the block; the others edit the copy in    *)
(* RAM, which the jump saves.                                              *)
(***************************************************************************)
eos_slot_is_valid(s) == Verifies(slots[s])

(* (Exhausted_OffByOne grants one attempt more.)                           *)
Exhausted_OffByOne == bctl.attempts > MaxAttempts

Exhausted == bctl.attempts >= MaxAttempts

UpgradePending == bctl.pending # None /\ "UPGRADE_PENDING" \in bctl.flags

Other == eos_bootctl_other_slot(bctl.active)

ClearPending(b) ==
  [b EXCEPT !.pending = None, !.flags = @ \ {"UPGRADE_PENDING"}]

Choose(s, b) ==
  /\ target' = s
  /\ bctl' = b
  /\ pc' = "jump"

NoBootableImage ==
  /\ pc' = "enter"
  /\ UNCHANGED <<bctl, target>>

RolledBack(b) ==
  ClearPending([b EXCEPT !.active = eos_bootctl_other_slot(b.active), !.attempts = 0,
                         !.flags = (@ \union {"ROLLBACK"}) \ {"TEST_BOOT"}])

MayRollBack == Exhausted /\ eos_slot_is_valid(Other)

RollBack ==
  /\ MayRollBack
  /\ SaveIgnoringResult(RolledBack(bctl))
  /\ Choose(Other, RolledBack(bctl))

NothingToRollBackTo ==
  /\ Exhausted
  /\ ~eos_slot_is_valid(Other)
  /\ NoBootableImage
  /\ UNCHANGED <<copies, faults>>

(* (TestBoot_KeepsActive leaves active_slot behind.)                       *)
TestBoot_KeepsActive(b) == ClearPending([b EXCEPT !.flags = @ \union {"TEST_BOOT"}])

TestBoot(b) ==
  ClearPending([b EXCEPT !.active = b.pending, !.flags = @ \union {"TEST_BOOT"}])

TestPending ==
  /\ ~Exhausted
  /\ UpgradePending
  /\ eos_slot_is_valid(bctl.pending)
  /\ Choose(bctl.pending, TestBoot(bctl))
  /\ UNCHANGED <<copies, faults>>

MustDropPending ==
  /\ ~Exhausted
  /\ UpgradePending
  /\ ~eos_slot_is_valid(bctl.pending)

(* The selection goes on with the active slot after this.                  *)
DropPending ==
  /\ MustDropPending
  /\ bctl' = ClearPending(bctl)
  /\ SaveIgnoringResult(bctl')
  /\ UNCHANGED <<pc, target>>

BootActive ==
  /\ ~Exhausted
  /\ ~UpgradePending
  /\ eos_slot_is_valid(bctl.active)
  /\ Choose(bctl.active, bctl)
  /\ UNCHANGED <<copies, faults>>

FallBack ==
  /\ ~Exhausted
  /\ ~UpgradePending
  /\ ~eos_slot_is_valid(bctl.active)
  /\ eos_slot_is_valid(Other)
  /\ Choose(Other, [bctl EXCEPT !.active = Other, !.flags = @ \union {"ROLLBACK"}])
  /\ UNCHANGED <<copies, faults>>

NoImage ==
  /\ ~Exhausted
  /\ ~UpgradePending
  /\ \A s \in Slot : ~eos_slot_is_valid(s)
  /\ NoBootableImage
  /\ UNCHANGED <<copies, faults>>

eos_boot_policy_select ==
  /\ pc = "select"
  /\ \/ RollBack \/ NothingToRollBackTo \/ TestPending \/ DropPending
     \/ BootActive \/ FallBack \/ NoImage
  /\ UNCHANGED <<slots, floor, running, staged, upd, condemned, proven, starts>>

(***************************************************************************)
(* eboot_jump_to_app(): verify again, check the floor, stage the counter,  *)
(* count the attempt, save once more with the log head, start the          *)
(* application.  The application's first call of a firmware service loads  *)
(* the block.                                                              *)
(***************************************************************************)
(* (AttemptCounted_Skipped starts the image without counting the attempt.) *)
AttemptCounted_Skipped(b) == b

AttemptCounted(b) == [b EXCEPT !.attempts = @ + 1]

Tried(s) ==
  [slot |-> s,
   n |-> IF starts.slot # s THEN 1
         ELSE IF starts.n > MaxAttempts THEN starts.n
         ELSE starts.n + 1]

Refuse ==
  /\ ~Startable(slots[target])
  /\ pc' = "enter"
  /\ UNCHANGED <<copies, faults, bctl, staged, starts>>

Start ==
  /\ Startable(slots[target])
  /\ bctl' = AttemptCounted(bctl)
  /\ SaveIgnoringResult(bctl')
  /\ pc' = "handover"
  /\ staged' = ImageCounter[slots[target]]
  /\ starts' = Tried(target)

eboot_jump_to_app ==
  /\ pc = "jump"
  /\ Refuse \/ Start
  /\ UNCHANGED <<slots, floor, target, running, upd, condemned, proven>>

HandOver ==
  /\ pc = "handover"
  /\ SaveIgnoringResult(bctl)
  /\ bctl' = nv'
  /\ pc' = "app"
  /\ running' = slots[target]
  /\ staged' = IF StagedSurvives THEN staged ELSE NotStaged
  /\ UNCHANGED <<slots, floor, target, upd, condemned, proven, starts>>

(***************************************************************************)
(* Firmware services, called by an application that is not hung.  Each     *)
(* edits the application's copy of the block and saves it.                 *)
(***************************************************************************)
AppRuns == pc = "app" /\ running \notin Hung

Confirmed(b) ==
  [b EXCEPT !.confirmed = b.active, !.attempts = 0,
            !.flags = (@ \union {"CONFIRMED"}) \ {"TEST_BOOT"}]

(* Where a confirm goes when its save returned ok.                         *)
(* (AfterConfirm_Regardless raises the floor for a save that failed.)      *)
AfterConfirm_Regardless(ok) == IF ok THEN "commit" ELSE "commit"

AfterConfirm(ok) == IF ok THEN "commit" ELSE "app"

eos_fw_confirm_running_image ==
  /\ AppRuns
  /\ bctl' = Confirmed(bctl)
  /\ \E ok \in BOOLEAN :
       /\ eos_bootctl_save(bctl', ok)
       /\ pc' = AfterConfirm(ok)
       /\ proven' = IF ok THEN running ELSE proven
       /\ starts' = IF ok THEN NoStarts ELSE starts
  /\ UNCHANGED <<slots, floor, target, running, staged, upd, condemned>>

(* The rest of eos_bootctl_confirm(): eos_rollback_commit() raises the     *)
(* floor to the staged counter, one fuse at a time, and can be cut short   *)
(* by a fuse that fails, by the read-back that finds one did not take, or  *)
(* by power loss.  Its result is ignored.                                  *)
StagedIsStale == staged <= floor

eos_rollback_commit ==
  /\ pc = "commit"
  /\ \/ /\ StagedIsStale
        /\ staged' = NotStaged
        /\ pc' = "app"
        /\ FlashOk /\ UNCHANGED floor
     \/ /\ staged - floor > MaxStep
        /\ pc' = "app"
        /\ FlashOk /\ UNCHANGED <<staged, floor>>
     \/ /\ ~StagedIsStale
        /\ staged - floor <= MaxStep
        /\ \/ floor' = floor + 1 /\ FlashOk /\ UNCHANGED pc
           \/ pc' = "app" /\ FlashFails /\ UNCHANGED floor
        /\ UNCHANGED staged
  /\ UNCHANGED <<copies, slots, bctl, target, running, upd, condemned, proven, starts>>

Upgraded(b, s, mode) ==
  IF mode = "TEST"
  THEN [b EXCEPT !.pending = s, !.flags = @ \union {"UPGRADE_PENDING", "TEST_BOOT"}]
  ELSE [b EXCEPT !.active = s, !.confirmed = s, !.pending = None, !.attempts = 0,
                 !.flags = (@ \union {"CONFIRMED"}) \ {"TEST_BOOT", "UPGRADE_PENDING"}]

(* The part eos_fw_request_upgrade() and the finalize of an update share.  *)
RequestUpgrade(s, mode, ok) ==
  /\ bctl.active # s
  /\ bctl' = Upgraded(bctl, s, mode)
  /\ eos_bootctl_save(bctl', ok)
  /\ starts' = IF mode = "PERMANENT" THEN NoStarts ELSE starts

eos_fw_request_upgrade(s, mode) ==
  /\ AppRuns
  /\ \E ok \in BOOLEAN : RequestUpgrade(s, mode, ok)
  /\ UNCHANGED <<slots, floor, pc, target, running, staged, upd,
                 condemned, proven>>

Flagged(b, f) == [b EXCEPT !.flags = @ \union {f}]

eos_fw_request_recovery ==
  /\ AppRuns
  /\ bctl' = Flagged(bctl, "FORCE_RECOVERY")
  /\ SaveIgnoringResult(bctl')
  /\ UNCHANGED <<slots, floor, pc, target, running, staged, upd,
                 condemned, proven, starts>>

eos_fw_factory_reset ==
  /\ AppRuns
  /\ bctl' = Flagged(bctl, "FACTORY_RESET")
  /\ \E ok \in BOOLEAN :
       /\ eos_bootctl_save(bctl', ok)
       /\ condemned' = IF ok THEN {s \in Slot : slots[s] # Blank} ELSE condemned
  /\ UNCHANGED <<slots, floor, pc, target, running, staged, upd, proven, starts>>

(***************************************************************************)
(* An update: erase the slot, stream an image into it, verify and install. *)
(* Module FwUpdate has the byte stream; here it arrives whole or not.      *)
(***************************************************************************)
(* (MayErase_Any does not ask which slot is in use.)                       *)
MayErase_Any(s) == s \in Slot

MayErase(s) == nv.active # s

eos_fw_update_begin(s) ==
  /\ AppRuns
  /\ MayErase(s)
  /\ \E ok \in BOOLEAN :
       /\ eos_slot_erase(s, ok)
       /\ upd' = [state |-> IF ok THEN "HEADER" ELSE "ERROR", slot |-> s]
  /\ UNCHANGED <<copies, floor, pc, bctl, target, running, staged, proven, starts>>

(* Blank: the stream is complete but does not verify.                      *)
eos_fw_update_write(i) ==
  /\ AppRuns
  /\ upd.state = "HEADER"
  /\ \/ /\ slots' = [slots EXCEPT ![upd.slot] = i]
        /\ upd' = [upd EXCEPT !.state = "VERIFY"]
        /\ FlashOk
     \/ /\ FlashFails
        /\ upd' = [upd EXCEPT !.state = "ERROR"]
        /\ UNCHANGED slots
  /\ UNCHANGED <<copies, floor, pc, bctl, target, running, staged,
                 condemned, proven, starts>>

eos_fw_update_finalize(mode) ==
  /\ AppRuns
  /\ upd.state = "VERIFY"
  /\ \/ /\ Startable(slots[upd.slot])
        /\ \E ok \in BOOLEAN :
             /\ RequestUpgrade(upd.slot, mode, ok)
             /\ upd' = [upd EXCEPT !.state = IF ok THEN "COMPLETE" ELSE "ERROR"]
     \/ /\ ~Startable(slots[upd.slot]) \/ bctl.active = upd.slot
        /\ upd' = [upd EXCEPT !.state = "ERROR"]
        /\ UNCHANGED <<copies, faults, bctl, starts>>
  /\ UNCHANGED <<slots, floor, pc, target, running, staged, condemned, proven>>

eos_fw_update_abort ==
  /\ AppRuns
  /\ upd # NoUpdate
  /\ upd' = NoUpdate
  /\ UNCHANGED <<copies, slots, faults, floor, pc, bctl, target, running, staged,
                 condemned, proven, starts>>

Application ==
  \/ eos_fw_confirm_running_image
  \/ eos_rollback_commit
  \/ \E s \in Slot, m \in Modes : eos_fw_request_upgrade(s, m)
  \/ eos_fw_request_recovery
  \/ eos_fw_factory_reset
  \/ \E s \in Slot : eos_fw_update_begin(s)
  \/ \E i \in Image \union {Blank} : eos_fw_update_write(i)
  \/ \E m \in Modes : eos_fw_update_finalize(m)
  \/ eos_fw_update_abort

(***************************************************************************)
(* Recovery mode.  Entering it clears FORCE_RECOVERY, saves whatever the   *)
(* caller's copy of the block holds, and carries out a factory reset that  *)
(* was requested; a failed erase leaves the request standing.              *)
(***************************************************************************)
Entered(b) == [b EXCEPT !.flags = @ \ {"FORCE_RECOVERY"}]

eos_recovery_enter ==
  /\ pc = "enter"
  /\ bctl' = Entered(bctl)
  /\ SaveIgnoringResult(bctl')
  /\ pc' = IF "FACTORY_RESET" \in bctl.flags THEN "wipe_a" ELSE "recovery"
  /\ starts' = NoStarts
  /\ UNCHANGED <<slots, floor, target, running, staged, upd, condemned, proven>>

(* (NextWipe_Regardless goes on after an erase that failed.)               *)
NextWipe_Regardless(ok, next) == IF ok THEN next ELSE next

NextWipe(ok, next) == IF ok THEN next ELSE "recovery"

WipeSlot(at, s, next) ==
  /\ pc = at
  /\ \E ok \in BOOLEAN :
       /\ eos_slot_erase(s, ok)
       /\ pc' = NextWipe(ok, next)
  /\ UNCHANGED <<copies, floor, bctl, target, running, staged, upd, proven, starts>>

WipeSave ==
  /\ pc = "wipe_save"
  /\ bctl' = Defaults
  /\ SaveIgnoringResult(Defaults)
  /\ pc' = "recovery"
  /\ UNCHANGED <<slots, floor, target, running, staged, upd, condemned, proven, starts>>

recovery_handle_erase(s) ==
  /\ pc = "recovery"
  /\ \E ok \in BOOLEAN : eos_slot_erase(s, ok)
  /\ UNCHANGED <<copies, floor, pc, bctl, target, running, staged, upd, proven, starts>>

(* The WRITE commands that together fill an erased slot.  Over an image    *)
(* they leave a mixture of both, which does not verify.                    *)
recovery_handle_write(s, i) ==
  /\ pc = "recovery"
  /\ slots' = [slots EXCEPT ![s] = IF @ = Blank THEN i ELSE Blank]
  /\ condemned' = {c \in condemned : slots'[c] # Blank}
  /\ UNCHANGED <<copies, faults, floor, pc, bctl, target, running, staged, upd,
                 proven, starts>>

(* BOOT overrides what was requested before and resets the device.         *)
Booting(b, s) ==
  [b EXCEPT !.active = s, !.pending = None, !.attempts = 0,
            !.flags = @ \ {"FORCE_RECOVERY", "FACTORY_RESET"}]

recovery_handle_boot(s) ==
  /\ pc = "recovery"
  /\ \/ /\ eos_bootctl_save(Booting(bctl, s), TRUE)
        /\ LoseRam
     \/ /\ eos_bootctl_save(Booting(bctl, s), FALSE)
        /\ bctl' = Booting(bctl, s)
        /\ UNCHANGED <<pc, target, running, staged, upd>>
  /\ condemned' = {}
  /\ UNCHANGED <<slots, floor, proven, starts>>

(* The FACTORY command erases both slots and restores the defaults even    *)
(* when an erase failed; the operator is told.                             *)
EraseBoth ==
  \/ FlashOk /\ slots' = [s \in Slot |-> Blank]
  \/ /\ FlashFails
     /\ \E kept \in SUBSET Slot :
          slots' = [s \in Slot |-> IF s \in kept THEN slots[s] ELSE Blank]

recovery_handle_factory_reset ==
  /\ pc = "recovery"
  /\ EraseBoth
  /\ bctl' = Defaults
  /\ \/ SaveCompletes(Defaults)
     \/ faults' # faults /\ SaveIsCut(Failed(Defaults))
  /\ condemned' = {}
  /\ UNCHANGED <<floor, pc, target, running, staged, upd, proven, starts>>

Recovery ==
  \/ eos_recovery_enter
  \/ WipeSlot("wipe_a", "A", "wipe_b")
  \/ WipeSlot("wipe_b", "B", "wipe_save")
  \/ WipeSave
  \/ \E s \in Slot : recovery_handle_erase(s) \/ recovery_handle_boot(s)
  \/ \E s \in Slot, i \in Image : recovery_handle_write(s, i)
  \/ recovery_handle_factory_reset

(***************************************************************************)
(* Power loss inside a save of the control block, by whoever makes it.     *)
(***************************************************************************)
LosePowerSaving(b) ==
  /\ SaveIsCut(Stopped(b))
  /\ LoseRam
  /\ UNCHANGED <<floor, proven>>

(* The saves that carry on what was decided before, and the requests that  *)
(* vouch for no image.                                                     *)
CutOnTheWay ==
  /\ \/ pc = "stage0" /\ ~should_recover(nv) /\ LosePowerSaving(nv)
     \/ pc = "select" /\ MayRollBack /\ LosePowerSaving(RolledBack(bctl))
     \/ pc = "select" /\ MustDropPending /\ LosePowerSaving(ClearPending(bctl))
     \/ pc = "handover" /\ LosePowerSaving(bctl)
     \/ pc = "wipe_save" /\ LosePowerSaving(Defaults)
     \/ /\ AppRuns
        /\ \/ \E f \in {"FORCE_RECOVERY", "FACTORY_RESET"} : LosePowerSaving(Flagged(bctl, f))
           \/ \E s \in Slot \ {bctl.active} :
                "TEST" \in Modes /\ LosePowerSaving(Upgraded(bctl, s, "TEST"))
  /\ FlashOk
  /\ UNCHANGED <<slots, condemned, starts>>

CutInJump ==
  /\ pc = "jump"
  /\ Startable(slots[target])
  /\ LosePowerSaving(AttemptCounted(bctl))
  /\ starts' = IF nv' = AttemptCounted(bctl) THEN Tried(target) ELSE starts
  /\ FlashOk
  /\ UNCHANGED <<slots, condemned>>

CutVouching ==
  /\ AppRuns
  /\ \E b \in {Confirmed(bctl)} \union
            {Upgraded(bctl, s, "PERMANENT") : s \in IF "PERMANENT" \in Modes
                                                   THEN Slot \ {bctl.active} ELSE {}} :
       /\ LosePowerSaving(b)
       /\ starts' = IF nv' = b THEN NoStarts ELSE starts
  /\ FlashOk
  /\ UNCHANGED <<slots, condemned>>

CutInEnter ==
  /\ pc = "enter"
  /\ LosePowerSaving(Entered(bctl))
  /\ starts' = NoStarts
  /\ FlashOk
  /\ UNCHANGED <<slots, condemned>>

(* The commands an operator gives, which overrule what was requested.      *)
CutInCommand ==
  /\ pc = "recovery"
  /\ \/ \E s \in Slot : LosePowerSaving(Booting(bctl, s)) /\ FlashOk /\ UNCHANGED slots
     \/ EraseBoth /\ LosePowerSaving(Defaults)
  /\ condemned' = {}
  /\ UNCHANGED starts

PowerLossInSave ==
  CutOnTheWay \/ CutInJump \/ CutVouching \/ CutInEnter \/ CutInCommand

Next ==
  \/ Reset
  \/ PowerLossInSave
  \/ ebldr_stage0_main
  \/ eboot_main
  \/ eos_boot_policy_select
  \/ eboot_jump_to_app
  \/ HandOver
  \/ Application
  \/ Recovery

Spec == Init /\ [][Next]_vars

(* An application that hangs is reset by the watchdog, which no code can   *)
(* stop once stage-0 has started it.  The boot path has no waiting in it,  *)
(* up to the command loop of recovery mode.  Power may fail any number of  *)
(* times, but not for ever.                                                *)
Watchdog == pc = "app" /\ running \in Hung /\ Reset

PowerFails == PowerLossInSave \/ (Reset /\ ~(pc = "app" /\ running \in Hung))

BootStep ==
  \/ ebldr_stage0_main \/ eboot_main \/ eos_boot_policy_select
  \/ eboot_jump_to_app \/ HandOver \/ eos_recovery_enter
  \/ WipeSlot("wipe_a", "A", "wipe_b") \/ WipeSlot("wipe_b", "B", "wipe_save") \/ WipeSave

FairSpec ==
  /\ Spec
  /\ <>[][~PowerFails]_vars
  /\ WF_vars(Watchdog)
  /\ WF_vars(BootStep)

-----------------------------------------------------------------------------
CopiesOK ==
  /\ primary \in ControlBlock \union {Corrupt}
  /\ backup \in ControlBlock \union {Corrupt}
  /\ cuts \in 0..MaxCuts

(* No variable leaves its range; the attempt counter in particular never   *)
(* passes EOS_MAX_BOOT_ATTEMPTS.                                           *)
TypeOK ==
  /\ CopiesOK
  /\ slots \in [Slot -> Image \union {Blank}]
  /\ floor \in Nat
  /\ pc \in BootPcs \union RecoveryPcs \union AppPcs
  /\ bctl \in ControlBlock
  /\ target \in Slot \union {None}
  /\ running \in Image \union {Blank}
  /\ staged \in Nat \union {NotStaged}
  /\ upd \in [state : {"IDLE", "HEADER", "VERIFY", "COMPLETE", "ERROR"},
              slot : Slot \union {None}]
  /\ faults \in 0..MaxFlashFaults
  /\ condemned \subseteq Slot
  /\ proven \in Image \union {Blank}
  /\ starts \in [slot : Slot \union {None}, n : 0..MaxAttempts + 1]

(* After eos_fw_factory_reset() returned EOS_OK no image that was in a     *)
(* slot at that moment is ever started again, unless an operator decides   *)
(* otherwise in recovery mode.  Resets and flash errors may fall anywhere, *)
(* as long as at most MaxCuts = 1 saves between two complete ones are cut  *)
(* short: after two, eos_bootctl_load() may find no valid copy and return  *)
(* defaults without the request.                                           *)
FactoryResetHonoured ==
  [][pc = "handover" /\ pc' = "app" => target \notin condemned]_vars

(* The floor never passes the counter of the last image that was confirmed *)
(* (before any was, it stays at 0): an image that has not proven itself    *)
(* cannot lock out the one that has.                                       *)
FloorWithinProven ==
  floor <= IF proven = Blank THEN 0 ELSE ImageCounter[proven]

(* A slot nobody vouches for is tried at most MaxAttempts times in a row   *)
(* before the policy turns to the other slot or to recovery, while at most *)
(* MaxCuts = 1 saves between two complete ones are cut short: defaults     *)
(* loaded from two invalid copies would forget the count.                  *)
BoundedTrials == starts.n <= MaxAttempts

(* The slot the application runs from keeps its image: an update never     *)
(* erases it (eos_fw_update_begin(): "Never erase the slot the device is   *)
(* running from").                                                         *)
RunningSlotIntact == pc = "app" => slots[target] = running

(* Confirming marks the slot the confirming image runs from.               *)
ConfirmNamesRunning ==
  [][proven' # proven => nv'.confirmed = target]_vars

(* Once eos_bootctl_confirm() returns EOS_OK for an image that runs and    *)
(* proves itself, eos_rollback_commit() has raised the floor to its        *)
(* counter, so no older image can be started again.                        *)
FloorRaisedOnConfirm ==
  [][pc = "commit" /\ pc' = "app" => floor' >= ImageCounter[running]]_vars

(* When an image exhausts its attempts, stage-1 rolls back to the slot     *)
(* that was confirmed.                                                     *)
RollsBackToConfirmed ==
  [][pc = "select" /\ pc' = "jump" /\ Exhausted /\ bctl.confirmed # None
       => target' = bctl.confirmed]_vars

(* Stage-1 enters recovery, unless asked to, only when neither slot holds  *)
(* an image it could start.                                                *)
RecoveryIsLastResort ==
  [][pc = "jump" /\ pc' = "enter" => \A s \in Slot : ~Startable(slots[s])]_vars

(* An image that hangs is replaced: when the other slot holds an image     *)
(* that can be started and does not hang, the device ends up running one   *)
(* that does not hang, or in recovery mode.                                *)
HungImageReplaced ==
  (/\ pc = "app"
   /\ running \in Hung
   /\ Startable(slots[eos_bootctl_other_slot(target)])
   /\ slots[eos_bootctl_other_slot(target)] \notin Hung)
  ~> (pc = "recovery" \/ (pc = "app" /\ running \notin Hung))

(* A factory reset that was accepted is carried out after the next reset.  *)
(* Power may fail any number of times in the middle of it, at most once    *)
(* inside a save between two saves that complete (MaxCuts = 1).            *)
FactoryResetCompletes ==
  (pc = "stage0" /\ condemned # {}) ~> (condemned = {})
=============================================================================
