---------------------------- MODULE Boot_proofs ----------------------------
(***************************************************************************)
(* Proofs about Boot, for any set of images, any bounds on attempts and    *)
(* fuse steps, and any number of flash errors.  That an outstanding        *)
(* factory reset is kept needs MaxCuts <= 1.                               *)
(***************************************************************************)
EXTENDS Boot, TLAPS

(* Which variables mean something where.  An image is started only with an *)
(* attempt left, a running application has a slot and an image, and an     *)
(* update that has begun has a target.                                     *)
ControlInv ==
  /\ pc = "jump" => bctl.attempts < MaxAttempts
  /\ pc \in {"jump", "handover", "app", "commit"} => target \in Slot
  /\ pc = "handover" => slots[target] \in Image
  /\ pc \in AppPcs => running \in Image
  /\ upd.state \in {"HEADER", "VERIFY"} => upd.slot \in Slot

(* At most one save between two complete ones is cut short.  Two would     *)
(* leave no valid copy, and the defaults that are loaded then hold neither *)
(* the request for a factory reset nor the attempts counted.               *)
OneCut == MaxCuts <= 1

(* After a complete save the two copies are the same.                      *)
CopiesInv == cuts = 0 => primary = backup

(* A factory reset that is outstanding is named by the durable block and   *)
(* by the copy of whoever may save it next, so no boot gets past stage-0.  *)
ResetInv ==
  /\ condemned # {} =>
       /\ "FACTORY_RESET" \in nv.flags
       /\ pc # "stage0" => "FACTORY_RESET" \in bctl.flags
       /\ pc \notin {"stage1", "select", "jump", "handover", "wipe_save"}
  /\ pc = "wipe_b" => "A" \notin condemned

(* The running image is not below the floor, what it staged is its own     *)
(* counter, and the floor moves only for an image that was just confirmed. *)
FloorInv ==
  /\ FloorWithinProven
  /\ pc = "handover" =>
       /\ floor <= ImageCounter[slots[target]]
       /\ staged = ImageCounter[slots[target]]
  /\ pc \in AppPcs =>
       /\ floor <= ImageCounter[running]
       /\ staged \in {NotStaged, ImageCounter[running]}
  /\ pc = "commit" => proven = running

IInv == TypeOK /\ CopiesInv /\ ControlInv /\ FloorInv

-----------------------------------------------------------------------------
(* The types of the fields.                                                *)
LEMMA BlockFields ==
  ASSUME NEW b \in ControlBlock
  PROVE  /\ b.active \in Slot
         /\ b.pending \in Slot \union {None}
         /\ b.confirmed \in Slot \union {None}
         /\ b.attempts \in 0..MaxAttempts
         /\ b.flags \in SUBSET Flag
  BY DEF ControlBlock

(* Every edit the code makes to a block yields a block, and none of them   *)
(* drops a factory reset that was requested.                               *)
LEMMA FlagEdit ==
  ASSUME NEW b \in ControlBlock, NEW f \in SUBSET Flag
  PROVE  [b EXCEPT !.flags = f] \in ControlBlock
  BY BlockFields DEF ControlBlock

(* eos_bootctl_clear_pending() yields a block with the same attempts.      *)
LEMMA ClearPendingType ==
  ASSUME NEW b \in ControlBlock
  PROVE  /\ ClearPending(b) \in ControlBlock
         /\ ClearPending(b).attempts = b.attempts
  BY BlockFields DEF ControlBlock, ClearPending

(* The roll-back of eos_boot_policy_select() yields a block.               *)
LEMMA RolledBackType ==
  ASSUME NEW b \in ControlBlock
  PROVE  /\ RolledBack(b) \in ControlBlock
         /\ RolledBack(b).active = eos_bootctl_other_slot(b.active)
         /\ RolledBack(b).attempts = 0
         /\ RolledBack(b).pending = None
  <1> DEFINE b0 == [b EXCEPT !.active = eos_bootctl_other_slot(b.active), !.attempts = 0,
                             !.flags = (@ \union {"ROLLBACK"}) \ {"TEST_BOOT"}]
  <1>0. /\ 0 \in 0..MaxAttempts
        /\ (b.flags \union {"ROLLBACK"}) \ {"TEST_BOOT"} \in SUBSET Flag
        /\ eos_bootctl_other_slot(b.active) \in Slot
    BY BlockFields, BootAssumption DEF Flag, eos_bootctl_other_slot, Slot
  <1>1. /\ b0 \in ControlBlock /\ b0.attempts = 0
        /\ b0.active = eos_bootctl_other_slot(b.active)
    BY <1>0, BlockFields DEF ControlBlock
  <1> HIDE DEF b0
  <1>2. /\ ClearPending(b0) \in ControlBlock /\ ClearPending(b0).attempts = 0
        /\ ClearPending(b0).active = b0.active /\ ClearPending(b0).pending = None
    BY <1>1, ClearPendingType DEF ClearPending, ControlBlock
  <1>3. RolledBack(b) = ClearPending(b0)
    BY DEF RolledBack, b0
  <1> QED BY <1>1, <1>2, <1>3

(* So does the edit that counts an attempt while one is left.              *)
LEMMA AttemptCountedType ==
  ASSUME NEW b \in ControlBlock, b.attempts < MaxAttempts
  PROVE  /\ AttemptCounted(b) \in ControlBlock
         /\ AttemptCounted(b).active = b.active
         /\ AttemptCounted(b).attempts = b.attempts + 1
  BY BlockFields, BootAssumption DEF AttemptCounted, ControlBlock

(* The edits that set or clear a flag yield blocks that keep the request   *)
(* for a factory reset.                                                    *)
LEMMA FlaggedType ==
  ASSUME NEW b \in ControlBlock, NEW f \in Flag
  PROVE  /\ Flagged(b, f) \in ControlBlock
         /\ "FACTORY_RESET" \in b.flags => "FACTORY_RESET" \in Flagged(b, f).flags
         /\ f \in Flagged(b, f).flags
         /\ Flagged(b, f).active = b.active /\ Flagged(b, f).attempts = b.attempts
  <1>1. b.flags \union {f} \in SUBSET Flag
    BY BlockFields
  <1> QED BY <1>1, FlagEdit DEF Flagged, ControlBlock

(* The edit of eos_recovery_enter() yields a block that keeps the request. *)
LEMMA EnteredType ==
  ASSUME NEW b \in ControlBlock
  PROVE  /\ Entered(b) \in ControlBlock
         /\ "FACTORY_RESET" \in b.flags => "FACTORY_RESET" \in Entered(b).flags
  <1>1. b.flags \ {"FORCE_RECOVERY"} \in SUBSET Flag
    BY BlockFields
  <1> QED BY <1>1, FlagEdit DEF Entered, ControlBlock

(* The edit of the BOOT command yields a block.                            *)
LEMMA BootingType ==
  ASSUME NEW b \in ControlBlock, NEW s \in Slot
  PROVE  Booting(b, s) \in ControlBlock
  <1>1. /\ 0 \in 0..MaxAttempts
        /\ b.flags \ {"FORCE_RECOVERY", "FACTORY_RESET"} \in SUBSET Flag
    BY BlockFields, BootAssumption
  <1> QED BY <1>1, BlockFields DEF Booting, ControlBlock

(* The edit that starts a trial in eos_boot_policy_select() yields a       *)
(* block.                                                                  *)
LEMMA TestBootType ==
  ASSUME NEW b \in ControlBlock, b.pending \in Slot
  PROVE  /\ TestBoot(b) \in ControlBlock
         /\ TestBoot(b).attempts = b.attempts
  BY BlockFields DEF ControlBlock, ClearPending, TestBoot, Flag

(* The edit of eos_bootctl_confirm() yields a block.                       *)
LEMMA ConfirmedType ==
  ASSUME NEW b \in ControlBlock
  PROVE  /\ Confirmed(b) \in ControlBlock
         /\ "FACTORY_RESET" \in b.flags => "FACTORY_RESET" \in Confirmed(b).flags
  <1>1. 0 \in 0..MaxAttempts
    BY BootAssumption
  <1>2. (b.flags \union {"CONFIRMED"}) \ {"TEST_BOOT"} \in SUBSET Flag
    BY BlockFields DEF Flag
  <1> QED BY <1>1, <1>2, BlockFields DEF ControlBlock, Confirmed

(* The edit of eos_fw_request_upgrade() yields a block, in both modes.     *)
LEMMA UpgradedType ==
  ASSUME NEW b \in ControlBlock, NEW s \in Slot, NEW m
  PROVE  /\ Upgraded(b, s, m) \in ControlBlock
         /\ "FACTORY_RESET" \in b.flags => "FACTORY_RESET" \in Upgraded(b, s, m).flags
  <1>1. 0 \in 0..MaxAttempts
    BY BootAssumption
  <1>2. /\ b.flags \union {"UPGRADE_PENDING", "TEST_BOOT"} \in SUBSET Flag
        /\ (b.flags \union {"CONFIRMED"}) \ {"TEST_BOOT", "UPGRADE_PENDING"} \in SUBSET Flag
    BY BlockFields DEF Flag
  <1> QED BY <1>1, <1>2, BlockFields DEF ControlBlock, Upgraded

(* eos_bootctl_init_defaults() yields a block with no flag set.            *)
LEMMA DefaultsType == Defaults \in ControlBlock /\ Defaults.flags = {}
  BY BootAssumption DEF Defaults, ControlBlock, Slot, Flag, None

(* eos_bootctl_load() returns a block whatever the copies hold.            *)
LEMMA LoadType ==
  ASSUME CopiesOK
  PROVE  nv \in ControlBlock
  BY DefaultsType DEF CopiesOK, nv

(* It returns the same one while nobody writes them.                       *)
LEMMA LoadSame ==
  ASSUME UNCHANGED copies
  PROVE  nv' = nv
  BY DEF copies, nv

(* What a save leaves that completes.                                      *)
LEMMA CompleteEffect ==
  ASSUME NEW b \in ControlBlock, SaveCompletes(b)
  PROVE  nv' = b /\ CopiesOK' /\ CopiesInv'
  BY CorruptAssumption, BootAssumption DEF SaveCompletes, CopiesOK, CopiesInv, nv

(* One that reports an error leaves copies of blocks, or none.             *)
LEMMA FailedEffect ==
  ASSUME CopiesOK, NEW b \in ControlBlock, SaveIsCut(Failed(b))
  PROVE  CopiesOK'
  BY BootAssumption DEF SaveIsCut, Failed, Stopped, CopiesOK

(* So does one that loses power.                                           *)
LEMMA StoppedEffect ==
  ASSUME CopiesOK, NEW b \in ControlBlock, SaveIsCut(Stopped(b))
  PROVE  CopiesOK'
  BY BootAssumption DEF SaveIsCut, Stopped, CopiesOK

(* With the copies equal before it, a save that is cut short leaves the    *)
(* old or the new block for the next load.                                 *)
LEMMA CutKeepsBlock ==
  ASSUME OneCut, CopiesOK, CopiesInv, NEW b \in ControlBlock,
         SaveIsCut(Failed(b)) \/ SaveIsCut(Stopped(b))
  PROVE  nv' \in {nv, b} /\ CopiesInv'
  <1>1. primary = backup /\ cuts' = 1
    BY BootAssumption DEF OneCut, CopiesOK, CopiesInv, SaveIsCut
  <1>2. PICK c \in Failed(b) : primary' = c[1] /\ backup' = c[2]
    BY DEF SaveIsCut, Failed
  <1>3. \/ primary' = Corrupt /\ backup' = backup
        \/ primary' = b
        \/ primary' = primary /\ backup' = backup
    BY <1>2 DEF Failed, Stopped
  <1>4. nv' \in {nv, b}
    BY <1>1, <1>3, CorruptAssumption DEF nv
  <1> QED BY <1>1, <1>4 DEF CopiesInv

(* The same for eos_bootctl_save() as its callers see it.                  *)
LEMMA SaveEffect ==
  ASSUME TypeOK, NEW b \in ControlBlock, NEW ok \in BOOLEAN, eos_bootctl_save(b, ok)
  PROVE  /\ CopiesOK'
         /\ ok => nv' = b
         /\ OneCut /\ CopiesInv => nv' \in {nv, b} /\ CopiesInv'
         /\ faults' \in 0..MaxFlashFaults
  <1>1. faults' \in 0..MaxFlashFaults
    BY BootAssumption DEF TypeOK, eos_bootctl_save, FlashOk, FlashFails
  <1>2. CASE ok
    BY <1>1, <1>2, CompleteEffect DEF eos_bootctl_save
  <1>3. CASE ~ok
    BY <1>1, <1>3, FailedEffect, CutKeepsBlock DEF eos_bootctl_save, TypeOK
  <1> QED BY <1>2, <1>3

(* The same for the saves whose result the code does not look at.          *)
LEMMA SaveIgnoredEffect ==
  ASSUME TypeOK, NEW b \in ControlBlock, SaveIgnoringResult(b)
  PROVE  /\ CopiesOK'
         /\ OneCut /\ CopiesInv => nv' \in {nv, b} /\ CopiesInv'
         /\ faults' \in 0..MaxFlashFaults
  BY SaveEffect DEF SaveIgnoringResult

(* eos_slot_erase() empties one slot or leaves both as they were.          *)
LEMMA EraseEffect ==
  ASSUME TypeOK, NEW s \in Slot, NEW ok \in BOOLEAN, eos_slot_erase(s, ok)
  PROVE  /\ slots' \in [Slot -> Image \union {Blank}]
         /\ condemned' \subseteq condemned
         /\ ok => s \notin condemned'
         /\ faults' \in 0..MaxFlashFaults
  BY BootAssumption DEF TypeOK, eos_slot_erase, FlashOk, FlashFails

(* A copy of the block in RAM is lost with the rest of it.                 *)
LEMMA LoseRamType ==
  ASSUME LoseRam
  PROVE  /\ pc' = "stage0"
         /\ bctl' \in ControlBlock
         /\ target' \in Slot \union {None}
         /\ running' \in Image \union {Blank}
         /\ staged' \in Nat \union {NotStaged}
         /\ upd' \in [state : {"IDLE", "HEADER", "VERIFY", "COMPLETE", "ERROR"},
                       slot : Slot \union {None}]
         /\ upd'.state = "IDLE"
  BY DefaultsType DEF LoseRam, NoUpdate

-----------------------------------------------------------------------------
(* A device that leaves the factory satisfies the invariant.               *)
LEMMA InitInv == Init => IInv
  <1> SUFFICES ASSUME Init PROVE IInv
    OBVIOUS
  <1> USE ImageAssumption, BootAssumption DEF Init
  <1>1. TypeOK
    BY DefaultsType DEF TypeOK, CopiesOK, Slot, BootPcs, NoUpdate, NoStarts, NotStaged
  <1>2. ControlInv
    BY DEF ControlInv, AppPcs, NoUpdate
  <1>3. FloorInv
    BY DEF FloorInv, FloorWithinProven, AppPcs
  <1> QED BY <1>1, <1>2, <1>3 DEF IInv, CopiesInv

(* The count of tries stays below its cap.                                 *)
LEMMA TriedType ==
  ASSUME TypeOK, NEW s \in Slot
  PROVE  Tried(s) \in [slot : Slot \union {None}, n : 0..MaxAttempts + 1]
  BY BootAssumption DEF Tried, TypeOK

(* Whatever is being saved when power goes is a block, and while a factory *)
(* reset is outstanding it names it, or an operator overrules it.          *)
LEMMA CutSaves ==
  ASSUME TypeOK, ControlInv, PowerLossInSave
  PROVE  \E b \in ControlBlock :
           /\ LosePowerSaving(b)
           /\ \/ condemned' = {}
              \/ /\ condemned' = condemned
                 /\ "FACTORY_RESET" \in bctl.flags => "FACTORY_RESET" \in b.flags
              \/ /\ condemned' = condemned
                 /\ \/ pc \in {"select", "jump", "handover", "wipe_save"}
                    \/ pc = "stage0" /\ "FACTORY_RESET" \notin nv.flags
  <1>0. bctl \in ControlBlock /\ nv \in ControlBlock
    BY LoadType DEF TypeOK
  <1>1. CASE CutOnTheWay
    <2> USE <1>0, <1>1 DEF CutOnTheWay
    <2>1. CASE pc = "stage0" /\ ~should_recover(nv) /\ LosePowerSaving(nv)
      BY <2>1 DEF should_recover
    <2>2. CASE pc = "select" /\ MayRollBack /\ LosePowerSaving(RolledBack(bctl))
      BY <2>2, RolledBackType
    <2>3. CASE pc = "select" /\ MustDropPending /\ LosePowerSaving(ClearPending(bctl))
      BY <2>3, ClearPendingType
    <2>4. CASE pc = "handover" /\ LosePowerSaving(bctl)
      BY <2>4
    <2>5. CASE pc = "wipe_save" /\ LosePowerSaving(Defaults)
      BY <2>5, DefaultsType
    <2>6. CASE \E f \in {"FORCE_RECOVERY", "FACTORY_RESET"} : LosePowerSaving(Flagged(bctl, f))
      BY <2>6, FlaggedType DEF Flag
    <2>7. CASE \E s \in Slot \ {bctl.active} : LosePowerSaving(Upgraded(bctl, s, "TEST"))
      BY <2>7, UpgradedType
    <2> QED BY <2>1, <2>2, <2>3, <2>4, <2>5, <2>6, <2>7
  <1>2. CASE CutInJump
    BY <1>0, <1>2, AttemptCountedType DEF CutInJump, ControlInv
  <1>3. CASE CutVouching
    <2>1. PICK b \in {Confirmed(bctl)} \union
                   {Upgraded(bctl, s, "PERMANENT") : s \in IF "PERMANENT" \in Modes
                                                          THEN Slot \ {bctl.active} ELSE {}} :
            LosePowerSaving(b)
      BY <1>3 DEF CutVouching
    <2>2. /\ b \in ControlBlock
          /\ "FACTORY_RESET" \in bctl.flags => "FACTORY_RESET" \in b.flags
      BY <1>0, <2>1, ConfirmedType, UpgradedType
    <2> QED BY <1>3, <2>1, <2>2 DEF CutVouching
  <1>4. CASE CutInEnter
    BY <1>0, <1>4, EnteredType DEF CutInEnter
  <1>5. CASE CutInCommand
    BY <1>0, <1>5, BootingType, DefaultsType DEF CutInCommand
  <1> QED BY <1>1, <1>2, <1>3, <1>4, <1>5 DEF PowerLossInSave

(* No step takes a variable out of its range, or an image to its start     *)
(* without an attempt left.                                                *)
LEMMA TypeStep == TypeOK /\ ControlInv /\ [Next]_vars => TypeOK' /\ ControlInv'
  <1> SUFFICES ASSUME TypeOK, ControlInv, [Next]_vars PROVE TypeOK' /\ ControlInv'
    OBVIOUS
  <1> USE ImageAssumption, BootAssumption DEF copies
  <1>0. CASE UNCHANGED vars
    BY <1>0 DEF vars, TypeOK, CopiesOK, ControlInv
  <1>1. CASE Reset
    BY <1>1, LoseRamType DEF Reset, TypeOK, CopiesOK, ControlInv, BootPcs, AppPcs
  <1>2. CASE ebldr_stage0_main
    <2>1. nv \in ControlBlock
      BY LoadType DEF TypeOK
    <2>2. CopiesOK' /\ faults' \in 0..MaxFlashFaults
      BY <1>2, <2>1, SaveIgnoredEffect DEF ebldr_stage0_main, TypeOK, CopiesOK
    <2> QED BY <1>2, <2>1, <2>2
            DEF ebldr_stage0_main, TypeOK, ControlInv, BootPcs, AppPcs, RecoveryPcs
  <1>3. CASE eboot_main
    BY <1>3, LoadType DEF eboot_main, TypeOK, CopiesOK, ControlInv, BootPcs, AppPcs, RecoveryPcs
  <1>4. CASE eos_boot_policy_select
    <2> USE DEF eos_boot_policy_select
    <2>a. Other \in Slot /\ bctl.active \in Slot
      BY BlockFields DEF TypeOK, Other, eos_bootctl_other_slot, Slot
    <2>b. SUFFICES ASSUME TRUE
                   PROVE  /\ CopiesOK'
                          /\ faults' \in 0..MaxFlashFaults
                          /\ bctl' \in ControlBlock
                          /\ target' \in Slot \union {None}
                          /\ pc' \in {"jump", "enter", "select"}
                          /\ pc' = "jump" => target' \in Slot /\ bctl'.attempts < MaxAttempts
      BY <1>4 DEF TypeOK, ControlInv, BootPcs, AppPcs, RecoveryPcs
    <2>1. CASE RollBack
      <3>1. RolledBack(bctl) \in ControlBlock /\ RolledBack(bctl).attempts = 0
        BY RolledBackType DEF TypeOK
      <3> QED BY <2>1, <3>1, <2>a, SaveIgnoredEffect DEF RollBack, Choose
    <2>2. CASE NothingToRollBackTo
      BY <2>2 DEF NothingToRollBackTo, NoBootableImage, TypeOK, CopiesOK
    <2>3. CASE TestPending
      <3>1. bctl.pending \in Slot /\ bctl.attempts < MaxAttempts
        BY <2>3, BlockFields DEF TestPending, UpgradePending, Exhausted, TypeOK
      <3> QED BY <2>3, <3>1, TestBootType DEF TestPending, Choose, TypeOK, CopiesOK
    <2>4. CASE DropPending
      BY <1>4, <2>4, ClearPendingType, SaveIgnoredEffect DEF DropPending, MustDropPending, TypeOK
    <2>5. CASE BootActive
      BY <2>5, <2>a, BlockFields DEF BootActive, Choose, Exhausted, TypeOK, CopiesOK
    <2>6. CASE FallBack
      <3> DEFINE b1 == [bctl EXCEPT !.active = Other, !.flags = @ \union {"ROLLBACK"}]
      <3>1. b1 \in ControlBlock /\ b1.attempts = bctl.attempts
        BY <2>a, BlockFields DEF TypeOK, ControlBlock, Flag
      <3> QED BY <2>6, <3>1, <2>a, BlockFields DEF FallBack, Choose, Exhausted, TypeOK, CopiesOK
    <2>7. CASE NoImage
      BY <2>7 DEF NoImage, NoBootableImage, TypeOK, CopiesOK
    <2> QED BY <1>4, <2>1, <2>2, <2>3, <2>4, <2>5, <2>6, <2>7
  <1>5. CASE eboot_jump_to_app
    <2>1. CASE Refuse
      BY <1>5, <2>1
      DEF eboot_jump_to_app, Refuse, TypeOK, CopiesOK, ControlInv, BootPcs, AppPcs, RecoveryPcs
    <2>2. CASE Start
      <3>1. target \in Slot /\ bctl.attempts < MaxAttempts
        BY <1>5 DEF eboot_jump_to_app, ControlInv
      <3>2. bctl' \in ControlBlock
        BY <2>2, <3>1, AttemptCountedType DEF TypeOK, Start
      <3>3. CopiesOK' /\ faults' \in 0..MaxFlashFaults
        BY <2>2, <3>2, SaveIgnoredEffect DEF Start
      <3>4. slots[target] \in Image /\ ImageCounter[slots[target]] \in Nat
        BY <2>2, <3>1 DEF Start, Startable, Verifies, TypeOK
      <3>5. starts' \in [slot : Slot \union {None}, n : 0..MaxAttempts + 1]
        BY <2>2, <3>1, TriedType DEF Start
      <3> QED BY <1>5, <2>2, <3>1, <3>2, <3>3, <3>4, <3>5
              DEF eboot_jump_to_app, Start, TypeOK, ControlInv, BootPcs, AppPcs
    <2> QED BY <1>5, <2>1, <2>2 DEF eboot_jump_to_app
  <1>8. CASE HandOver
    <2>1. CopiesOK' /\ faults' \in 0..MaxFlashFaults
      BY <1>8, SaveIgnoredEffect DEF HandOver, TypeOK
    <2>2. nv' \in ControlBlock
      BY <2>1, DefaultsType DEF CopiesOK, nv
    <2> QED BY <1>8, <2>1, <2>2 DEF HandOver, TypeOK, ControlInv, AppPcs
  <1>9. CASE PowerLossInSave
    <2>1. /\ CopiesOK' /\ LoseRam /\ UNCHANGED <<floor, proven>>
          /\ faults' \in 0..MaxFlashFaults
          /\ slots' \in [Slot -> Image \union {Blank}]
          /\ condemned' \subseteq Slot
          /\ starts' \in [slot : Slot \union {None}, n : 0..MaxAttempts + 1]
      <3>1. PICK b \in ControlBlock : LosePowerSaving(b)
        BY <1>9, CutSaves
      <3>2. CopiesOK' /\ LoseRam /\ UNCHANGED <<floor, proven>>
        BY <3>1, StoppedEffect DEF LosePowerSaving, TypeOK
      <3>3. /\ faults' \in 0..MaxFlashFaults
            /\ slots' \in [Slot -> Image \union {Blank}]
        BY <1>9 DEF PowerLossInSave, CutOnTheWay, CutInJump, CutVouching, CutInEnter,
                    CutInCommand, EraseBoth, FlashOk, FlashFails, TypeOK
      <3>4. /\ condemned' \subseteq Slot
            /\ starts' \in [slot : Slot \union {None}, n : 0..MaxAttempts + 1]
        BY <1>9, TriedType DEF PowerLossInSave, CutOnTheWay, CutInJump, CutVouching, CutInEnter,
                    CutInCommand, TypeOK, ControlInv, NoStarts
      <3> QED BY <3>2, <3>3, <3>4
    <2> QED BY <2>1, LoseRamType DEF TypeOK, ControlInv, BootPcs, AppPcs
  <1>6. CASE Application
    <2>1. CASE eos_fw_confirm_running_image
      <3>1. PICK ok \in BOOLEAN :
              /\ eos_bootctl_save(bctl', ok)
              /\ pc' = AfterConfirm(ok)
              /\ proven' = IF ok THEN running ELSE proven
              /\ starts' = IF ok THEN NoStarts ELSE starts
        BY <2>1 DEF eos_fw_confirm_running_image
      <3>2. bctl' \in ControlBlock
        BY <2>1, ConfirmedType DEF eos_fw_confirm_running_image, TypeOK
      <3>3. CopiesOK' /\ faults' \in 0..MaxFlashFaults
        BY <3>1, <3>2, SaveEffect
      <3> QED BY <2>1, <3>1, <3>2, <3>3
              DEF eos_fw_confirm_running_image, AfterConfirm, AppRuns, TypeOK,
                  ControlInv, AppPcs, NoStarts
    <2>2. CASE eos_rollback_commit
      BY <2>2 DEF eos_rollback_commit, FlashOk, FlashFails, TypeOK, CopiesOK, ControlInv, AppPcs,
                  NotStaged
    <2>3. CASE \E s \in Slot, m \in Modes : eos_fw_request_upgrade(s, m)
      <3>1. PICK s \in Slot, m \in Modes, ok \in BOOLEAN :
              eos_fw_request_upgrade(s, m) /\ RequestUpgrade(s, m, ok)
        BY <2>3 DEF eos_fw_request_upgrade
      <3>2. bctl' \in ControlBlock
        BY <3>1, UpgradedType DEF RequestUpgrade, TypeOK
      <3>3. CopiesOK' /\ faults' \in 0..MaxFlashFaults
        BY <3>1, <3>2, SaveEffect DEF RequestUpgrade
      <3> QED BY <3>1, <3>2, <3>3
              DEF eos_fw_request_upgrade, RequestUpgrade, AppRuns, TypeOK, ControlInv,
                  AppPcs, NoStarts
    <2>4. CASE eos_fw_request_recovery
      <3>1. bctl' \in ControlBlock
        BY <2>4, FlaggedType DEF eos_fw_request_recovery, TypeOK, Flag
      <3>2. CopiesOK' /\ faults' \in 0..MaxFlashFaults
        BY <2>4, <3>1, SaveIgnoredEffect DEF eos_fw_request_recovery
      <3> QED BY <2>4, <3>1, <3>2
              DEF eos_fw_request_recovery, AppRuns, TypeOK, ControlInv, AppPcs
    <2>5. CASE eos_fw_factory_reset
      <3>1. bctl' \in ControlBlock
        BY <2>5, FlaggedType DEF eos_fw_factory_reset, TypeOK, Flag
      <3>2. CopiesOK' /\ faults' \in 0..MaxFlashFaults
        BY <2>5, <3>1, SaveEffect DEF eos_fw_factory_reset
      <3> QED BY <2>5, <3>1, <3>2
              DEF eos_fw_factory_reset, AppRuns, TypeOK, ControlInv, AppPcs
    <2>6. CASE \E s \in Slot : eos_fw_update_begin(s)
      <3>1. PICK s \in Slot, ok \in BOOLEAN :
              /\ eos_fw_update_begin(s)
              /\ eos_slot_erase(s, ok)
              /\ upd' = [state |-> IF ok THEN "HEADER" ELSE "ERROR", slot |-> s]
        BY <2>6 DEF eos_fw_update_begin
      <3>2. /\ slots' \in [Slot -> Image \union {Blank}]
            /\ condemned' \subseteq condemned
            /\ faults' \in 0..MaxFlashFaults
        BY <3>1, EraseEffect
      <3> QED BY <3>1, <3>2 DEF eos_fw_update_begin, AppRuns, TypeOK, CopiesOK, ControlInv, AppPcs
    <2>7. CASE \E i \in Image \union {Blank} : eos_fw_update_write(i)
      BY <2>7 
      DEF eos_fw_update_write, FlashOk, FlashFails, AppRuns, TypeOK, CopiesOK, ControlInv, AppPcs
    <2>8. CASE \E m \in Modes : eos_fw_update_finalize(m)
      <3>1. PICK m \in Modes : eos_fw_update_finalize(m)
        BY <2>8
      <3>2. upd.slot \in Slot
        BY <3>1 DEF eos_fw_update_finalize, ControlInv
      <3>3. /\ bctl' \in ControlBlock
            /\ CopiesOK'
            /\ faults' \in 0..MaxFlashFaults
            /\ starts' \in {starts, NoStarts}
        <4>1. CASE \E ok \in BOOLEAN : RequestUpgrade(upd.slot, m, ok)
          <5>1. bctl' \in ControlBlock
            BY <4>1, <3>2, UpgradedType DEF RequestUpgrade, TypeOK
          <5> QED BY <4>1, <5>1, SaveEffect DEF RequestUpgrade
        <4>2. CASE UNCHANGED <<copies, faults, bctl, starts>>
          BY <4>2 DEF TypeOK, CopiesOK
        <4> QED BY <3>1, <4>1, <4>2 DEF eos_fw_update_finalize
      <3>4. /\ upd' \in [state : {"COMPLETE", "ERROR"}, slot : Slot]
            /\ upd'.state \in {"COMPLETE", "ERROR"}
        BY <3>1, <3>2 DEF eos_fw_update_finalize, TypeOK
      <3> QED BY <3>1, <3>3, <3>4
              DEF eos_fw_update_finalize, AppRuns, TypeOK, ControlInv, AppPcs, NoStarts
    <2>9. CASE eos_fw_update_abort
      BY <2>9 DEF eos_fw_update_abort, NoUpdate, AppRuns, TypeOK, CopiesOK, ControlInv, AppPcs
    <2> QED BY <1>6, <2>1, <2>2, <2>3, <2>4, <2>5, <2>6, <2>7, <2>8, <2>9 DEF Application
  <1>7. CASE Recovery
    <2>1. CASE eos_recovery_enter
      <3>1. bctl' \in ControlBlock
        BY <2>1, EnteredType DEF eos_recovery_enter, TypeOK
      <3>2. CopiesOK' /\ faults' \in 0..MaxFlashFaults
        BY <2>1, <3>1, SaveIgnoredEffect DEF eos_recovery_enter
      <3> QED BY <2>1, <3>1, <3>2
              DEF eos_recovery_enter, TypeOK, ControlInv, AppPcs, RecoveryPcs, NoStarts
    <2>2. ASSUME NEW at, NEW s \in Slot, NEW next \in {"wipe_b", "wipe_save"},
                 WipeSlot(at, s, next)
          PROVE  TypeOK' /\ ControlInv'
      <3>1. /\ slots' \in [Slot -> Image \union {Blank}]
            /\ condemned' \subseteq condemned
            /\ faults' \in 0..MaxFlashFaults
        BY <2>2, EraseEffect DEF WipeSlot
      <3> QED BY <2>2, <3>1
              DEF WipeSlot, NextWipe, TypeOK, CopiesOK, ControlInv, AppPcs, RecoveryPcs
    <2>3. CASE WipeSave
      BY <2>3, DefaultsType, SaveIgnoredEffect
      DEF WipeSave, TypeOK, ControlInv, AppPcs, RecoveryPcs
    <2>4. ASSUME NEW s \in Slot, recovery_handle_erase(s)
          PROVE  TypeOK' /\ ControlInv'
      <3>1. /\ slots' \in [Slot -> Image \union {Blank}]
            /\ condemned' \subseteq condemned
            /\ faults' \in 0..MaxFlashFaults
        BY <2>4, EraseEffect DEF recovery_handle_erase
      <3> QED BY <2>4, <3>1 DEF recovery_handle_erase, TypeOK, CopiesOK, ControlInv, AppPcs
    <2>5. ASSUME NEW s \in Slot, recovery_handle_boot(s)
          PROVE  TypeOK' /\ ControlInv'
      <3>1. Booting(bctl, s) \in ControlBlock
        BY BootingType DEF TypeOK
      <3>2. \/ eos_bootctl_save(Booting(bctl, s), TRUE) /\ LoseRam
            \/ /\ eos_bootctl_save(Booting(bctl, s), FALSE)
               /\ bctl' = Booting(bctl, s)
               /\ UNCHANGED <<pc, target, running, staged, upd>>
        BY <2>5 DEF recovery_handle_boot
      <3>3. CopiesOK' /\ faults' \in 0..MaxFlashFaults
        BY <3>1, <3>2, SaveEffect
      <3>4. pc = "recovery" /\ condemned' = {} /\ UNCHANGED <<slots, floor, proven, starts>>
        BY <2>5 DEF recovery_handle_boot
      <3> QED BY <3>1, <3>2, <3>3, <3>4, LoseRamType DEF TypeOK, ControlInv, AppPcs, BootPcs
    <2>6. CASE \E s \in Slot, i \in Image : recovery_handle_write(s, i)
      BY <2>6 DEF recovery_handle_write, TypeOK, CopiesOK, ControlInv, AppPcs
    <2>7. CASE recovery_handle_factory_reset
      <3>1. CopiesOK'
        BY <2>7, DefaultsType, CompleteEffect, FailedEffect
        DEF recovery_handle_factory_reset, TypeOK
      <3>2. faults' \in 0..MaxFlashFaults /\ slots' \in [Slot -> Image \union {Blank}]
        BY <2>7 DEF recovery_handle_factory_reset, EraseBoth, FlashOk, FlashFails, TypeOK
      <3> QED BY <2>7, <3>1, <3>2, DefaultsType
              DEF recovery_handle_factory_reset, TypeOK, ControlInv, AppPcs
    <2> QED BY <1>7, <2>1, <2>2, <2>3, <2>4, <2>5, <2>6, <2>7 DEF Recovery, Slot
  <1> QED BY <1>0, <1>1, <1>2, <1>3, <1>4, <1>5, <1>6, <1>7, <1>8, <1>9 DEF Next

-----------------------------------------------------------------------------
(* Only a save writes the copies; a complete one makes them equal.         *)
LEMMA CopiesStep == TypeOK /\ CopiesInv /\ [Next]_vars => CopiesInv'
  <1> SUFFICES ASSUME TypeOK, CopiesInv, [Next]_vars PROVE CopiesInv'
    OBVIOUS
  <1> DEFINE Save == UNCHANGED copies \/ primary' = backup' \/ cuts' = cuts + 1
  <1>s. ASSUME NEW b, NEW ok, eos_bootctl_save(b, ok) PROVE Save
    BY <1>s DEF eos_bootctl_save, SaveCompletes, SaveIsCut
  <1>i. ASSUME NEW b, SaveIgnoringResult(b) PROVE Save
    BY <1>i, <1>s DEF SaveIgnoringResult
  <1>p. ASSUME NEW b, LosePowerSaving(b) PROVE Save
    BY <1>p DEF LosePowerSaving, SaveIsCut
  <1>0. SUFFICES Save
    BY DEF copies, CopiesInv, TypeOK, CopiesOK
  <1>1. CASE UNCHANGED vars
    BY <1>1 DEF vars, copies
  <1>2. CASE Reset \/ eboot_main \/ ebldr_stage0_main \/ HandOver
    BY <1>2, <1>i DEF Reset, eboot_main, ebldr_stage0_main, HandOver
  <1>3. CASE eos_boot_policy_select
    BY <1>3, <1>i DEF eos_boot_policy_select, RollBack, NothingToRollBackTo, TestPending,
                      DropPending, BootActive, FallBack, NoImage
  <1>4. CASE eboot_jump_to_app
    BY <1>4, <1>i DEF eboot_jump_to_app, Refuse, Start
  <1>5. CASE Application
    BY <1>5, <1>i, <1>s
    DEF Application, eos_fw_confirm_running_image, eos_rollback_commit, RequestUpgrade,
        eos_fw_request_upgrade, eos_fw_request_recovery, eos_fw_factory_reset,
        eos_fw_update_begin, eos_fw_update_write, eos_fw_update_finalize, eos_fw_update_abort
  <1>6. CASE Recovery
    BY <1>6, <1>i, <1>s
    DEF Recovery, eos_recovery_enter, WipeSlot, WipeSave, recovery_handle_erase,
        recovery_handle_boot, recovery_handle_write, recovery_handle_factory_reset,
        SaveCompletes, SaveIsCut
  <1>7. CASE PowerLossInSave
    BY <1>7, <1>p DEF PowerLossInSave, CutOnTheWay, CutInJump, CutVouching, CutInEnter,
                      CutInCommand
  <1> QED BY <1>1, <1>2, <1>3, <1>4, <1>5, <1>6, <1>7 DEF Next

(* A request for a factory reset survives every step until both slots are  *)
(* erased or an operator overrules it, while at most one save in a row is  *)
(* cut short.                                                              *)
LEMMA ResetStep ==
  OneCut /\ TypeOK /\ CopiesInv /\ ResetInv /\ ControlInv /\ [Next]_vars => ResetInv'
  <1> SUFFICES ASSUME OneCut, TypeOK, CopiesInv, ResetInv, ControlInv, [Next]_vars
               PROVE  ResetInv'
    OBVIOUS
  <1>a. nv \in ControlBlock /\ bctl \in ControlBlock
    BY LoadType DEF TypeOK
  <1>0. CASE UNCHANGED vars
    BY <1>0, LoadSame DEF vars, copies, ResetInv
  <1>1. CASE Reset
    BY <1>1, LoadSame DEF Reset, LoseRam, ResetInv
  <1>2. CASE ebldr_stage0_main
    <2>1. CASE condemned = {}
      BY <1>2, <2>1 DEF ebldr_stage0_main, ResetInv
    <2>2. CASE condemned # {}
      <3>1. "FACTORY_RESET" \in nv.flags /\ should_recover(nv)
        BY <2>2 DEF ResetInv, should_recover
      <3>2. pc' = "enter" /\ UNCHANGED copies /\ bctl' = nv
        BY <1>2, <3>1 DEF ebldr_stage0_main
      <3> QED BY <3>1, <3>2, LoadSame DEF ResetInv
    <2> QED BY <2>1, <2>2
  <1>3. CASE eboot_main
    <2>1. condemned' = {} /\ pc' # "wipe_b"
      BY <1>3 DEF eboot_main, ResetInv
    <2> QED BY <2>1 DEF ResetInv
  <1>4. CASE eos_boot_policy_select
    <2>1. condemned' = {}
      BY <1>4 DEF eos_boot_policy_select, ResetInv
    <2> QED BY <2>1 DEF ResetInv
  <1>5. CASE eboot_jump_to_app
    <2>1. condemned' = {}
      BY <1>5 DEF eboot_jump_to_app, ResetInv
    <2> QED BY <2>1 DEF ResetInv
  <1>8. CASE HandOver
    <2>1. condemned' = {}
      BY <1>8 DEF HandOver, ResetInv
    <2> QED BY <2>1 DEF ResetInv
  <1>9. CASE PowerLossInSave
    <2>1. PICK b \in ControlBlock :
            /\ LosePowerSaving(b)
            /\ \/ condemned' = {}
               \/ /\ condemned' = condemned
                  /\ "FACTORY_RESET" \in bctl.flags => "FACTORY_RESET" \in b.flags
               \/ /\ condemned' = condemned
                  /\ \/ pc \in {"select", "jump", "handover", "wipe_save"}
                     \/ pc = "stage0" /\ "FACTORY_RESET" \notin nv.flags
      BY <1>9, CutSaves
    <2>2. nv' \in {nv, b} /\ pc' = "stage0"
      BY <2>1, CutKeepsBlock DEF LosePowerSaving, LoseRam, TypeOK
    <2>3. CASE condemned' = {}
      BY <2>2, <2>3 DEF ResetInv
    <2>4. CASE condemned' # {}
      <3>1. condemned # {} /\ "FACTORY_RESET" \in nv.flags
        BY <2>1, <2>4 DEF ResetInv
      <3>2. "FACTORY_RESET" \in bctl.flags => "FACTORY_RESET" \in b.flags
        BY <2>1, <2>4, <3>1 DEF ResetInv
      <3>3. pc # "stage0"
        BY <1>9, <3>1 DEF PowerLossInSave, CutOnTheWay, CutInJump, CutVouching, CutInEnter,
                          CutInCommand, AppRuns, should_recover
      <3>4. "FACTORY_RESET" \in nv'.flags
        BY <2>2, <3>1, <3>2, <3>3 DEF ResetInv
      <3> QED BY <2>2, <3>4 DEF ResetInv
    <2> QED BY <2>3, <2>4
  <1>6. CASE Application
    <2>0. SUFFICES ASSUME condemned' # {}
                   PROVE  /\ "FACTORY_RESET" \in nv'.flags
                          /\ "FACTORY_RESET" \in bctl'.flags
      <3>1. pc' \in {"app", "commit"}
        BY <1>6 DEF Application, eos_fw_confirm_running_image, AfterConfirm,
                    eos_rollback_commit, eos_fw_request_upgrade, eos_fw_request_recovery,
                    eos_fw_factory_reset, eos_fw_update_begin, eos_fw_update_write,
                    eos_fw_update_finalize, eos_fw_update_abort, AppRuns
      <3> QED BY <3>1 DEF ResetInv
    <2>a. pc \in {"app", "commit"}
      BY <1>6 DEF Application, eos_fw_confirm_running_image,
                  eos_rollback_commit, eos_fw_request_upgrade, eos_fw_request_recovery,
                  eos_fw_factory_reset, eos_fw_update_begin, eos_fw_update_write,
                  eos_fw_update_finalize, eos_fw_update_abort, AppRuns
    <2>b. condemned # {} => "FACTORY_RESET" \in nv.flags /\ "FACTORY_RESET" \in bctl.flags
      BY <2>a DEF ResetInv
    <2>1. CASE eos_fw_confirm_running_image
      <3>1. bctl' \in ControlBlock /\ "FACTORY_RESET" \in bctl'.flags
        BY <2>0, <2>1, <2>b, ConfirmedType DEF eos_fw_confirm_running_image, TypeOK
      <3>2. nv' \in {nv, bctl'}
        BY <2>1, <3>1, SaveEffect DEF eos_fw_confirm_running_image
      <3> QED BY <2>0, <2>1, <2>b, <3>1, <3>2 DEF eos_fw_confirm_running_image
    <2>2. CASE eos_rollback_commit
      BY <2>0, <2>2, <2>b, LoadSame DEF eos_rollback_commit
    <2>3. CASE \E s \in Slot, m \in Modes : eos_fw_request_upgrade(s, m)
      <3>1. PICK s \in Slot, m \in Modes, ok \in BOOLEAN :
              eos_fw_request_upgrade(s, m) /\ RequestUpgrade(s, m, ok)
        BY <2>3 DEF eos_fw_request_upgrade
      <3>2. condemned # {}
        BY <2>0, <3>1 DEF eos_fw_request_upgrade
      <3>3. bctl' \in ControlBlock /\ "FACTORY_RESET" \in bctl'.flags
        BY <3>1, <3>2, <2>b, UpgradedType DEF RequestUpgrade, TypeOK
      <3>4. nv' \in {nv, bctl'}
        BY <3>1, <3>3, SaveEffect DEF RequestUpgrade
      <3> QED BY <2>b, <3>2, <3>3, <3>4
    <2>4. CASE eos_fw_request_recovery
      <3>1. bctl' \in ControlBlock /\ "FACTORY_RESET" \in bctl'.flags
        BY <1>a, <2>0, <2>4, <2>b, FlaggedType DEF eos_fw_request_recovery, Flag
      <3>2. nv' \in {nv, bctl'}
        BY <2>4, <3>1, SaveIgnoredEffect DEF eos_fw_request_recovery
      <3> QED BY <2>0, <2>4, <2>b, <3>1, <3>2 DEF eos_fw_request_recovery
    <2>5. CASE eos_fw_factory_reset
      <3>1. bctl' \in ControlBlock /\ "FACTORY_RESET" \in bctl'.flags
        BY <1>a, <2>5, FlaggedType DEF eos_fw_factory_reset, Flag
      <3>2. PICK ok \in BOOLEAN :
              /\ eos_bootctl_save(bctl', ok)
              /\ condemned' = IF ok THEN {s \in Slot : slots[s] # Blank} ELSE condemned
        BY <2>5 DEF eos_fw_factory_reset
      <3>3. nv' \in {nv, bctl'} /\ (ok => nv' = bctl')
        BY <3>1, <3>2, SaveEffect
      <3> QED BY <2>0, <2>b, <3>1, <3>2, <3>3
    <2>6. CASE \E s \in Slot : eos_fw_update_begin(s)
      BY <2>0, <2>6, <2>b, EraseEffect, LoadSame DEF eos_fw_update_begin
    <2>7. CASE \E i \in Image \union {Blank} : eos_fw_update_write(i)
      BY <2>0, <2>7, <2>b, LoadSame DEF eos_fw_update_write
    <2>8. CASE \E m \in Modes : eos_fw_update_finalize(m)
      <3>1. PICK m \in Modes : eos_fw_update_finalize(m)
        BY <2>8
      <3>2. condemned # {} /\ upd.slot \in Slot
        BY <2>0, <3>1 DEF eos_fw_update_finalize, ControlInv
      <3>3. CASE \E ok \in BOOLEAN : RequestUpgrade(upd.slot, m, ok)
        <4>1. bctl' \in ControlBlock /\ "FACTORY_RESET" \in bctl'.flags
          BY <3>2, <3>3, <2>b, UpgradedType DEF RequestUpgrade, TypeOK
        <4>2. nv' \in {nv, bctl'}
          BY <3>3, <4>1, SaveEffect DEF RequestUpgrade
        <4> QED BY <2>b, <3>2, <4>1, <4>2
      <3>4. CASE UNCHANGED <<copies, faults, bctl, starts>>
        BY <2>b, <3>2, <3>4, LoadSame
      <3> QED BY <3>1, <3>3, <3>4 DEF eos_fw_update_finalize
    <2>9. CASE eos_fw_update_abort
      BY <2>0, <2>9, <2>b, LoadSame DEF eos_fw_update_abort
    <2> QED BY <1>6, <2>1, <2>2, <2>3, <2>4, <2>5, <2>6, <2>7, <2>8, <2>9 DEF Application
  <1>7. CASE Recovery
    <2>1. CASE eos_recovery_enter
      <3>1. bctl' \in ControlBlock
        BY <1>a, <2>1, EnteredType DEF eos_recovery_enter
      <3>2. nv' \in {nv, bctl'}
        BY <2>1, <3>1, SaveIgnoredEffect DEF eos_recovery_enter
      <3>3. "FACTORY_RESET" \in bctl.flags => "FACTORY_RESET" \in bctl'.flags
        BY <1>a, <2>1, EnteredType DEF eos_recovery_enter
      <3> QED BY <2>1, <3>2, <3>3 DEF eos_recovery_enter, ResetInv
    <2>2. CASE WipeSlot("wipe_a", "A", "wipe_b")
      <3>1. PICK ok \in BOOLEAN : eos_slot_erase("A", ok) /\ pc' = NextWipe(ok, "wipe_b")
        BY <2>2 DEF WipeSlot
      <3>2. condemned' \subseteq condemned /\ (ok => "A" \notin condemned')
        BY <3>1, EraseEffect DEF Slot
      <3> QED BY <2>2, <3>1, <3>2, LoadSame DEF WipeSlot, NextWipe, ResetInv
    <2>3. CASE WipeSlot("wipe_b", "B", "wipe_save")
      <3>1. PICK ok \in BOOLEAN : eos_slot_erase("B", ok) /\ pc' = NextWipe(ok, "wipe_save")
        BY <2>3 DEF WipeSlot
      <3>2. condemned' \subseteq condemned /\ (ok => "B" \notin condemned')
        BY <3>1, EraseEffect DEF Slot
      <3>3. ok => condemned' = {}
        BY <2>3, <3>2 DEF WipeSlot, ResetInv, TypeOK, Slot
      <3> QED BY <2>3, <3>1, <3>2, <3>3, LoadSame DEF WipeSlot, NextWipe, ResetInv
    <2>4. CASE WipeSave
      BY <2>4 DEF WipeSave, ResetInv
    <2>5. ASSUME NEW s \in Slot, recovery_handle_erase(s) PROVE ResetInv'
      <3>1. condemned' \subseteq condemned
        BY <2>5, EraseEffect DEF recovery_handle_erase
      <3> QED BY <2>5, <3>1, LoadSame DEF recovery_handle_erase, ResetInv
    <2>6. ASSUME NEW s \in Slot, recovery_handle_boot(s) PROVE ResetInv'
      <3>1. condemned' = {}
        BY <2>6 DEF recovery_handle_boot
      <3> QED BY <3>1 DEF ResetInv
    <2>7. CASE \E s \in Slot, i \in Image : recovery_handle_write(s, i)
      BY <2>7, LoadSame DEF recovery_handle_write, ResetInv
    <2>8. CASE recovery_handle_factory_reset
      BY <2>8 DEF recovery_handle_factory_reset, ResetInv
    <2> QED BY <1>7, <2>1, <2>2, <2>3, <2>4, <2>5, <2>6, <2>7, <2>8 DEF Recovery
  <1> QED BY <1>0, <1>1, <1>2, <1>3, <1>4, <1>5, <1>6, <1>7, <1>8, <1>9 DEF Next

-----------------------------------------------------------------------------
(* The floor moves only in eos_rollback_commit(), which runs for an image  *)
(* that was confirmed and stops at the counter it staged.                  *)
LEMMA FloorStep == TypeOK /\ ControlInv /\ FloorInv /\ [Next]_vars => FloorInv'
  <1> SUFFICES ASSUME TypeOK, ControlInv, FloorInv, [Next]_vars PROVE FloorInv'
    OBVIOUS
  <1> USE ImageAssumption DEF AppPcs
  <1>0. CASE UNCHANGED vars
    BY <1>0 DEF vars, FloorInv, FloorWithinProven
  <1>1. CASE Reset
    BY <1>1 DEF Reset, LoseRam, FloorInv, FloorWithinProven
  <1>2. CASE ebldr_stage0_main
    BY <1>2 DEF ebldr_stage0_main, FloorInv, FloorWithinProven
  <1>3. CASE eboot_main
    BY <1>3 DEF eboot_main, FloorInv, FloorWithinProven
  <1>4. CASE eos_boot_policy_select
    <2>1. pc' \notin AppPcs \union {"handover"}
      BY <1>4 DEF eos_boot_policy_select, RollBack, NothingToRollBackTo, TestPending,
                  DropPending, BootActive, FallBack, NoImage, Choose, NoBootableImage
    <2> QED BY <1>4, <2>1 DEF eos_boot_policy_select, FloorInv, FloorWithinProven
  <1>5. CASE eboot_jump_to_app
    <2>1. CASE Refuse
      BY <1>5, <2>1 DEF eboot_jump_to_app, Refuse, FloorInv, FloorWithinProven
    <2>2. CASE Start
      <3>1. /\ floor <= ImageCounter[slots[target]]
            /\ staged' = ImageCounter[slots[target]]
            /\ pc' = "handover"
        BY <2>2 DEF Start, Startable, TypeOK
      <3> QED BY <1>5, <3>1 DEF eboot_jump_to_app, FloorInv, FloorWithinProven
    <2> QED BY <1>5, <2>1, <2>2 DEF eboot_jump_to_app
  <1>8. CASE HandOver
    BY <1>8 DEF HandOver, FloorInv, FloorWithinProven
  <1>9. CASE PowerLossInSave
    <2>1. pc' = "stage0" /\ UNCHANGED <<floor, proven>>
      BY <1>9 DEF PowerLossInSave, CutOnTheWay, CutInJump, CutVouching, CutInEnter,
                  CutInCommand, LosePowerSaving, LoseRam
    <2> QED BY <2>1 DEF FloorInv, FloorWithinProven
  <1>6. CASE Application
    <2>1. CASE eos_fw_confirm_running_image
      BY <2>1 DEF eos_fw_confirm_running_image, AfterConfirm, AppRuns, FloorInv,
                  FloorWithinProven, ControlInv
    <2>2. CASE eos_rollback_commit
      <3>1. running \in Image /\ proven = running /\ ImageCounter[running] \in Nat
        BY <2>2 DEF eos_rollback_commit, ControlInv, FloorInv
      <3>2. floor' <= ImageCounter[running]
        BY <2>2, <3>1 DEF eos_rollback_commit, StagedIsStale, FloorInv, TypeOK, NotStaged
      <3> QED BY <2>2, <3>1, <3>2
              DEF eos_rollback_commit, FloorInv, FloorWithinProven, NotStaged
    <2>3. CASE \E s \in Slot, m \in Modes : eos_fw_request_upgrade(s, m)
      BY <2>3 DEF eos_fw_request_upgrade, FloorInv, FloorWithinProven
    <2>4. CASE eos_fw_request_recovery
      BY <2>4 DEF eos_fw_request_recovery, FloorInv, FloorWithinProven
    <2>5. CASE eos_fw_factory_reset
      BY <2>5 DEF eos_fw_factory_reset, FloorInv, FloorWithinProven
    <2>6. CASE \E s \in Slot : eos_fw_update_begin(s)
      BY <2>6 DEF eos_fw_update_begin, AppRuns, FloorInv, FloorWithinProven
    <2>7. CASE \E i \in Image \union {Blank} : eos_fw_update_write(i)
      BY <2>7 DEF eos_fw_update_write, AppRuns, FloorInv, FloorWithinProven
    <2>8. CASE \E m \in Modes : eos_fw_update_finalize(m)
      BY <2>8 DEF eos_fw_update_finalize, FloorInv, FloorWithinProven
    <2>9. CASE eos_fw_update_abort
      BY <2>9 DEF eos_fw_update_abort, FloorInv, FloorWithinProven
    <2> QED BY <1>6, <2>1, <2>2, <2>3, <2>4, <2>5, <2>6, <2>7, <2>8, <2>9 DEF Application
  <1>7. CASE Recovery
    <2>1. pc' \notin AppPcs \union {"handover"} /\ UNCHANGED <<floor, proven>>
      BY <1>7 DEF Recovery, eos_recovery_enter, WipeSlot, NextWipe, WipeSave,
                  recovery_handle_erase, recovery_handle_boot, recovery_handle_write,
                  recovery_handle_factory_reset, LoseRam
    <2> QED BY <2>1 DEF FloorInv, FloorWithinProven
  <1> QED BY <1>0, <1>1, <1>2, <1>3, <1>4, <1>5, <1>6, <1>7, <1>8, <1>9 DEF Next

-----------------------------------------------------------------------------
(* The conjunction is inductive.                                           *)
THEOREM InvariantHolds == Spec => []IInv
  <1>1. IInv /\ [Next]_vars => IInv'
    BY TypeStep, CopiesStep, FloorStep DEF IInv
  <1> QED BY InitInv, <1>1, PTL DEF Spec

(* Every state of the device is well formed; the attempt counter stays     *)
(* within EOS_MAX_BOOT_ATTEMPTS however resets and errors fall.            *)
THEOREM TypeCorrect == Spec => []TypeOK
  <1>1. IInv => TypeOK
    BY DEF IInv
  <1> QED BY InvariantHolds, <1>1, PTL

(* The monotonic counter never passes the counter of the image that was    *)
(* confirmed last, so eos_rollback_commit() cannot lock that image out.    *)
THEOREM FloorSafety == Spec => []FloorWithinProven
  <1>1. IInv => FloorWithinProven
    BY DEF IInv, FloorInv
  <1> QED BY InvariantHolds, <1>1, PTL

(* A factory reset that is outstanding is kept with the control block.     *)
THEOREM ResetIsKept ==
  ASSUME OneCut
  PROVE  Spec => []ResetInv
  <1>1. Init => ResetInv
    BY DEF Init, ResetInv
  <1>2. IInv /\ ResetInv /\ [Next]_vars => ResetInv'
    BY ResetStep DEF IInv
  <1> QED BY InvariantHolds, <1>1, <1>2, PTL DEF Spec

(* Once eos_fw_factory_reset() has succeeded, no image it condemned is     *)
(* started again, for any number of resets and flash errors, as long as no *)
(* two eos_bootctl_save() in a row are cut short.                          *)
THEOREM FactoryResetSafety ==
  ASSUME OneCut
  PROVE  Spec => FactoryResetHonoured
  <1>1. IInv /\ ResetInv => (pc = "handover" /\ pc' = "app" => target \notin condemned)
    BY DEF ResetInv
  <1> QED BY InvariantHolds, ResetIsKept, <1>1, PTL DEF FactoryResetHonoured
=============================================================================
