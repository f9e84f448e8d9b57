------------------------ MODULE Boot_updates_proofs ------------------------
(***************************************************************************)
(* Proofs about updates on a device whose flash reports no errors and on   *)
(* which no two saves in a row lose power.  Neither hypothesis can be      *)
(* dropped: eboot_jump_to_app() ignores the result of the save that counts *)
(* an attempt and moves the active slot, so one that fails leaves the      *)
(* durable block behind what is running, and two that lose power can leave *)
(* no block at all.                                                        *)
(***************************************************************************)
EXTENDS Boot_proofs

(* A save that reports an error needs the flash to fail.                   *)
NoFlashErrors == MaxFlashFaults = 0

(* While an application runs, its copy of the block is the durable one,    *)
(* and the policy's copy is what it loaded until it chooses.               *)
CopyInv ==
  /\ pc \in AppPcs => bctl = nv
  /\ pc = "select" => bctl = nv
  /\ pc = "jump" => target = bctl.active
  /\ pc = "handover" => bctl = nv /\ target = bctl.active

(* The starts of a slot nobody vouched for are counted by the durable      *)
(* attempts, or the policy has just turned to the other slot, which holds  *)
(* an image and has all its attempts left.                                 *)
CountedStarts ==
  \/ starts = NoStarts
  \/ starts.slot = nv.active /\ starts.n <= nv.attempts
  \/ /\ starts.slot # nv.active /\ starts.n <= MaxAttempts
     /\ Verifies(slots[nv.active])
     /\ nv.attempts = 0 /\ nv.pending = None
     /\ pc \notin AppPcs \union {"handover"}

TrialInv ==
  /\ CountedStarts
  /\ pc \in RecoveryPcs \ {"enter"} => starts = NoStarts
  /\ pc = "jump" /\ starts.slot = target => starts.n <= bctl.attempts

UpdateInv == CopyInv /\ TrialInv

(* In test mode the application runs from the active slot, and an update   *)
(* under way has another target.                                           *)
SlotInv ==
  /\ pc \in AppPcs =>
       /\ nv.active = target
       /\ slots[target] = running
       /\ upd.state \in {"HEADER", "VERIFY"} => upd.slot # target
  /\ pc \notin AppPcs => upd = NoUpdate

-----------------------------------------------------------------------------
(* Without flash errors every eos_bootctl_save() succeeds and commits.     *)
LEMMA FaultlessSave ==
  ASSUME NoFlashErrors, TypeOK, NEW b \in ControlBlock, NEW ok \in BOOLEAN,
         eos_bootctl_save(b, ok)
  PROVE  ok /\ nv' = b
  <1>1. ok
    BY DEF NoFlashErrors, TypeOK, eos_bootctl_save, FlashFails
  <1> QED BY <1>1, CompleteEffect DEF eos_bootctl_save

(* The same for the saves whose result the code does not look at.          *)
LEMMA FaultlessIgnored ==
  ASSUME NoFlashErrors, TypeOK, NEW b \in ControlBlock, SaveIgnoringResult(b)
  PROVE  nv' = b
  BY FaultlessSave DEF SaveIgnoringResult

(* A save that loses power commits or leaves the block as it was.          *)
LEMMA CutIsAtomic ==
  ASSUME OneCut, TypeOK, CopiesInv, NEW b \in ControlBlock, LosePowerSaving(b)
  PROVE  nv' \in {nv, b} /\ pc' = "stage0" /\ upd' = NoUpdate
  BY CutKeepsBlock DEF LosePowerSaving, LoseRam, TypeOK

(* Wherever power is lost inside a save, stage-0 starts over.              *)
LEMMA CutRestarts ==
  ASSUME PowerLossInSave
  PROVE  pc' = "stage0" /\ upd' = NoUpdate /\ UNCHANGED proven
  BY DEF PowerLossInSave, CutOnTheWay, CutInJump, CutVouching, CutInEnter, CutInCommand,
         LosePowerSaving, LoseRam

(* The steps of a running application leave it running, and what it saves  *)
(* is its copy of the block.                                               *)
LEMMA ApplicationStep ==
  ASSUME NoFlashErrors, TypeOK, TypeOK', CopyInv, Application
  PROVE  /\ pc \in AppPcs /\ pc' \in AppPcs
         /\ nv = bctl /\ nv' = bctl'
         /\ UNCHANGED <<target, running>>
  <1> USE DEF AppPcs, AppRuns, CopyInv
  <1>0. bctl' \in ControlBlock
    BY DEF TypeOK
  <1>1. CASE eos_fw_confirm_running_image
    BY <1>0, <1>1, FaultlessSave DEF eos_fw_confirm_running_image, AfterConfirm
  <1>2. CASE eos_rollback_commit
    BY <1>2, LoadSame DEF eos_rollback_commit
  <1>3. CASE \E s \in Slot, m \in Modes : eos_fw_request_upgrade(s, m)
    BY <1>0, <1>3, FaultlessSave DEF eos_fw_request_upgrade, RequestUpgrade
  <1>4. CASE eos_fw_request_recovery
    BY <1>0, <1>4, FaultlessIgnored DEF eos_fw_request_recovery
  <1>5. CASE eos_fw_factory_reset
    BY <1>0, <1>5, FaultlessSave DEF eos_fw_factory_reset
  <1>6. CASE \E s \in Slot : eos_fw_update_begin(s)
    BY <1>6, LoadSame DEF eos_fw_update_begin
  <1>7. CASE \E i \in Image \union {Blank} : eos_fw_update_write(i)
    BY <1>7, LoadSame DEF eos_fw_update_write
  <1>8. CASE \E m \in Modes : eos_fw_update_finalize(m)
    BY <1>0, <1>8, FaultlessSave, LoadSame DEF eos_fw_update_finalize, RequestUpgrade
  <1>9. CASE eos_fw_update_abort
    BY <1>9, LoadSame DEF eos_fw_update_abort
  <1> QED BY <1>1, <1>2, <1>3, <1>4, <1>5, <1>6, <1>7, <1>8, <1>9 DEF Application

(* The steps of recovery mode end in recovery mode or in a reset; the      *)
(* entry forgets the starts counted so far and the others leave that.      *)
LEMMA RecoveryStep ==
  ASSUME Recovery
  PROVE  /\ pc \in RecoveryPcs
         /\ pc' \in (RecoveryPcs \ {"enter"}) \union {"stage0"}
         /\ starts' = NoStarts \/ (pc # "enter" /\ starts' = starts)
         /\ upd' \in {upd, NoUpdate}
  BY DEF Recovery, RecoveryPcs, eos_recovery_enter, WipeSlot, NextWipe, WipeSave,
         recovery_handle_erase, recovery_handle_boot, recovery_handle_write,
         recovery_handle_factory_reset, LoseRam

(* What eos_boot_policy_select() leaves: it goes on, gives up, or has      *)
(* chosen the slot that its copy of the block calls active.                *)
LEMMA SelectCopies ==
  ASSUME NoFlashErrors, TypeOK, CopyInv, eos_boot_policy_select
  PROVE  /\ pc' \in {"select", "enter", "jump"}
         /\ pc' = "select" => bctl' = nv'
         /\ pc' = "jump" => target' = bctl'.active
  <1> USE DEF eos_boot_policy_select, Choose, NoBootableImage
  <1>0. bctl \in ControlBlock
    BY DEF TypeOK
  <1>1. CASE RollBack
    <2>1. target' = Other /\ bctl'.active = Other /\ pc' = "jump"
      BY <1>0, <1>1, RolledBackType DEF RollBack, Other
    <2> QED BY <2>1
  <1>2. CASE NothingToRollBackTo
    BY <1>2 DEF NothingToRollBackTo
  <1>3. CASE TestPending
    BY <1>0, <1>3 DEF TestPending, TestBoot, ClearPending, ControlBlock
  <1>4. CASE DropPending
    BY <1>0, <1>4, ClearPendingType, FaultlessIgnored DEF DropPending
  <1>5. CASE BootActive
    BY <1>5 DEF BootActive
  <1>6. CASE FallBack
    BY <1>0, <1>6 DEF FallBack, ControlBlock
  <1>7. CASE NoImage
    BY <1>7 DEF NoImage
  <1> QED BY <1>1, <1>2, <1>3, <1>4, <1>5, <1>6, <1>7

(* The copies of the block agree where CopyInv says so.                    *)
LEMMA CopyStep ==
  NoFlashErrors /\ TypeOK /\ TypeOK' /\ CopyInv /\ [Next]_vars => CopyInv'
  <1> SUFFICES ASSUME NoFlashErrors, TypeOK, TypeOK', CopyInv, [Next]_vars PROVE CopyInv'
    OBVIOUS
  <1>0. CASE UNCHANGED vars
    BY <1>0, LoadSame DEF vars, copies, CopyInv
  <1>1. CASE Reset
    BY <1>1 DEF Reset, LoseRam, CopyInv, AppPcs
  <1>2. CASE ebldr_stage0_main
    BY <1>2 DEF ebldr_stage0_main, CopyInv, AppPcs
  <1>3. CASE eboot_main
    BY <1>3, LoadSame DEF eboot_main, CopyInv, AppPcs
  <1>4. CASE eos_boot_policy_select
    BY <1>4, SelectCopies DEF CopyInv, AppPcs
  <1>5. CASE eboot_jump_to_app
    <2>1. CASE Refuse
      BY <2>1 DEF Refuse, CopyInv, AppPcs
    <2>2. CASE Start
      <3>1. nv' = bctl' /\ bctl' = AttemptCounted(bctl) /\ pc' = "handover"
        BY <2>2, FaultlessIgnored DEF Start, TypeOK
      <3>2. bctl'.active = bctl.active
        BY <3>1 DEF AttemptCounted, TypeOK, ControlBlock
      <3> QED BY <1>5, <3>1, <3>2 DEF eboot_jump_to_app, CopyInv, AppPcs
    <2> QED BY <1>5, <2>1, <2>2 DEF eboot_jump_to_app
  <1>8. CASE HandOver
    BY <1>8 DEF HandOver, CopyInv, AppPcs
  <1>9. CASE PowerLossInSave
    BY <1>9, CutRestarts DEF CopyInv, AppPcs
  <1>6. CASE Application
    BY <1>6, ApplicationStep DEF CopyInv, AppPcs
  <1>7. CASE Recovery
    BY <1>7, RecoveryStep DEF CopyInv, AppPcs, RecoveryPcs
  <1> QED BY <1>0, <1>1, <1>2, <1>3, <1>4, <1>5, <1>6, <1>7, <1>8, <1>9 DEF Next

-----------------------------------------------------------------------------
(* A choice of eos_boot_policy_select() keeps the starts counted.  Only    *)
(* the roll-back sets the attempts to 0, and it turns to the other slot.   *)
LEMMA SelectTrial ==
  ASSUME NoFlashErrors, TypeOK, CopyInv, TrialInv, eos_boot_policy_select
  PROVE  TrialInv'
  <1> USE BootAssumption DEF eos_boot_policy_select, Choose, NoBootableImage
  <1>0. /\ bctl = nv /\ bctl \in ControlBlock
        /\ slots \in [Slot -> Image \union {Blank}]
        /\ Other \in Slot /\ Other # nv.active
        /\ bctl.active \in Slot /\ bctl.attempts \in 0..MaxAttempts
        /\ starts \in [slot : Slot \union {None}, n : 0..MaxAttempts + 1]
        /\ UNCHANGED <<starts, slots>>
    BY BlockFields DEF TypeOK, CopyInv, Other, eos_bootctl_other_slot, Slot
  <1>s. CountedStarts /\ pc = "select"
    BY DEF TrialInv
  <1>f. NoStarts.n = 0 /\ NoStarts.slot = None /\ None \notin Slot
    BY DEF NoStarts, None, Slot
  <1>1. CASE RollBack
    <2>1. /\ nv' = bctl' /\ pc' = "jump" /\ target' = Other
          /\ eos_slot_is_valid(Other)
          /\ bctl'.active = Other /\ bctl'.attempts = 0 /\ bctl'.pending = None
      BY <1>0, <1>1, RolledBackType, FaultlessIgnored DEF RollBack, MayRollBack, Other
    <2>2. starts = NoStarts \/ (starts.slot = nv.active /\ starts.n <= MaxAttempts)
      BY <1>0, <1>1, <1>s DEF CountedStarts, RollBack, MayRollBack, Exhausted
    <2>3. CountedStarts'
      BY <1>0, <2>1, <2>2 DEF CountedStarts, AppPcs, eos_slot_is_valid, Verifies
    <2>4. starts'.slot # target'
      BY <1>0, <1>f, <2>1, <2>2
    <2> QED BY <2>1, <2>3, <2>4 DEF TrialInv, RecoveryPcs
  <1>2. CASE NothingToRollBackTo
    BY <1>0, <1>2, <1>s, LoadSame DEF NothingToRollBackTo, TrialInv, CountedStarts, RecoveryPcs, AppPcs
  <1>3. CASE TestPending
    <2>1. /\ nv' = nv /\ pc' = "jump" /\ bctl'.attempts = bctl.attempts
          /\ nv.pending # None
      BY <1>0, <1>3, TestBootType, BlockFields, LoadSame DEF TestPending, UpgradePending
    <2> QED BY <1>0, <1>s, <1>f, <2>1 DEF TrialInv, CountedStarts, RecoveryPcs, AppPcs
  <1>4. CASE DropPending
    <2>1. nv' = ClearPending(nv) /\ pc' = "select" /\ nv.pending # None
      BY <1>0, <1>4, ClearPendingType, FaultlessIgnored
      DEF DropPending, MustDropPending, UpgradePending
    <2>2. nv'.active = nv.active /\ nv'.attempts = nv.attempts
      BY <1>0, <2>1 DEF ClearPending, ControlBlock
    <2> QED BY <1>0, <1>s, <2>1, <2>2 DEF TrialInv, CountedStarts, RecoveryPcs, AppPcs
  <1>5. CASE BootActive
    BY <1>0, <1>5, <1>s, <1>f, LoadSame DEF BootActive, TrialInv, CountedStarts, RecoveryPcs, AppPcs
  <1>6. CASE FallBack
    <2>1. /\ nv' = nv /\ pc' = "jump" /\ target' = Other
          /\ ~Verifies(slots[nv.active])
      BY <1>0, <1>6, LoadSame DEF FallBack, eos_slot_is_valid
    <2> QED BY <1>0, <1>s, <1>f, <2>1 DEF TrialInv, CountedStarts, RecoveryPcs, AppPcs
  <1>7. CASE NoImage
    BY <1>0, <1>7, <1>s, LoadSame DEF NoImage, TrialInv, CountedStarts, RecoveryPcs, AppPcs
  <1> QED BY <1>1, <1>2, <1>3, <1>4, <1>5, <1>6, <1>7

(* The attempt eboot_jump_to_app() counts covers the start it is about to  *)
(* make.                                                                   *)
LEMMA CountedTry ==
  ASSUME TypeOK, ControlInv, CopyInv, TrialInv, pc = "jump"
  PROVE  /\ Tried(target).slot = AttemptCounted(bctl).active
         /\ Tried(target).n <= AttemptCounted(bctl).attempts
  <1>1. /\ bctl \in ControlBlock /\ bctl.attempts \in 0..MaxAttempts
        /\ target = bctl.active /\ bctl.attempts < MaxAttempts
        /\ starts \in [slot : Slot \union {None}, n : 0..MaxAttempts + 1]
        /\ starts.slot = target => starts.n <= bctl.attempts
    BY BlockFields DEF TypeOK, ControlInv, CopyInv, TrialInv
  <1>2. /\ AttemptCounted(bctl).active = target
        /\ AttemptCounted(bctl).attempts = bctl.attempts + 1
    BY <1>1, AttemptCountedType
  <1> QED BY <1>1, <1>2, BootAssumption DEF Tried

(* eboot_jump_to_app() counts the start it is about to make.               *)
LEMMA JumpTrial ==
  ASSUME NoFlashErrors, TypeOK, ControlInv, CopyInv, TrialInv, eboot_jump_to_app
  PROVE  TrialInv'
  <1> USE BootAssumption DEF eboot_jump_to_app
  <1>1. CASE Refuse
    BY <1>1, LoadSame DEF Refuse, TrialInv, CountedStarts, RecoveryPcs, AppPcs
  <1>2. CASE Start
    <2>1. pc = "jump" /\ AttemptCounted(bctl) \in ControlBlock
      BY AttemptCountedType DEF ControlInv, TypeOK
    <2>2. nv' = AttemptCounted(bctl)
      BY <1>2, <2>1, FaultlessIgnored DEF Start
    <2>3. starts' = Tried(target) /\ pc' = "handover"
      BY <1>2 DEF Start
    <2> QED BY <2>1, <2>2, <2>3, CountedTry DEF TrialInv, CountedStarts, RecoveryPcs
  <1> QED BY <1>1, <1>2

(* An application's requests leave the active slot and the attempts alone, *)
(* or somebody vouches for an image.                                       *)
LEMMA ApplicationTrial ==
  ASSUME NoFlashErrors, TypeOK, TypeOK', CopyInv, TrialInv, Application
  PROVE  TrialInv'
  <1>0. /\ pc \in AppPcs /\ pc' \in AppPcs /\ nv = bctl /\ nv' = bctl'
        /\ bctl \in ControlBlock /\ bctl' \in ControlBlock
    BY ApplicationStep DEF TypeOK
  <1>1. SUFFICES \/ starts' = NoStarts
                 \/ /\ starts' = starts
                    /\ nv'.active = nv.active /\ nv'.attempts = nv.attempts
    BY <1>0 DEF TrialInv, CountedStarts, AppPcs, RecoveryPcs
  <1>2. CASE eos_fw_confirm_running_image
    BY <1>0, <1>2, FaultlessSave DEF eos_fw_confirm_running_image
  <1>3. CASE eos_rollback_commit
    BY <1>3, LoadSame DEF eos_rollback_commit
  <1>u. ASSUME NEW s, NEW m \in Modes, NEW ok, RequestUpgrade(s, m, ok)
        PROVE  \/ starts' = NoStarts
               \/ /\ starts' = starts
                  /\ bctl'.active = bctl.active /\ bctl'.attempts = bctl.attempts
    <2>1. m \in {"TEST", "PERMANENT"}
      BY BootAssumption
    <2> QED BY <1>0, <1>u, <2>1 DEF RequestUpgrade, Upgraded, ControlBlock
  <1>4. CASE \E s \in Slot, m \in Modes : eos_fw_request_upgrade(s, m)
    BY <1>0, <1>4, <1>u DEF eos_fw_request_upgrade
  <1>5. CASE eos_fw_request_recovery
    BY <1>0, <1>5, FlaggedType DEF eos_fw_request_recovery, Flag
  <1>6. CASE eos_fw_factory_reset
    BY <1>0, <1>6, FlaggedType DEF eos_fw_factory_reset, Flag
  <1>7. CASE \E s \in Slot : eos_fw_update_begin(s)
    BY <1>7, LoadSame DEF eos_fw_update_begin
  <1>8. CASE \E i \in Image \union {Blank} : eos_fw_update_write(i)
    BY <1>8, LoadSame DEF eos_fw_update_write
  <1>9. CASE \E m \in Modes : eos_fw_update_finalize(m)
    BY <1>0, <1>9, <1>u DEF eos_fw_update_finalize
  <1>10. CASE eos_fw_update_abort
    BY <1>10, LoadSame DEF eos_fw_update_abort
  <1> QED BY <1>2, <1>3, <1>4, <1>5, <1>6, <1>7, <1>8, <1>9, <1>10 DEF Application

(* A save that loses power leaves the starts counted, whether its block is *)
(* found again or the one before.                                          *)
LEMMA CutTrial ==
  ASSUME OneCut, TypeOK, CopiesInv, ControlInv, CopyInv, TrialInv, PowerLossInSave
  PROVE  TrialInv'
  <1>a. /\ nv \in ControlBlock /\ bctl \in ControlBlock
        /\ bctl.attempts \in 0..MaxAttempts
        /\ starts \in [slot : Slot \union {None}, n : 0..MaxAttempts + 1]
        /\ CountedStarts
    BY LoadType, BlockFields DEF TypeOK, TrialInv
  <1>b. pc' = "stage0"
    BY CutRestarts
  <1>c. SUFFICES CountedStarts'
    BY <1>b DEF TrialInv, RecoveryPcs
  <1>d. ASSUME UNCHANGED <<starts, slots>>,
               nv'.active = nv.active, nv'.attempts = nv.attempts,
               nv' = nv \/ pc \in AppPcs \/ nv.pending # None
        PROVE  CountedStarts'
    BY <1>a, <1>b, <1>d DEF CountedStarts, AppPcs
  <1>1. CASE CutOnTheWay
    <2>0. UNCHANGED <<starts, slots>>
      BY <1>1 DEF CutOnTheWay
    <2>1. CASE pc = "stage0" /\ LosePowerSaving(nv)
      BY <1>a, <1>d, <2>0, <2>1, CutIsAtomic
    <2>2. CASE pc = "select" /\ MayRollBack /\ LosePowerSaving(RolledBack(bctl))
      <3>1. bctl = nv /\ RolledBack(bctl) \in ControlBlock
        BY <1>a, <2>2, RolledBackType DEF CopyInv
      <3>2. CASE nv' = nv
        BY <1>d, <2>0, <3>2
      <3>3. CASE nv' = RolledBack(bctl)
        <4>1. /\ nv'.active = Other /\ nv'.attempts = 0 /\ nv'.pending = None
              /\ Verifies(slots[Other]) /\ Other # nv.active
          BY <1>a, <2>2, <3>1, <3>3, RolledBackType, BlockFields
          DEF MayRollBack, eos_slot_is_valid, Other, eos_bootctl_other_slot, Slot
        <4>2. \/ starts = NoStarts
              \/ starts.slot = nv.active /\ starts.n <= MaxAttempts
          BY <1>a, <2>2, <3>1, BootAssumption DEF CountedStarts, MayRollBack, Exhausted
        <4> QED BY <1>b, <2>0, <4>1, <4>2 DEF CountedStarts, AppPcs
      <3> QED BY <2>2, <3>1, <3>2, <3>3, CutIsAtomic
    <2>3. CASE pc = "select" /\ MustDropPending /\ LosePowerSaving(ClearPending(bctl))
      <3>1. /\ bctl = nv /\ nv.pending # None /\ ClearPending(nv) \in ControlBlock
            /\ nv' \in {nv, ClearPending(nv)}
        BY <1>a, <2>3, ClearPendingType, CutIsAtomic DEF CopyInv, MustDropPending, UpgradePending
      <3>2. nv'.active = nv.active /\ nv'.attempts = nv.attempts
        BY <1>a, <3>1 DEF ClearPending, ControlBlock
      <3> QED BY <1>d, <2>0, <3>1, <3>2
    <2>4. CASE pc = "handover" /\ LosePowerSaving(bctl)
      BY <1>a, <1>d, <2>0, <2>4, CutIsAtomic DEF CopyInv
    <2>5. CASE pc = "wipe_save"
      BY <2>0, <2>5 DEF TrialInv, RecoveryPcs, CountedStarts
    <2>6. CASE /\ AppRuns
               /\ \/ \E f \in {"FORCE_RECOVERY", "FACTORY_RESET"} :
                         LosePowerSaving(Flagged(bctl, f))
                  \/ \E s \in Slot \ {bctl.active} :
                         LosePowerSaving(Upgraded(bctl, s, "TEST"))
      <3>1. PICK b \in ControlBlock :
              /\ LosePowerSaving(b)
              /\ b.active = bctl.active /\ b.attempts = bctl.attempts
        <4>1. \A s \in Slot : /\ Upgraded(bctl, s, "TEST").active = bctl.active
                              /\ Upgraded(bctl, s, "TEST").attempts = bctl.attempts
          BY <1>a DEF Upgraded, ControlBlock
        <4> QED BY <1>a, <2>6, <4>1, FlaggedType, UpgradedType DEF Flag
      <3>2. bctl = nv /\ pc \in AppPcs
        BY <2>6 DEF CopyInv, AppRuns, AppPcs
      <3> QED BY <1>d, <2>0, <3>1, <3>2, CutIsAtomic
    <2> QED BY <1>1, <2>1, <2>2, <2>3, <2>4, <2>5, <2>6 DEF CutOnTheWay
  <1>2. CASE CutInJump
    <2>1. /\ pc = "jump" /\ AttemptCounted(bctl) \in ControlBlock
          /\ LosePowerSaving(AttemptCounted(bctl))
          /\ starts' = IF nv' = AttemptCounted(bctl) THEN Tried(target) ELSE starts
          /\ UNCHANGED slots
      BY <1>a, <1>2, AttemptCountedType DEF CutInJump, ControlInv
    <2>2. CASE nv' = AttemptCounted(bctl)
      BY <2>1, <2>2, CountedTry DEF CountedStarts
    <2>3. CASE nv' # AttemptCounted(bctl)
      BY <1>d, <2>1, <2>3, CutIsAtomic
    <2> QED BY <2>2, <2>3
  <1>3. CASE CutVouching
    <2>1. PICK b \in {Confirmed(bctl)} \union
                   {Upgraded(bctl, s, "PERMANENT") : s \in IF "PERMANENT" \in Modes
                                                          THEN Slot \ {bctl.active} ELSE {}} :
            /\ LosePowerSaving(b)
            /\ starts' = IF nv' = b THEN NoStarts ELSE starts
      BY <1>3 DEF CutVouching
    <2>2. b \in ControlBlock /\ UNCHANGED slots
      BY <1>a, <1>3, <2>1, ConfirmedType, UpgradedType DEF CutVouching
    <2>3. CASE nv' = b
      BY <2>1, <2>3 DEF CountedStarts
    <2>4. CASE nv' # b
      BY <1>d, <2>1, <2>2, <2>4, CutIsAtomic
    <2> QED BY <2>3, <2>4
  <1>4. CASE CutInEnter
    BY <1>4 DEF CutInEnter, CountedStarts
  <1>5. CASE CutInCommand
    BY <1>5 DEF CutInCommand, TrialInv, RecoveryPcs, CountedStarts
  <1> QED BY <1>1, <1>2, <1>3, <1>4, <1>5 DEF PowerLossInSave

(* The starts stay counted, whoever takes the next step.                   *)
LEMMA TrialStep ==
  /\ NoFlashErrors /\ OneCut
  /\ TypeOK /\ TypeOK' /\ CopiesInv /\ ControlInv /\ UpdateInv /\ [Next]_vars
  => TrialInv'
  <1> SUFFICES ASSUME NoFlashErrors, OneCut, TypeOK, TypeOK', CopiesInv, ControlInv,
                      CopyInv, TrialInv, [Next]_vars
               PROVE  TrialInv'
    BY DEF UpdateInv
  <1>0. CASE UNCHANGED vars
    BY <1>0, LoadSame DEF vars, copies, TrialInv, CountedStarts
  <1>1. CASE Reset
    BY <1>1, LoadSame DEF Reset, LoseRam, TrialInv, CountedStarts, AppPcs, RecoveryPcs
  <1>2. CASE ebldr_stage0_main
    <2>1. nv' = nv
      BY <1>2, LoadSame, LoadType, FaultlessIgnored DEF ebldr_stage0_main, TypeOK
    <2> QED BY <1>2, <2>1 DEF ebldr_stage0_main, TrialInv, CountedStarts, AppPcs, RecoveryPcs
  <1>3. CASE eboot_main
    BY <1>3, LoadSame DEF eboot_main, TrialInv, CountedStarts, AppPcs, RecoveryPcs
  <1>4. CASE eos_boot_policy_select
    BY <1>4, SelectTrial
  <1>5. CASE eboot_jump_to_app
    BY <1>5, JumpTrial
  <1>6. CASE Application
    BY <1>6, ApplicationTrial
  <1>7. CASE Recovery
    <2>1. starts' = NoStarts
      BY <1>7, RecoveryStep DEF TrialInv
    <2> QED BY <1>7, <2>1, RecoveryStep DEF TrialInv, CountedStarts, RecoveryPcs
  <1>8. CASE HandOver
    <2>1. nv' = nv
      BY <1>8, FaultlessIgnored DEF HandOver, CopyInv, TypeOK
    <2> QED BY <1>8, <2>1 DEF HandOver, TrialInv, CountedStarts, AppPcs, RecoveryPcs
  <1>9. CASE PowerLossInSave
    BY <1>9, CutTrial
  <1> QED BY <1>0, <1>1, <1>2, <1>3, <1>4, <1>5, <1>6, <1>7, <1>8, <1>9 DEF Next

-----------------------------------------------------------------------------
(* In test mode no request and no update moves the active slot or touches  *)
(* what it holds while the application runs from it.                       *)
LEMMA ApplicationSlot ==
  ASSUME NoFlashErrors, "PERMANENT" \notin Modes, TypeOK, TypeOK', ControlInv, CopyInv,
         SlotInv, Application
  PROVE  SlotInv'
  <1>0. /\ pc \in AppPcs /\ pc' \in AppPcs /\ nv = bctl /\ nv' = bctl'
        /\ UNCHANGED <<target, running>>
        /\ bctl \in ControlBlock
        /\ slots \in [Slot -> Image \union {Blank}]
        /\ nv.active = target /\ slots[target] = running /\ target \in Slot
    BY ApplicationStep DEF TypeOK, ControlInv, SlotInv, AppPcs
  <1>1. SUFFICES ASSUME TRUE
                 PROVE  /\ bctl'.active = bctl.active
                        /\ slots'[target] = slots[target]
                        /\ upd'.state \in {"HEADER", "VERIFY"} => upd'.slot # target
    BY <1>0 DEF SlotInv, AppPcs
  <1>k. upd.state \in {"HEADER", "VERIFY"} => upd.slot # target
    BY <1>0 DEF SlotInv
  <1>2. CASE eos_fw_confirm_running_image
    BY <1>0, <1>2, <1>k DEF eos_fw_confirm_running_image, Confirmed, ControlBlock
  <1>3. CASE eos_rollback_commit
    BY <1>3, <1>k DEF eos_rollback_commit
  <1>u. ASSUME NEW s, NEW m \in Modes, NEW ok, RequestUpgrade(s, m, ok)
        PROVE  bctl'.active = bctl.active
    <2>1. m = "TEST"
      BY BootAssumption
    <2> QED BY <1>0, <1>u, <2>1 DEF RequestUpgrade, Upgraded, ControlBlock
  <1>4. CASE \E s \in Slot, m \in Modes : eos_fw_request_upgrade(s, m)
    BY <1>4, <1>u, <1>k DEF eos_fw_request_upgrade
  <1>5. CASE eos_fw_request_recovery
    BY <1>0, <1>5, <1>k, FlaggedType DEF eos_fw_request_recovery, Flag
  <1>6. CASE eos_fw_factory_reset
    BY <1>0, <1>6, <1>k, FlaggedType DEF eos_fw_factory_reset, Flag
  <1>7. CASE \E s \in Slot : eos_fw_update_begin(s)
    <2>1. PICK s \in Slot, ok \in BOOLEAN :
            /\ eos_fw_update_begin(s)
            /\ eos_slot_erase(s, ok)
            /\ upd' = [state |-> IF ok THEN "HEADER" ELSE "ERROR", slot |-> s]
      BY <1>7 DEF eos_fw_update_begin
    <2>2. s # target
      BY <1>0, <2>1 DEF eos_fw_update_begin, MayErase
    <2> QED BY <1>0, <2>1, <2>2 DEF eos_fw_update_begin, eos_slot_erase
  <1>8. CASE \E i \in Image \union {Blank} : eos_fw_update_write(i)
    <2>1. upd \in [state : {"IDLE", "HEADER", "VERIFY", "COMPLETE", "ERROR"},
                   slot : Slot \union {None}]
      BY DEF TypeOK
    <2> QED BY <1>0, <1>8, <1>k, <2>1 DEF eos_fw_update_write
  <1>9. CASE \E m \in Modes : eos_fw_update_finalize(m)
    <2>1. upd'.state \in {"COMPLETE", "ERROR"}
      BY <1>9 DEF eos_fw_update_finalize, TypeOK
    <2> QED BY <1>9, <1>u, <2>1 DEF eos_fw_update_finalize
  <1>10. CASE eos_fw_update_abort
    BY <1>10 DEF eos_fw_update_abort, NoUpdate
  <1> QED BY <1>2, <1>3, <1>4, <1>5, <1>6, <1>7, <1>8, <1>9, <1>10 DEF Application

(* The application runs from the active slot, which keeps its image.       *)
LEMMA SlotStep ==
  /\ NoFlashErrors /\ "PERMANENT" \notin Modes
  /\ TypeOK /\ TypeOK' /\ ControlInv /\ CopyInv /\ SlotInv /\ [Next]_vars
  => SlotInv'
  <1> SUFFICES ASSUME NoFlashErrors, "PERMANENT" \notin Modes,
                      TypeOK, TypeOK', ControlInv, CopyInv, SlotInv, [Next]_vars
               PROVE  SlotInv'
    OBVIOUS
  <1> USE DEF AppPcs
  <1>0. CASE UNCHANGED vars
    BY <1>0, LoadSame DEF vars, copies, SlotInv
  <1>1. CASE Reset
    BY <1>1 DEF Reset, LoseRam, SlotInv
  <1>2. CASE ebldr_stage0_main
    BY <1>2 DEF ebldr_stage0_main, SlotInv
  <1>3. CASE eboot_main
    BY <1>3 DEF eboot_main, SlotInv
  <1>4. CASE eos_boot_policy_select
    <2>1. pc = "select" /\ UNCHANGED upd
      BY <1>4 DEF eos_boot_policy_select
    <2> QED BY <1>4, <2>1, SelectCopies DEF SlotInv
  <1>5. CASE eboot_jump_to_app
    BY <1>5 DEF eboot_jump_to_app, Refuse, Start, SlotInv
  <1>8. CASE HandOver
    <2>1. nv' = bctl /\ bctl.active = target
      BY <1>8, FaultlessIgnored DEF HandOver, CopyInv, TypeOK
    <2> QED BY <1>8, <2>1 DEF HandOver, SlotInv, NoUpdate
  <1>9. CASE PowerLossInSave
    BY <1>9, CutRestarts DEF SlotInv
  <1>6. CASE Application
    BY <1>6, ApplicationSlot
  <1>7. CASE Recovery
    <2>1. pc \notin AppPcs /\ pc' \notin AppPcs /\ upd' \in {upd, NoUpdate}
      BY <1>7, RecoveryStep DEF RecoveryPcs
    <2> QED BY <2>1 DEF SlotInv
  <1> QED BY <1>0, <1>1, <1>2, <1>3, <1>4, <1>5, <1>6, <1>7, <1>8, <1>9 DEF Next

-----------------------------------------------------------------------------
(* Without flash errors, the copies of the block and the count of starts   *)
(* are as described, in both upgrade modes.                                *)
THEOREM UpdateInvariant ==
  ASSUME NoFlashErrors, OneCut
  PROVE  Spec => [](IInv /\ UpdateInv)
  <1>1. Init => UpdateInv
    BY DEF Init, UpdateInv, CopyInv, TrialInv, CountedStarts, AppPcs, RecoveryPcs
  <1>2. IInv /\ UpdateInv /\ [Next]_vars => UpdateInv'
    BY TypeStep, CopyStep, TrialStep DEF IInv, UpdateInv
  <1> QED BY InvariantHolds, <1>1, <1>2, PTL DEF Spec

(* Wherever resets fall in eos_boot_policy_select() and                    *)
(* eboot_jump_to_app(), also inside their saves, a slot nobody vouches for *)
(* is tried at most EOS_MAX_BOOT_ATTEMPTS times in a row, as long as no    *)
(* two eos_bootctl_save() in a row are cut short.                          *)
THEOREM TrialsAreBounded ==
  ASSUME NoFlashErrors, OneCut
  PROVE  Spec => []BoundedTrials
  <1>1. IInv /\ UpdateInv => BoundedTrials
    <2> SUFFICES ASSUME IInv, UpdateInv PROVE starts.n <= MaxAttempts
      BY DEF BoundedTrials
    <2>1. nv.attempts \in 0..MaxAttempts
      BY LoadType, BlockFields DEF IInv, TypeOK
    <2> QED BY <2>1, BootAssumption DEF UpdateInv, TrialInv, CountedStarts, NoStarts, IInv, TypeOK
  <1> QED BY UpdateInvariant, <1>1, PTL

(* In test mode the application runs from the slot the block calls active. *)
THEOREM SlotInvariant ==
  ASSUME NoFlashErrors, OneCut, "PERMANENT" \notin Modes
  PROVE  Spec => []SlotInv
  <1>1. Init => SlotInv
    BY DEF Init, SlotInv, AppPcs
  <1>2. IInv /\ UpdateInv /\ SlotInv /\ [Next]_vars => SlotInv'
    BY TypeStep, SlotStep DEF IInv, UpdateInv
  <1> QED BY UpdateInvariant, <1>1, <1>2, PTL DEF Spec

(* In test mode neither eos_fw_update_begin() nor eos_fw_update_write()    *)
(* touches the slot the application runs from, whatever updates were begun *)
(* and dropped and whatever requests were made before.                     *)
THEOREM RunningSlotSafety ==
  ASSUME NoFlashErrors, OneCut, "PERMANENT" \notin Modes
  PROVE  Spec => []RunningSlotIntact
  <1>1. SlotInv => RunningSlotIntact
    BY DEF SlotInv, RunningSlotIntact, AppPcs
  <1> QED BY SlotInvariant, <1>1, PTL

(* In test mode eos_fw_confirm_running_image() confirms the slot that the  *)
(* confirming image runs from, and nothing else names a proven image.      *)
THEOREM ConfirmSafety ==
  ASSUME NoFlashErrors, OneCut, "PERMANENT" \notin Modes
  PROVE  Spec => ConfirmNamesRunning
  <1>1. IInv /\ UpdateInv /\ SlotInv /\ [Next]_vars
        => (proven' # proven => nv'.confirmed = target)
    <2> SUFFICES ASSUME IInv, UpdateInv, SlotInv, [Next]_vars, proven' # proven
                 PROVE  nv'.confirmed = target
      OBVIOUS
    <2>1. eos_fw_confirm_running_image
      BY CutRestarts DEF Next, vars, Reset, ebldr_stage0_main, eboot_main, eos_boot_policy_select,
             eboot_jump_to_app, HandOver, Application, eos_rollback_commit, eos_fw_request_upgrade,
             eos_fw_request_recovery, eos_fw_factory_reset, eos_fw_update_begin,
             eos_fw_update_write, eos_fw_update_finalize, eos_fw_update_abort,
             Recovery, eos_recovery_enter, WipeSlot, WipeSave, recovery_handle_erase,
             recovery_handle_boot, recovery_handle_write, recovery_handle_factory_reset
    <2>2. nv' = Confirmed(bctl)
      BY <2>1, ConfirmedType, FaultlessSave DEF eos_fw_confirm_running_image, IInv, TypeOK
    <2>3. bctl.active = target /\ bctl \in ControlBlock
      BY <2>1 DEF eos_fw_confirm_running_image, AppRuns, UpdateInv, CopyInv, SlotInv, AppPcs,
                  IInv, TypeOK
    <2> QED BY <2>2, <2>3 DEF Confirmed, ControlBlock
  <1> QED BY UpdateInvariant, SlotInvariant, <1>1, PTL DEF Spec, ConfirmNamesRunning
=============================================================================
