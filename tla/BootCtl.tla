------------------------------ MODULE BootCtl ------------------------------
(***************************************************************************)
(* The two-copy boot control block of core/bootctl.c.                      *)
(*                                                                         *)
(* The block lives in a primary and a backup flash sector.  A save erases  *)
(* and programs the primary, then erases and programs the backup; a load   *)
(* takes the first copy that can be read and whose CRC matches.  Power can *)
(* be lost between any two flash operations, and a flash operation can     *)
(* report an error.  The contents of a block are an uninterpreted value;   *)
(* module Boot interprets them.                                            *)
(***************************************************************************)
EXTENDS Naturals, FiniteSets

CONSTANTS
  CtlBlock,     \* the values a boot control block can hold
  CtlDefaults,  \* the value eos_bootctl_init_defaults() builds
  Corrupt,      \* a sector that is erased or torn: magic or CRC do not match
  MaxFaults,    \* bound on the faults between two completed saves
  HalErrors     \* whether flash operations may report errors

ASSUME BlockAssumption ==
  /\ CtlDefaults \in CtlBlock
  /\ Corrupt \notin CtlBlock

ASSUME FaultAssumption ==
  /\ MaxFaults \in Nat
  /\ HalErrors \in BOOLEAN

VARIABLES
  primary,      \* contents of the sector at ops->bootctl_addr
  backup,       \* contents of the sector at ops->bootctl_backup_addr
  bctl,         \* the copy held by the program that is running
  pc,           \* "off", "ready", or the flash operation a save does next
  rc,           \* what the last load or save returned
  durable,      \* history: the last value completely written to the primary
  faults        \* history: faults since both copies last held the same value

ctlVars == <<primary, backup, bctl, pc, rc, durable, faults>>

SaveSteps == {"erase_primary", "write_primary", "erase_backup", "write_backup"}

(* The magic and the CRC cover the whole record, so a sector that was not  *)
(* written completely does not validate.                                   *)
validate(copy) == copy \in CtlBlock

(* What a load returns when the sectors read back as p and b.              *)
(* (LoadResult_NoBackup never looks at the backup; LoadResult_BackupFirst  *)
(* prefers the copy that is written last.)                                 *)
LoadResult_NoBackup(p, b) == IF validate(p) THEN p ELSE CtlDefaults

LoadResult_BackupFirst(p, b) ==
  IF validate(b) THEN b ELSE IF validate(p) THEN p ELSE CtlDefaults

LoadResult(p, b) ==
  IF validate(p) THEN p ELSE IF validate(b) THEN b ELSE CtlDefaults

(* A device that has been saved once, or one whose two sectors are blank.  *)
CtlInit ==
  /\ durable \in CtlBlock
  /\ \/ primary = durable /\ backup = durable
     \/ primary = Corrupt /\ backup = Corrupt /\ durable = CtlDefaults
  /\ bctl = durable
  /\ pc = "off"
  /\ rc = "EOS_OK"
  /\ faults = 0

(***************************************************************************)
(* Load.  A read that fails hides the sector it was meant to return.       *)
(***************************************************************************)
Seen(unreadable, name, copy) == IF name \in unreadable THEN Corrupt ELSE copy

eos_bootctl_load ==
  /\ pc = "off"
  /\ pc' = "ready"
  /\ \E unreadable \in SUBSET {"primary", "backup"} :
       LET p == Seen(unreadable, "primary", primary)
           b == Seen(unreadable, "backup", backup)
       IN  /\ unreadable # {} => HalErrors
           /\ faults + Cardinality(unreadable) <= MaxFaults
           /\ bctl' = LoadResult(p, b)
           /\ rc' = IF validate(p) \/ validate(b) THEN "EOS_OK" ELSE "EOS_ERR_CRC"
  /\ UNCHANGED <<primary, backup, durable, faults>>

(***************************************************************************)
(* Save.  Every operation that changes the block edits the caller's copy   *)
(* and then saves it: increment_attempts, reset_attempts, set_pending,     *)
(* clear_pending, confirm, request_recovery, request_factory_reset.        *)
(***************************************************************************)
eos_bootctl_save(b) ==
  /\ pc = "ready"
  /\ bctl' = b
  /\ pc' = "erase_primary"
  /\ UNCHANGED <<primary, backup, rc, durable, faults>>

(* A flash operation reports an error: the save returns at once.           *)
SaveFails ==
  /\ HalErrors
  /\ faults < MaxFaults
  /\ faults' = faults + 1
  /\ rc' = "EOS_ERR_FLASH"
  /\ pc' = "ready"

ErasePrimary ==
  /\ pc = "erase_primary"
  /\ \/ /\ primary' = Corrupt
        /\ pc' = "write_primary"
        /\ UNCHANGED <<rc, faults>>
     \/ /\ primary' \in {primary, Corrupt}
        /\ SaveFails
  /\ UNCHANGED <<backup, bctl, durable>>

WritePrimary ==
  /\ pc = "write_primary"
  /\ \/ /\ primary' = bctl
        /\ pc' = "erase_backup"
        /\ UNCHANGED <<rc, faults>>
     \/ /\ primary' \in {primary, bctl}
        /\ SaveFails
  /\ durable' = IF primary' = bctl THEN bctl ELSE durable
  /\ UNCHANGED <<backup, bctl>>

EraseBackup ==
  /\ pc = "erase_backup"
  /\ \/ /\ backup' = Corrupt
        /\ pc' = "write_backup"
        /\ UNCHANGED <<rc, faults>>
     \/ /\ backup' \in {backup, Corrupt}
        /\ SaveFails
  /\ UNCHANGED <<primary, bctl, durable>>

WriteBackup ==
  /\ pc = "write_backup"
  /\ \/ /\ backup' = bctl
        /\ pc' = "ready"
        /\ rc' = "EOS_OK"
        /\ faults' = 0
     \/ /\ backup' \in {backup, bctl}
        /\ SaveFails
  /\ UNCHANGED <<primary, bctl, durable>>

(***************************************************************************)
(* The program stops: at a hand-over to the next stage or a reset, or by   *)
(* power loss inside a save.  A sector that was being erased or programmed *)
(* holds what it held before or after that operation.                      *)
(***************************************************************************)
PowerLoss ==
  /\ pc # "off"
  /\ pc' = "off"
  /\ IF pc \in SaveSteps
     THEN faults < MaxFaults /\ faults' = faults + 1
     ELSE UNCHANGED faults
  /\ UNCHANGED <<primary, backup, bctl, rc, durable>>

CtlNext ==
  \/ eos_bootctl_load
  \/ \E b \in CtlBlock : eos_bootctl_save(b)
  \/ ErasePrimary
  \/ WritePrimary
  \/ EraseBackup
  \/ WriteBackup
  \/ PowerLoss

CtlSpec == CtlInit /\ [][CtlNext]_ctlVars

-----------------------------------------------------------------------------
(* No variable leaves its range: in particular a load never hands its      *)
(* caller a record that does not validate, whatever the sectors hold.      *)
CtlTypeOK ==
  /\ primary \in CtlBlock \union {Corrupt}
  /\ backup \in CtlBlock \union {Corrupt}
  /\ bctl \in CtlBlock
  /\ pc \in {"off", "ready"} \union SaveSteps
  /\ rc \in {"EOS_OK", "EOS_ERR_CRC", "EOS_ERR_FLASH"}
  /\ durable \in CtlBlock
  /\ faults \in 0..MaxFaults

(* Whenever the program is stopped or between saves, and at most one save  *)
(* since the last complete one was cut short, the sectors still hold the   *)
(* last value written: eos_bootctl_load() would return it.                 *)
OneFaultKeepsBlock ==
  pc \in {"off", "ready"} /\ faults <= 1 => LoadResult(primary, backup) = durable

(* A load returns the last value written, however the saves before it      *)
(* ended (eos_bootctl_load(): the backup protects against power loss       *)
(* during metadata updates).                                               *)
LoadReturnsDurable ==
  [][pc = "off" /\ pc' = "ready" => bctl' = durable]_ctlVars

(* The block implements the atomic record of AtomicBlock: reg is what was  *)
(* last written, and a save is one phase whatever flash operation it is    *)
(* at.                                                                     *)
Atomic == INSTANCE AtomicBlock
  WITH Block <- CtlBlock, reg <- durable, ram <- bctl, rc <- rc,
       phase <- IF pc \in SaveSteps THEN "saving" ELSE pc

(* eos_bootctl_save(): "Writes both primary and backup copies atomically", *)
(* and eos_bootctl_load() reads back what was saved.                       *)
BlockIsAtomic == Atomic!Spec
=============================================================================
