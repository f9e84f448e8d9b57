--------------------------- MODULE BootCtl_proofs ---------------------------
(***************************************************************************)
(* Proofs about the two-copy boot control block: its type invariant, that  *)
(* one interrupted save never loses the block, and that with at most one   *)
(* fault between completed saves it implements the atomic record.          *)
(***************************************************************************)
EXTENDS BootCtl, FiniteSetTheorems, TLAPS

(* Both sectors hold v, or both are blank and v is the default.            *)
Redundant(v) ==
  \/ primary = v /\ backup = v
  \/ primary = Corrupt /\ backup = Corrupt /\ v = CtlDefaults

(***************************************************************************)
(* What each point of a save guarantees.  Until the primary is erased the  *)
(* sectors still hold the last value written; while it is blank the backup *)
(* carries that value, provided no earlier fault spoiled it; once it is    *)
(* programmed it carries the new value through the update of the backup.   *)
(***************************************************************************)
IdleInv ==
  pc \in {"off", "ready", "erase_primary"} =>
    /\ faults = 0 => Redundant(durable)
    /\ faults <= 1 => LoadResult(primary, backup) = durable

BlankPrimaryInv ==
  pc = "write_primary" =>
    /\ primary = Corrupt
    /\ faults = 0 => LoadResult(primary, backup) = durable

NewPrimaryInv ==
  pc \in {"erase_backup", "write_backup"} => primary = bctl /\ durable = bctl

IInv == CtlTypeOK /\ IdleInv /\ BlankPrimaryInv /\ NewPrimaryInv

(* eos_bootctl_load() returns a block for whatever the two copies hold.    *)
LEMMA LoadResultType ==
  ASSUME NEW p, NEW b
  PROVE  LoadResult(p, b) \in CtlBlock
BY BlockAssumption DEF LoadResult, validate

(* Every state of the block is well typed.                                 *)
THEOREM TypeCorrect == CtlSpec => []CtlTypeOK
<1>1. CtlInit => CtlTypeOK
  BY BlockAssumption, FaultAssumption DEF CtlInit, CtlTypeOK
<1>2. CtlTypeOK /\ [CtlNext]_ctlVars => CtlTypeOK'
  <2> SUFFICES ASSUME CtlTypeOK, [CtlNext]_ctlVars
               PROVE  CtlTypeOK'
    OBVIOUS
  <2> USE FaultAssumption DEF CtlTypeOK
  <2>1. CASE eos_bootctl_load
    BY <2>1, LoadResultType DEF eos_bootctl_load
  <2>2. CASE \E b \in CtlBlock : eos_bootctl_save(b)
    BY <2>2 DEF eos_bootctl_save, SaveSteps
  <2>3. CASE ErasePrimary
    BY <2>3 DEF ErasePrimary, SaveFails, SaveSteps
  <2>4. CASE WritePrimary
    BY <2>4 DEF WritePrimary, SaveFails, SaveSteps
  <2>5. CASE EraseBackup
    BY <2>5 DEF EraseBackup, SaveFails, SaveSteps
  <2>6. CASE WriteBackup
    BY <2>6 DEF WriteBackup, SaveFails, SaveSteps
  <2>7. CASE PowerLoss
    BY <2>7 DEF PowerLoss, SaveSteps
  <2>8. CASE UNCHANGED ctlVars
    BY <2>8 DEF ctlVars
  <2>9. QED
    BY <2>1, <2>2, <2>3, <2>4, <2>5, <2>6, <2>7, <2>8 DEF CtlNext
<1>3. QED
  BY <1>1, <1>2, PTL DEF CtlSpec

(* The inductive step: what holds at each point of a save, whatever fault  *)
(* strikes there.                                                          *)
LEMMA Inductive == IInv /\ CtlTypeOK' /\ [CtlNext]_ctlVars => IInv'
<1> SUFFICES ASSUME IInv, CtlTypeOK', [CtlNext]_ctlVars
             PROVE  IdleInv' /\ BlankPrimaryInv' /\ NewPrimaryInv'
  BY DEF IInv
<1> USE BlockAssumption, FaultAssumption
        DEF IInv, IdleInv, BlankPrimaryInv, NewPrimaryInv, CtlTypeOK,
            Redundant, LoadResult, validate
<1>1. CASE eos_bootctl_load
  BY <1>1 DEF eos_bootctl_load
<1>2. CASE \E b \in CtlBlock : eos_bootctl_save(b)
  BY <1>2 DEF eos_bootctl_save
<1>3. CASE ErasePrimary
  <2>1. CASE pc' = "write_primary"
    BY <1>3, <2>1 DEF ErasePrimary, SaveFails
  <2>2. CASE pc' = "ready"
    BY <1>3, <2>2 DEF ErasePrimary, SaveFails
  <2>3. QED
    BY <1>3, <2>1, <2>2 DEF ErasePrimary, SaveFails
<1>4. CASE WritePrimary
  <2>1. CASE pc' = "erase_backup"
    BY <1>4, <2>1 DEF WritePrimary, SaveFails
  <2>2. CASE pc' = "ready"
    BY <1>4, <2>2 DEF WritePrimary, SaveFails
  <2>3. QED
    BY <1>4, <2>1, <2>2 DEF WritePrimary, SaveFails
<1>5. CASE EraseBackup
  BY <1>5 DEF EraseBackup, SaveFails
<1>6. CASE WriteBackup
  BY <1>6 DEF WriteBackup, SaveFails
<1>7. CASE PowerLoss
  BY <1>7 DEF PowerLoss, SaveSteps
<1>8. CASE UNCHANGED ctlVars
  BY <1>8 DEF ctlVars
<1>9. QED
  BY <1>1, <1>2, <1>3, <1>4, <1>5, <1>6, <1>7, <1>8 DEF CtlNext

(* The inductive invariant holds in every reachable state.                 *)
THEOREM InvariantHolds == CtlSpec => []IInv
<1>1. CtlInit => IInv
  BY BlockAssumption, FaultAssumption
     DEF CtlInit, IInv, CtlTypeOK, IdleInv, BlankPrimaryInv, NewPrimaryInv,
         Redundant, LoadResult, validate
<1>2. QED
  BY <1>1, TypeCorrect, Inductive, PTL DEF CtlSpec

(* A save that is cut short, by power loss or by a flash error, leaves the *)
(* old or the new value for the next load when both copies were good       *)
(* before: for any set of block values and any bound on the faults.        *)
THEOREM OneFaultSafety == CtlSpec => []OneFaultKeepsBlock
<1>1. IInv => OneFaultKeepsBlock
  BY DEF IInv, IdleInv, OneFaultKeepsBlock
<1>2. QED
  BY <1>1, InvariantHolds, PTL

(* Which reads of a load failed, and how many.                             *)
LEMMA UnreadableCases ==
  ASSUME NEW S \in SUBSET {"primary", "backup"}
  PROVE  \/ S = {}
         \/ S \in {{"primary"}, {"backup"}} /\ Cardinality(S) = 1
         \/ S = {"primary", "backup"} /\ Cardinality(S) = 2
<1>1. Cardinality({"primary"}) = 1 /\ Cardinality({"backup"}) = 1
  BY FS_Singleton
<1>2. Cardinality({"primary", "backup"}) = 2
  <2>1. IsFiniteSet({"primary"})
    BY FS_Singleton
  <2>2. {"primary"} \union {"backup"} = {"primary", "backup"}
    OBVIOUS
  <2>3. Cardinality({"primary"} \union {"backup"}) = Cardinality({"primary"}) + 1
    BY <2>1, FS_AddElement
  <2>4. QED
    BY <1>1, <2>2, <2>3
<1>3. S \in {{}, {"primary"}, {"backup"}, {"primary", "backup"}}
  OBVIOUS
<1>4. QED
  BY <1>1, <1>2, <1>3

(* With at most one fault since the last completed save, a load returns    *)
(* the last value written, even when that fault is one of its own reads.   *)
LEMMA LoadIsExact ==
  ASSUME MaxFaults <= 1, IInv, eos_bootctl_load
  PROVE  bctl' = durable
<1>1. PICK S \in SUBSET {"primary", "backup"} :
        /\ faults + Cardinality(S) <= MaxFaults
        /\ bctl' = LoadResult(Seen(S, "primary", primary), Seen(S, "backup", backup))
  BY DEF eos_bootctl_load
<1>2. pc = "off" /\ faults \in Nat /\ MaxFaults \in Nat
  BY FaultAssumption DEF eos_bootctl_load, IInv, CtlTypeOK
<1>3. CASE S = {}
  <2>1. LoadResult(Seen(S, "primary", primary), Seen(S, "backup", backup))
          = LoadResult(primary, backup)
    BY <1>3 DEF Seen
  <2>2. faults <= 1
    BY <1>2 DEF IInv, CtlTypeOK
  <2>3. QED
    BY <1>1, <1>2, <2>1, <2>2 DEF IInv, IdleInv
<1>4. CASE S \in {{"primary"}, {"backup"}} /\ Cardinality(S) = 1
  <2>1. faults = 0
    BY <1>1, <1>2, <1>4
  <2>2. Redundant(durable)
    BY <1>2, <2>1 DEF IInv, IdleInv
  <2>3. QED
    BY <1>1, <1>4, <2>2, BlockAssumption
       DEF Redundant, Seen, LoadResult, validate, IInv, CtlTypeOK
<1>5. CASE S = {"primary", "backup"} /\ Cardinality(S) = 2
  BY <1>1, <1>2, <1>5
<1>6. QED
  BY <1>3, <1>4, <1>5, UnreadableCases

(* With at most one fault between two completed saves, every step of the   *)
(* two-copy protocol is a step of the atomic record or leaves it alone:    *)
(* a save takes effect at the write of the primary, EOS_OK means that it   *)
(* did, and a load returns what was last written.                          *)
THEOREM Refinement == MaxFaults <= 1 => (CtlSpec => BlockIsAtomic)
<1> SUFFICES ASSUME MaxFaults <= 1
             PROVE  CtlSpec => BlockIsAtomic
  OBVIOUS
<1>1. CtlInit => Atomic!Init
  BY DEF CtlInit, Atomic!Init, SaveSteps
<1>2. IInv /\ IInv' /\ [CtlNext]_ctlVars => [Atomic!Next]_Atomic!vars
  <2> SUFFICES ASSUME IInv, IInv', [CtlNext]_ctlVars
               PROVE  Atomic!Next \/ UNCHANGED Atomic!vars
    OBVIOUS
  <2>1. CASE eos_bootctl_load
    <3>1. bctl' = durable
      BY <2>1, LoadIsExact
    <3>2. Atomic!Load
      BY <2>1, <3>1 DEF eos_bootctl_load, Atomic!Load, SaveSteps
    <3>3. QED
      BY <3>2 DEF Atomic!Next
  <2>2. CASE \E b \in CtlBlock : eos_bootctl_save(b)
    <3>1. Atomic!BeginSave
      BY <2>2 DEF eos_bootctl_save, Atomic!BeginSave, SaveSteps
    <3>2. QED
      BY <3>1 DEF Atomic!Next
  <2>3. CASE ErasePrimary
    <3>1. CASE pc' = "write_primary"
      BY <2>3, <3>1 DEF ErasePrimary, SaveFails, SaveSteps, Atomic!vars
    <3>2. CASE pc' = "ready"
      <4>1. Atomic!EndSave
        BY <2>3, <3>2 DEF ErasePrimary, SaveFails, SaveSteps, Atomic!EndSave
      <4>2. QED
        BY <4>1 DEF Atomic!Next
    <3>3. QED
      BY <2>3, <3>1, <3>2 DEF ErasePrimary, SaveFails
  <2>4. CASE WritePrimary
    <3>1. CASE pc' = "erase_backup"
      <4>1. Atomic!Commit
        BY <2>4, <3>1 DEF WritePrimary, SaveFails, SaveSteps, Atomic!Commit
      <4>2. QED
        BY <4>1 DEF Atomic!Next
    <3>2. CASE pc' = "ready"
      <4>1. Atomic!EndSave
        BY <2>4, <3>2 DEF WritePrimary, SaveFails, SaveSteps, Atomic!EndSave
      <4>2. QED
        BY <4>1 DEF Atomic!Next
    <3>3. QED
      BY <2>4, <3>1, <3>2 DEF WritePrimary, SaveFails
  <2>5. CASE EraseBackup
    <3>1. CASE pc' = "write_backup"
      BY <2>5, <3>1 DEF EraseBackup, SaveFails, SaveSteps, Atomic!vars
    <3>2. CASE pc' = "ready"
      <4>1. Atomic!EndSave
        BY <2>5, <3>2 DEF EraseBackup, SaveFails, SaveSteps, Atomic!EndSave
      <4>2. QED
        BY <4>1 DEF Atomic!Next
    <3>3. QED
      BY <2>5, <3>1, <3>2 DEF EraseBackup, SaveFails
  <2>6. CASE WriteBackup
    <3>1. durable = bctl
      BY <2>6 DEF WriteBackup, IInv, NewPrimaryInv
    <3>2. Atomic!EndSave
      BY <2>6, <3>1 DEF WriteBackup, SaveFails, SaveSteps, Atomic!EndSave
    <3>3. QED
      BY <3>2 DEF Atomic!Next
  <2>7. CASE PowerLoss
    <3>1. Atomic!Lose
      BY <2>7 DEF PowerLoss, SaveSteps, Atomic!Lose
    <3>2. QED
      BY <3>1 DEF Atomic!Next
  <2>8. CASE UNCHANGED ctlVars
    BY <2>8 DEF ctlVars, Atomic!vars
  <2>9. QED
    BY <2>1, <2>2, <2>3, <2>4, <2>5, <2>6, <2>7, <2>8 DEF CtlNext
<1>3. QED
  BY <1>1, <1>2, InvariantHolds, PTL DEF CtlSpec, BlockIsAtomic, Atomic!Spec
=============================================================================
