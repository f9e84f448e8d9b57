--------------------------- MODULE Verify_proofs ---------------------------
(***************************************************************************)
(* Proofs about what is verified before it runs: the secondary cores, the  *)
(* key store and the secure boot driver, the checks of an image's header   *)
(* and TLV area, and the hashing and decryption of data that comes in      *)
(* pieces, for any number of cores, slots, keys and lengths.               *)
(***************************************************************************)
EXTENDS SecureBoot, ImageCheck, Multicore, Streams, SequenceTheorems, FiniteSetTheorems,
        WellFoundedInduction, TLAPS

-----------------------------------------------------------------------------
(* Secondary cores                                                         *)

CoreStates ==
    [runs : BOOLEAN, cfg : Configs \cup {Unconfigured}, image : Images \cup {"none"}]
TableEntries ==
    [cfg : Configs \cup {Unconfigured},
     state : {"OFF", "STARTING", "RUNNING", "ERROR", "STOPPED"}]

(* A core in this state runs what was authentic when it was started.       *)
VerifiedCore(k) ==
    (k.runs /\ k.cfg.mode = "AMP" /\ k.cfg.slot # NoSlot) =>
        k.image.intact /\ k.image.signed /\ k.cfg.entry = k.image.entry

McInv ==
    /\ core_table \in [Cores -> TableEntries]
    /\ ops \in [start : BOOLEAN, stop : BOOLEAN, reset : BOOLEAN]
    /\ core \in [Cores -> CoreStates]
    /\ content \in [McSlots -> Images]
    /\ rewrites \in 0..MaxRewrites
    /\ ~ops.reset => \A c \in Cores : VerifiedCore(core[c])

(* A core that was stopped, or never started, runs nothing.                *)
LEMMA IdleCore == Idle \in CoreStates /\ VerifiedCore(Idle)
    BY DEF Idle, CoreStates, VerifiedCore

(* Stopping a core leaves the others as they are.                          *)
LEMMA StoppedCores ==
    ASSUME McInv, NEW c \in Cores
    PROVE  /\ AfterStop(c) \in [Cores -> CoreStates]
           /\ ~ops.reset => \A d \in Cores : VerifiedCore(AfterStop(c)[d])
    BY IdleCore DEF AfterStop, McInv

(* eos_multicore_start(): what it starts from a slot is authentic now.     *)
LEMMA StartedCores ==
    ASSUME McInv, NEW c \in Cores, NEW cfg \in Configs, NEW ok \in BOOLEAN,
           NEW cores \in [Cores -> CoreStates],
           ~ops.reset => \A d \in Cores : VerifiedCore(cores[d]),
           Started(c, cfg, ok, cores), UNCHANGED <<ops, content, rewrites>>
    PROVE  McInv'
  <1> DEFINE image == IF cfg.slot = NoSlot THEN "none" ELSE content[cfg.slot]
             new == [runs |-> TRUE, cfg |-> cfg, image |-> image]
             entry == [cfg |-> cfg, state |-> IF ~ops.start THEN "STARTING"
                                              ELSE IF ok THEN "RUNNING" ELSE "ERROR"]
  <1>1. CASE cfg.entry # 0 /\ Authentic(cfg)
    <2>1. image \in Images \cup {"none"}
      BY DEF McInv, Configs
    <2>2. new \in CoreStates
      <3> HIDE DEF image
      <3> QED BY <2>1 DEF CoreStates
    <2>3. VerifiedCore(new)
      BY <1>1 DEF VerifiedCore, Authentic
    <2>4. entry \in TableEntries
      BY DEF TableEntries
    <2>5. /\ core_table' = [core_table EXCEPT ![c] = entry]
          /\ core' = IF ops.start /\ ok THEN [cores EXCEPT ![c] = new] ELSE cores
      BY <1>1 DEF Started
    <2> HIDE DEF new, entry
    <2>6. core_table' \in [Cores -> TableEntries]
      BY <2>4, <2>5 DEF McInv
    <2>7. core' \in [Cores -> CoreStates]
      BY <2>2, <2>5
    <2>8. ~ops.reset => \A d \in Cores : VerifiedCore(core'[d])
      BY <2>3, <2>5
    <2> QED BY <2>6, <2>7, <2>8 DEF McInv, VerifiedCore
  <1>2. CASE ~(cfg.entry # 0 /\ Authentic(cfg))
    BY <1>2 DEF Started, McInv, VerifiedCore
  <1> QED BY <1>1, <1>2

(* Before the first core is started.                                       *)
LEMMA McInitInv == McInit => McInv
  <1> SUFFICES ASSUME McInit PROVE McInv
    OBVIOUS
  <1>1. [cfg |-> Unconfigured, state |-> "OFF"] \in TableEntries
    BY DEF TableEntries
  <1>2. rewrites \in 0..MaxRewrites
    BY MulticoreAssumption DEF McInit
  <1> QED BY <1>1, <1>2, IdleCore DEF McInit, McInv

(* Every operation of the multicore manager keeps the invariant.           *)
LEMMA McNextInv == McInv /\ [McNext]_mcVars => McInv'
  <1> SUFFICES ASSUME McInv, [McNext]_mcVars PROVE McInv'
    OBVIOUS
  <1>0. /\ core_table \in [Cores -> TableEntries] /\ core \in [Cores -> CoreStates]
        /\ ~ops.reset => \A d \in Cores : VerifiedCore(core[d])
    BY DEF McInv
  <1>1. ASSUME NEW c \in Cores, NEW cfg \in Configs, NEW ok \in BOOLEAN,
               eos_multicore_start(c, cfg, ok)
        PROVE  McInv'
    BY <1>0, <1>1, StartedCores DEF eos_multicore_start
  <1>2. ASSUME NEW c \in Cores, core_table' = [core_table EXCEPT ![c].state = "STOPPED"],
               core' = AfterStop(c), UNCHANGED <<ops, content, rewrites>>
        PROVE  McInv'
    <2>1. [core_table[c] EXCEPT !.state = "STOPPED"] \in TableEntries
      BY <1>0 DEF TableEntries
    <2>2. core_table' \in [Cores -> TableEntries]
      BY <1>0, <1>2, <2>1
    <2>3. core' \in [Cores -> CoreStates] /\ (~ops.reset => \A d \in Cores : VerifiedCore(core'[d]))
      BY <1>2, StoppedCores
    <2> QED BY <1>2, <2>2, <2>3 DEF McInv, VerifiedCore
  <1>3. ASSUME NEW c \in Cores, NEW ok \in BOOLEAN, eos_multicore_stop(c, ok)
        PROVE  McInv'
    BY <1>2, <1>3 DEF eos_multicore_stop
  <1>4. ASSUME NEW c \in Cores, NEW ok \in BOOLEAN, ResetByRestart(c, ok)
        PROVE  McInv'
    <2>1. CASE core_table[c].cfg = Unconfigured \/ ~Authentic(core_table[c].cfg)
      BY <1>2, <1>4, <2>1 DEF ResetByRestart
    <2>2. CASE ~(core_table[c].cfg = Unconfigured \/ ~Authentic(core_table[c].cfg))
      <3>1. core_table[c].cfg \in Configs
        BY <1>0, <2>2 DEF TableEntries
      <3>2. Started(c, core_table[c].cfg, ok, AfterStop(c)) /\ UNCHANGED <<ops, content, rewrites>>
        BY <1>4, <2>2 DEF ResetByRestart
      <3> QED BY <3>1, <3>2, StoppedCores, StartedCores
    <2> QED BY <2>1, <2>2
  <1>5. ASSUME NEW c \in Cores, ResetByBoard(c)
        PROVE  McInv'
    <2> DEFINE image == IF core[c].cfg.slot = NoSlot THEN "none" ELSE content[core[c].cfg.slot]
    <2>1. core[c] \in CoreStates
      BY <1>0
    <2>2. image \in Images \cup {"none"}
      <3>1. core[c].cfg.slot \in McSlots \cup {NoSlot}
        BY <2>1 DEF CoreStates, Configs, Unconfigured
      <3> QED BY <3>1 DEF McInv
    <2>3. [core[c] EXCEPT !.image = image] \in CoreStates
      <3> HIDE DEF image
      <3> QED BY <2>1, <2>2 DEF CoreStates
    <2>4. core' = [core EXCEPT ![c] = [core[c] EXCEPT !.image = image]]
      BY <1>5 DEF ResetByBoard
    <2>5. core' \in [Cores -> CoreStates]
      <3> HIDE DEF image
      <3> QED BY <1>0, <2>3, <2>4
    <2> QED BY <1>5, <2>5 DEF ResetByBoard, McInv, VerifiedCore
  <1>6. ASSUME NEW s \in McSlots, NEW image \in Images, SlotChanges(s, image)
        PROVE  McInv'
    <2>1. rewrites' \in 0..MaxRewrites
      BY <1>6, MulticoreAssumption DEF McInv, SlotChanges
    <2> QED BY <1>6, <2>1 DEF McInv, SlotChanges, VerifiedCore
  <1>7. CASE UNCHANGED mcVars
    BY <1>7 DEF mcVars, McInv, VerifiedCore
  <1> QED BY <1>1, <1>3, <1>4, <1>5, <1>6, <1>7 DEF McNext

(* eos_multicore_start() and eos_multicore_reset() let a core run only an  *)
(* image that was intact and signed when it was started, at the entry      *)
(* point of its header, on a board without a reset operation of its own.   *)
THEOREM CoresAreVerified == McSpec => []CoresRunVerified
  <1>1. McInv => CoresRunVerified
    BY DEF McInv, VerifiedCore, CoresRunVerified
  <1> QED BY <1>1, McInitInv, McNextInv, PTL DEF McSpec

-----------------------------------------------------------------------------
(* The key store and the secure boot driver                                *)

(* What the history remembers is in the fuses of a board that has them.    *)
KeyInv ==
    /\ otp \in [present : BOOLEAN, key : [KeySlots -> KeySet \cup {"blank"}],
               revoke : SUBSET KeySlots, locked : BOOLEAN]
    /\ retired \subseteq KeySlots
    /\ otp.present => retired \subseteq otp.revoke
    /\ SignedByTrustedKey
    /\ AttestationTells

(* A set of numbers that is not empty has a least element.                 *)
LEMMA NatMin ==
    ASSUME NEW T \in SUBSET Nat, T # {}
    PROVE  \E x \in T : \A y \in T : x <= y
  <1> DEFINE R == OpToRel(<, Nat)
  <1>1. IsWellFoundedOn(R, Nat)
    BY NatLessThanWellFounded
  <1>2. \A x, y \in Nat : y < x => <<y, x>> \in R
    BY DEF OpToRel
  <1> HIDE DEF R
  <1>3. PICK x \in T : \A y \in T : ~ (<<y, x>> \in R)
    BY <1>1, WFMin
  <1>4. \A y \in T : x \in Nat /\ y \in Nat /\ ~(y < x)
    BY <1>2, <1>3, Zenon
  <1>5. \A y \in T : x <= y
    BY <1>4
  <1> QED BY <1>5

(* It is what Least() chooses: the first key slot left, the first check    *)
(* that fails.                                                             *)
LEMMA LeastIn ==
    ASSUME NEW S \in SUBSET Nat, S # {}
    PROVE  Least(S) \in S
    BY NatMin DEF Least

(* What a store holds that eos_keystore_init() opened: on a board with OTP *)
(* the keys of the fuses without the revoked ones, on a board without OTP  *)
(* the compiled-in key, and an active slot that is valid unless none is.   *)
LEMMA OpenedStore ==
    ASSUME KeyInv, NEW r \in Reads, eos_keystore_init(r).rc = "OK"
    PROVE  LET store == eos_keystore_init(r)
               left  == store.valid \ store.revoked
           IN  /\ left \subseteq KeySlots
               /\ otp.present => /\ store.key = otp.key
                                 /\ left \cap otp.revoke = {}
                                 /\ \A s \in left : otp.key[s] # "blank"
               /\ ~otp.present => left = {0} /\ store.key[0] = CompiledKey
               /\ store.active = ActiveSlot(store.valid, store.revoked)
  <1> DEFINE store == eos_keystore_init(r)
             blank == {s \in KeySlots : otp.key[s] = "blank"}
             valid == IF otp.present THEN KeySlots \ blank ELSE {0}
             revoked == IF ~otp.present THEN {}
                        ELSE IF r.revoke = "ok" THEN otp.revoke ELSE KeySlots
             key == IF otp.present THEN otp.key ELSE [otp.key EXCEPT ![0] = CompiledKey]
  <1>1. KeySlots = {0, 1}
    BY DEF KeySlots, EOS_KEY_SLOTS
  <1>2. /\ otp.present \in BOOLEAN /\ otp.key \in [KeySlots -> KeySet \cup {"blank"}]
        /\ otp.revoke \subseteq KeySlots
    BY DEF KeyInv
  <1>3. OtpPresent(r.slot[0]) = otp.present
    <2>1. r.slot[0] \in OtpRead
      BY <1>1 DEF Reads
    <2> QED BY <1>2, <2>1 DEF OtpPresent, OtpRead
  <1>4. store = [rc |-> "OK", key |-> key, valid |-> valid, revoked |-> revoked,
                 active |-> ActiveSlot(valid, revoked)]
    BY <1>3 DEF eos_keystore_init
  <1>5. /\ store.valid = valid /\ store.revoked = revoked /\ store.key = key
        /\ store.active = ActiveSlot(valid, revoked)
    <2> HIDE DEF store, valid, revoked, key
    <2> QED BY <1>4
  <1>6. /\ valid \ revoked \subseteq KeySlots
        /\ otp.present => /\ key = otp.key
                          /\ (valid \ revoked) \cap otp.revoke = {}
                          /\ \A s \in valid \ revoked : otp.key[s] # "blank"
        /\ ~otp.present => valid \ revoked = {0} /\ key[0] = CompiledKey
    BY <1>1, <1>2
  <1> HIDE DEF store, valid, revoked, key
  <1> QED BY <1>5, <1>6 DEF store

(* The active slot is one of the slots left, if there is any.              *)
LEMMA ActiveIsLeft ==
    ASSUME NEW valid, NEW revoked, valid \ revoked \subseteq KeySlots
    PROVE  ActiveSlot(valid, revoked) \in valid \ revoked <=> valid \ revoked # {}
  <1>1. EOS_KEY_SLOTS \notin KeySlots
    BY DEF KeySlots, EOS_KEY_SLOTS
  <1>2. KeySlots \subseteq Nat
    BY DEF KeySlots
  <1> QED BY <1>1, <1>2, LeastIn DEF ActiveSlot

(* The key it hands out is one the device should accept.                   *)
LEMMA ActiveKeyTrusted ==
    ASSUME KeyInv, NEW r \in Reads, eos_keystore_init(r).rc = "OK"
    PROVE  LET key == eos_keystore_get_active_key(eos_keystore_init(r))
           IN  key = "none" \/ key \in TrustedKeys
  <1> DEFINE store == eos_keystore_init(r)
             left == store.valid \ store.revoked
  <1>1. /\ left \subseteq KeySlots
        /\ otp.present => /\ store.key = otp.key
                          /\ left \cap otp.revoke = {}
                          /\ \A s \in left : otp.key[s] # "blank"
        /\ ~otp.present => left = {0} /\ store.key[0] = CompiledKey
    BY OpenedStore
  <1> HIDE DEF store
  <1> SUFFICES ASSUME store.active \in left
               PROVE  store.key[store.active] \in TrustedKeys
    BY DEF eos_keystore_get_active_key, store
  <1> QED BY <1>1 DEF TrustedKeys

(* The reads of one verification, whatever fails in it.                    *)
LEMMA ReadsOfCall ==
    ASSUME NEW bad
    PROVE  ReadsWith(bad) \in Reads
  <1>1. \A what : Access(bad, what) \in OtpRead
    BY DEF Access, OtpRead
  <1> QED BY <1>1 DEF ReadsWith, Reads

(* So a signature that verifies is one of a trusted key.                   *)
LEMMA VerifiedSigner ==
    ASSUME KeyInv, NEW signer, NEW bad,
           eos_image_verify_signature(signer, eos_keystore_init(ReadsWith(bad)))
    PROVE  signer \in TrustedKeys
    BY ReadsOfCall, ActiveKeyTrusted DEF eos_image_verify_signature

(* eos_secure_boot(): an EOS_SBOOT_OK means that no check failed.          *)
LEMMA DriverRecord ==
    ASSUME KeyInv, NEW cfg \in [signature : BOOLEAN, lock : BOOLEAN], NEW signer, NEW bad,
           eos_secure_boot(cfg, signer, bad)
    PROVE  KeyInv'
  <1> DEFINE store == eos_keystore_init(ReadsWith(bad))
             check == Checks(cfg, signer, bad, store)
             failing == {i \in DOMAIN check : ~check[i][1]}
             result  == IF failing = {} THEN "OK" ELSE check[Least(failing)][2]
             reaches(i) == \A j \in failing : j >= i
  <1>1. /\ sboot' = [by |-> "driver", result |-> result, attest |-> attest_record(result),
                     lock |-> cfg.lock, signed |-> cfg.signature,
                     trusted |-> signer \in TrustedKeys, staged |-> reaches(7)]
        /\ otp' = [otp EXCEPT !.locked =
                     @ \/ (cfg.lock /\ reaches(8) /\ Access(bad, "fuse") = "ok")]
        /\ UNCHANGED <<ks, retired>>
    BY Zenon DEF eos_secure_boot
  <1>2. /\ DOMAIN check = 1..8
        /\ \A i \in 1..8 : check[i][2] # "OK"
        /\ check[3][1] <=> (cfg.signature => /\ eos_image_verify_signature(signer, store)
                                             /\ AnchorAccepts(Access(bad, "anchor")))
        /\ check[8][1] <=> (cfg.lock => DebugLocked(Access(bad, "fuse")))
    <2>1. DOMAIN check = 1..8
      BY DEF Checks
    <2>2. \A i \in 1..8 : check[i][2] # "OK"
      <3>1. /\ check[1][2] # "OK" /\ check[2][2] # "OK" /\ check[3][2] # "OK"
            /\ check[4][2] # "OK" /\ check[5][2] # "OK" /\ check[6][2] # "OK"
            /\ check[7][2] # "OK" /\ check[8][2] # "OK"
        BY DEF Checks
      <3>2. \A i \in 1..8 : i \in {1, 2, 3, 4, 5, 6, 7, 8}
        OBVIOUS
      <3> HIDE DEF check
      <3> QED BY <3>1, <3>2
    <2>3. check[3][1] <=> (cfg.signature => /\ eos_image_verify_signature(signer, store)
                                           /\ AnchorAccepts(Access(bad, "anchor")))
      BY DEF Checks
    <2>4. check[8][1] <=> (cfg.lock => DebugLocked(Access(bad, "fuse")))
      BY DEF Checks
    <2> QED BY <2>1, <2>2, <2>3, <2>4
  <1>3. result = "OK" => failing = {}
    <2>1. failing \in SUBSET Nat /\ failing \subseteq 1..8
      BY <1>2
    <2> HIDE DEF failing, check
    <2> QED BY <1>2, <2>1, LeastIn
  <1>4. result = "OK" => /\ cfg.signature => signer \in TrustedKeys
                         /\ cfg.lock => Access(bad, "fuse") = "ok" /\ reaches(8)
    BY <1>1, <1>2, <1>3, VerifiedSigner DEF DebugLocked
  <1> DEFINE lock == otp.locked \/ (cfg.lock /\ reaches(8) /\ Access(bad, "fuse") = "ok")
  <1>5. otp' = [otp EXCEPT !.locked = lock] /\ retired' = retired
    BY <1>1
  <1>6. /\ sboot'.by = "driver" /\ sboot'.result = result /\ sboot'.attest = <<result>>
        /\ sboot'.lock = cfg.lock /\ sboot'.signed = cfg.signature
        /\ sboot'.trusted = (signer \in TrustedKeys)
    BY <1>1 DEF attest_record
  <1> HIDE DEF result, reaches, failing
  <1>7. lock \in BOOLEAN
    BY DEF KeyInv
  <1>8. /\ otp' \in [present : BOOLEAN, key : [KeySlots -> KeySet \cup {"blank"}],
                     revoke : SUBSET KeySlots, locked : BOOLEAN]
        /\ otp'.present = otp.present /\ otp'.revoke = otp.revoke /\ otp'.locked = lock
    <2> HIDE DEF lock
    <2> QED BY <1>5, <1>7 DEF KeyInv
  <1>9. SignedByTrustedKey' /\ AttestationTells'
    BY <1>4, <1>6, <1>8 DEF SignedByTrustedKey, AttestationTells
  <1> QED BY <1>5, <1>8, <1>9 DEF KeyInv

(* A device fresh from provisioning.                                       *)
LEMMA KeyInitInv == KeyInit => KeyInv
  <1> SUFFICES ASSUME KeyInit PROVE KeyInv
    OBVIOUS
  <1>1. /\ otp \in [present : BOOLEAN, key : [KeySlots -> KeySet \cup {"blank"}],
                   revoke : SUBSET KeySlots, locked : BOOLEAN]
        /\ retired = {}
    BY DEF KeyInit
  <1>2. sboot.by = "nobody" /\ sboot.result = "none"
    BY DEF KeyInit
  <1> QED BY <1>1, <1>2 DEF KeyInv, SignedByTrustedKey, AttestationTells

(* A revocation adds to the fuses, or writes back what they hold.          *)
LEMMA RevokeStep ==
    ASSUME KeyInv, NEW s \in KeySlots, NEW read \in OtpRead, NEW write \in OtpRead,
           eos_keystore_revoke_slot(s, read, write)
    PROVE  KeyInv'
  <1> DEFINE mask == IF write = "ok" THEN RevokeMask(s, read) ELSE otp.revoke
  <1>1. /\ otp' = [otp EXCEPT !.revoke = mask]
        /\ retired' = IF RevokeReturnsOk(read, write) THEN retired \cup {s} ELSE retired
        /\ sboot' = sboot
    BY DEF eos_keystore_revoke_slot
  <1>2. otp.revoke \subseteq mask /\ mask \in SUBSET KeySlots
    BY DEF KeyInv, RevokeMask
  <1>3. otp.present => retired' \subseteq mask
    BY <1>1, <1>2 DEF KeyInv, RevokeMask, RevokeReturnsOk, OtpRead
  <1>4. retired' \subseteq KeySlots
    BY <1>1 DEF KeyInv
  <1> HIDE DEF mask
  <1>5. /\ otp' \in [present : BOOLEAN, key : [KeySlots -> KeySet \cup {"blank"}],
                     revoke : SUBSET KeySlots, locked : BOOLEAN]
        /\ otp'.present = otp.present /\ otp'.revoke = mask /\ otp'.locked = otp.locked
    BY <1>1, <1>2 DEF KeyInv
  <1> QED BY <1>1, <1>3, <1>4, <1>5 DEF KeyInv, SignedByTrustedKey, AttestationTells

(* Opening, revoking, verifying and the driver keep the invariant.         *)
LEMMA KeyNextInv == KeyInv /\ [KeyNext]_keyVars => KeyInv'
  <1> SUFFICES ASSUME KeyInv, [KeyNext]_keyVars PROVE KeyInv'
    OBVIOUS
  <1>1. CASE OpenStore
    BY <1>1 DEF OpenStore, KeyInv, SignedByTrustedKey, AttestationTells
  <1>2. ASSUME NEW s \in KeySlots, NEW read \in OtpRead, NEW write \in OtpRead,
               eos_keystore_revoke_slot(s, read, write)
        PROVE  KeyInv'
    BY <1>2, RevokeStep
  <1>3. ASSUME NEW cfg \in [signature : BOOLEAN, lock : BOOLEAN], NEW signer, NEW bad,
               eos_secure_boot(cfg, signer, bad)
        PROVE  KeyInv'
    BY <1>3, DriverRecord
  <1>4. ASSUME NEW signer, NEW bad, CheckSignature(signer, bad)
        PROVE  KeyInv'
    <2> DEFINE good == eos_image_verify_signature(signer, eos_keystore_init(ReadsWith(bad)))
    <2>1. UNCHANGED <<otp, retired>>
      BY <1>4 DEF CheckSignature
    <2>2. /\ sboot'.by = "stage1" /\ sboot'.result = (IF good THEN "OK" ELSE "SIGNATURE")
          /\ sboot'.lock = FALSE /\ sboot'.trusted = (signer \in TrustedKeys)
      BY <1>4 DEF CheckSignature
    <2>3. good => signer \in TrustedKeys
      BY VerifiedSigner
    <2> HIDE DEF good
    <2> QED BY <2>1, <2>2, <2>3 DEF KeyInv, SignedByTrustedKey, AttestationTells
  <1>5. CASE eos_secure_boot_lock_debug
    <2>1. /\ otp' = [otp EXCEPT !.locked = TRUE] /\ UNCHANGED <<sboot, retired>>
      BY <1>5 DEF eos_secure_boot_lock_debug
    <2>2. /\ otp' \in [present : BOOLEAN, key : [KeySlots -> KeySet \cup {"blank"}],
                       revoke : SUBSET KeySlots, locked : BOOLEAN]
          /\ otp'.present = otp.present /\ otp'.revoke = otp.revoke /\ otp'.locked
      BY <2>1 DEF KeyInv
    <2> QED BY <2>1, <2>2 DEF KeyInv, SignedByTrustedKey, AttestationTells
  <1>6. CASE UNCHANGED keyVars
    BY <1>6 DEF keyVars, KeyInv, SignedByTrustedKey, AttestationTells
  <1> QED BY <1>1, <1>2, <1>3, <1>4, <1>5, <1>6 DEF KeyNext

(* The invariant of the key store and the driver.                          *)
THEOREM KeyInvariant == KeySpec => []KeyInv
  BY KeyInitInv, KeyNextInv, PTL DEF KeySpec

(* eos_image_verify_signature(): an image accepted under a signature       *)
(* policy, by the driver or by stage 1, is signed by a provisioned key     *)
(* that is not revoked, whatever OTP access fails on the way.              *)
THEOREM OnlyTrustedSigners == KeySpec => []SignedByTrustedKey
  <1>1. KeyInv => SignedByTrustedKey
    BY DEF KeyInv
  <1> QED BY <1>1, KeyInvariant, PTL

(* eos_secure_boot(): its attestation record is the verdict it returned,   *)
(* and it returns EOS_SBOOT_OK under a policy that closes the debug port   *)
(* only with the fuse written.                                             *)
THEOREM AttestationIsVerdict == KeySpec => []AttestationTells
  <1>1. KeyInv => AttestationTells
    BY DEF KeyInv
  <1> QED BY <1>1, KeyInvariant, PTL

(* On a board with OTP a slot eos_keystore_revoke_slot() reported as       *)
(* revoked stays revoked, in every store that eos_keystore_init() opens    *)
(* later and however its reads fail.                                       *)
THEOREM RevocationLasts == KeySpec => []RevokedStaysRevoked
  <1>1. KeyInv => RevokedStaysRevoked
    <2> SUFFICES ASSUME KeyInv, NEW r \in Reads, eos_keystore_init(r).rc = "OK"
                 PROVE  LET store == eos_keystore_init(r) IN
             /\ otp.present =>
                   /\ eos_keystore_find_by_hash(store, otp.key[0]) \cap retired = {}
                   /\ eos_keystore_find_by_hash(store, otp.key[1]) \cap retired = {}
                   /\ store.active \notin retired
             /\ eos_keystore_key_count(store) = 0 <=> eos_keystore_get_active_key(store) = "none"
      BY DEF RevokedStaysRevoked, KeyInv
    <2> DEFINE store == eos_keystore_init(r)
               left == store.valid \ store.revoked
    <2>1. /\ left \subseteq KeySlots
          /\ otp.present => /\ store.key = otp.key
                            /\ left \cap otp.revoke = {}
          /\ ~otp.present => left = {0} /\ store.key[0] = CompiledKey
          /\ store.active = ActiveSlot(store.valid, store.revoked)
      BY OpenedStore
    <2> HIDE DEF store
    <2>2. otp.present => left \cap retired = {}
      BY <2>1 DEF KeyInv
    <2>3. otp.present => \A key : eos_keystore_find_by_hash(store, key) \cap retired = {}
      BY <2>2 DEF eos_keystore_find_by_hash
    <2>4. store.active \in left <=> left # {}
      BY <2>1, ActiveIsLeft
    <2>5. otp.present => store.active \notin retired
      <3>1. EOS_KEY_SLOTS \notin KeySlots
        BY DEF KeySlots, EOS_KEY_SLOTS
      <3>2. store.active \in KeySlots => store.active \in left
        BY <2>1, <2>4, <3>1 DEF ActiveSlot
      <3> QED BY <2>2, <3>2 DEF KeyInv
    <2>6. eos_keystore_key_count(store) = 0 <=> left = {}
      <3>1. IsFiniteSet(KeySlots)
        <4>1. KeySlots = {0} \cup {1}
          BY DEF KeySlots, EOS_KEY_SLOTS
        <4>2. IsFiniteSet({0} \cup {1})
          BY FS_Singleton, FS_AddElement
        <4> QED BY <4>1, <4>2
      <3>2. IsFiniteSet(left)
        BY <2>1, <3>1, FS_Subset
      <3> QED BY <3>2, FS_EmptySet DEF eos_keystore_key_count
    <2>7. \A s \in left : store.key[s] # "none"
      BY <2>1, KeyAssumption DEF KeyInv
    <2>8. eos_keystore_get_active_key(store) = "none" <=> left = {}
      BY <2>4, <2>7 DEF eos_keystore_get_active_key
    <2> QED BY <2>3, <2>5, <2>6, <2>8 DEF store
  <1> QED BY <1>1, KeyInvariant, PTL

-----------------------------------------------------------------------------
(* The image                                                               *)

HeaderTypes ==
    [known : BOOLEAN, hdr_size : Nat, image_size : Nat, load_addr : 0..Word - 1,
     entry_addr : 0..Word - 1, tlv_len : 0..Word - 1]
TlvEntryTypes == [type : {"zero", "MIN_SEC_VER", "other"}, len : Nat, offset : Nat]
TlvTypes == [offset : Nat, total : Nat, entries : Seq(TlvEntryTypes), area : Nat]

(* What a header says that eos_image_parse_header() let through.           *)
ParsedHeader(h) == h.image_size \in 1..ImgMax /\ EntryOK(h)

(* One entry after another: each inside the area, behind the one before it *)
(* and, the last one included, before the place where the walk goes on.    *)
EntriesInOrder(w) ==
    \A i \in 1..Len(w.entries) :
        /\ w.entries[i].offset + w.entries[i].len <= w.total
        /\ w.entries[i].offset >= 2 * TlvHdr
        /\ i > 1 => w.entries[i - 1].offset + w.entries[i - 1].len
                       <= w.entries[i].offset - TlvHdr
        /\ i = Len(w.entries) => w.entries[i].offset + w.entries[i].len <= w.offset

(* The counter is looked up in an entry of four bytes.                     *)
CounterFound == \E i \in CounterEntries : tlv.entries[i].len = 4

ImageInv ==
    /\ hdr \in HeaderTypes /\ slot \in SlotPlaces /\ tlv \in TlvTypes
    /\ verdict \notin {"unread", "refused"} => ParsedHeader(hdr)
    /\ Accepted => FitsSlot(hdr, slot[2])
    /\ verdict = "walking" => tlv.offset >= TlvHdr
    /\ EntriesInOrder(tlv)
    /\ verdict \in {"found", "counter"} => CounterFound

(* Lengths are rounded up to whole words.                                  *)
LEMMA AlignedUp ==
    ASSUME NEW n \in Nat
    PROVE  Aligned(n) \in Nat /\ Aligned(n) >= n
    BY DEF Aligned

(* A context without entries has them in order.                            *)
LEMMA NoEntries ==
    ASSUME NEW w, w.entries = <<>>
    PROVE  EntriesInOrder(w)
    BY DEF EntriesInOrder

(* One entry more.                                                         *)
LEMMA OneMoreEntry ==
    ASSUME tlv \in TlvTypes, EntriesInOrder(tlv), tlv.offset >= TlvHdr,
           NEW type \in {"zero", "MIN_SEC_VER", "other"}, NEW len \in Nat, ~Truncated(len)
    PROVE  LET w == [tlv EXCEPT !.entries = Append(@, [type |-> type, len |-> len,
                                                      offset |-> tlv.offset + TlvHdr]),
                                !.offset = Aligned(tlv.offset + TlvHdr + len)]
           IN  w \in TlvTypes /\ EntriesInOrder(w) /\ w.offset >= TlvHdr
  <1> DEFINE e == [type |-> type, len |-> len, offset |-> tlv.offset + TlvHdr]
             s == Append(tlv.entries, e)
             o == Aligned(tlv.offset + TlvHdr + len)
             w == [tlv EXCEPT !.entries = s, !.offset = o]
             L == Len(tlv.entries)
  <1>1. tlv.offset \in Nat /\ tlv.total \in Nat /\ tlv.entries \in Seq(TlvEntryTypes) /\ TlvHdr = 4
    BY DEF TlvTypes, TlvHdr
  <1>2. e \in TlvEntryTypes /\ e.offset = tlv.offset + 4 /\ e.len = len
    BY <1>1 DEF TlvEntryTypes
  <1>3. o \in Nat /\ o >= tlv.offset + 4 + len
    <2>1. tlv.offset + TlvHdr + len \in Nat
      BY <1>1
    <2> QED BY <1>1, <2>1, AlignedUp
  <1>4. tlv.offset + 4 + len <= tlv.total
    BY <1>1 DEF Truncated
  <1> HIDE DEF e, o
  <1>5. /\ L \in Nat /\ s \in Seq(TlvEntryTypes) /\ Len(s) = L + 1
        /\ \A i \in 1..L : s[i] = tlv.entries[i]
        /\ s[L + 1] = e
    BY <1>1, <1>2, AppendProperties, LenProperties
  <1>6. \A i \in 1..L : s[i].offset \in Nat /\ s[i].len \in Nat
    <2>1. \A i \in 1..L : s[i] \in TlvEntryTypes
      BY <1>1, <1>5, ElementOfSeq
    <2> QED BY <2>1 DEF TlvEntryTypes
  <1> HIDE DEF s
  <1>7. w \in TlvTypes /\ w.entries = s /\ w.offset = o /\ w.total = tlv.total
    BY <1>3, <1>5 DEF TlvTypes
  <1> HIDE DEF w, L
  <1>8. \A i \in 1..L :
          /\ s[i].offset + s[i].len <= tlv.total
          /\ s[i].offset >= 2 * TlvHdr
          /\ i > 1 => s[i - 1].offset + s[i - 1].len <= s[i].offset - TlvHdr
          /\ i = L => s[i].offset + s[i].len <= tlv.offset
    <2> SUFFICES ASSUME NEW i \in 1..L
                 PROVE  /\ s[i].offset + s[i].len <= tlv.total
                        /\ s[i].offset >= 2 * TlvHdr
                        /\ i > 1 => s[i - 1].offset + s[i - 1].len <= s[i].offset - TlvHdr
                        /\ i = L => s[i].offset + s[i].len <= tlv.offset
      OBVIOUS
    <2>1. s[i] = tlv.entries[i] /\ (i > 1 => s[i - 1] = tlv.entries[i - 1])
      BY <1>5
    <2> QED BY <2>1 DEF EntriesInOrder, L
  <1>9. EntriesInOrder(w)
    <2> SUFFICES ASSUME NEW i \in 1..(L + 1)
                 PROVE  /\ s[i].offset + s[i].len <= tlv.total
                        /\ s[i].offset >= 2 * TlvHdr
                        /\ i > 1 => s[i - 1].offset + s[i - 1].len <= s[i].offset - TlvHdr
                        /\ i = L + 1 => s[i].offset + s[i].len <= o
      BY <1>5, <1>7 DEF EntriesInOrder
    <2>1. CASE i \in 1..L
      BY <1>5, <1>8, <2>1
    <2>2. CASE i = L + 1
      <3>1. s[i].offset = tlv.offset + 4 /\ s[i].len = len
        BY <1>2, <1>5, <2>2
      <3>2. i > 1 => s[i - 1].offset + s[i - 1].len <= tlv.offset
        <4>1. i - 1 = L
          BY <1>5, <2>2
        <4>2. i > 1 => L \in 1..L
          BY <1>5, <4>1
        <4> QED BY <1>8, <4>1, <4>2
      <3> QED BY <1>1, <1>3, <1>4, <3>1, <3>2
    <2> QED BY <1>5, <2>1, <2>2
  <1>10. w.offset >= TlvHdr
    BY <1>1, <1>3, <1>7
  <1> QED BY <1>7, <1>9, <1>10 DEF w, s, e, o

(* A header fresh from flash, and the empty TLV context.                   *)
LEMMA ImageInitInv == ImageInit => ImageInv
  <1> SUFFICES ASSUME ImageInit PROVE ImageInv
    OBVIOUS
  <1>1. hdr \in HeaderTypes
    <2>1. 0 \in 0..Word - 1 /\ Word \in Nat /\ HdrMax \in Nat /\ ImgMax \in Nat
      BY ImageAssumption
    <2> QED BY <2>1 DEF ImageInit, HeaderTypes
  <1>2. tlv \in TlvTypes /\ tlv.entries = <<>>
    BY EmptySeq DEF ImageInit, NoTlv, TlvTypes
  <1>3. verdict = "unread" /\ slot \in SlotPlaces
    BY DEF ImageInit
  <1> QED BY <1>1, <1>2, <1>3, NoEntries DEF ImageInv, Accepted

(* Steps that leave the TLV context alone.                                 *)
LEMMA SameTlv ==
    ASSUME ImageInv, UNCHANGED <<slot, tlv>>, hdr' \in HeaderTypes,
           verdict' \notin {"unread", "refused"} => ParsedHeader(hdr'),
           Accepted' => FitsSlot(hdr', slot[2]),
           verdict' # "walking",
           verdict' \in {"found", "counter"} => CounterFound
    PROVE  ImageInv'
  <1>1. EntriesInOrder(tlv)' /\ CounterFound' = CounterFound
    BY DEF ImageInv, EntriesInOrder, CounterFound, CounterEntries
  <1>2. HeaderTypes' = HeaderTypes /\ TlvTypes' = TlvTypes
    BY DEF HeaderTypes, TlvTypes, TlvEntryTypes
  <1> QED BY <1>1, <1>2 DEF ImageInv, ParsedHeader, EntryOK, FitsSlot

(* Parsing, checking and reading a counter keep the invariant.             *)
LEMMA ImageNextInv == ImageInv /\ [ImageNext]_imageVars => ImageInv'
  <1> SUFFICES ASSUME ImageInv, [ImageNext]_imageVars PROVE ImageInv'
    OBVIOUS
  <1>0. /\ hdr \in HeaderTypes /\ tlv \in TlvTypes /\ slot \in SlotPlaces /\ EntriesInOrder(tlv)
    BY DEF ImageInv
  <1>1. CASE eos_image_parse_header
    <2>1. /\ verdict' \in {"parsed", "refused"} /\ UNCHANGED <<slot, tlv>>
          /\ verdict' = "parsed" => hdr.image_size \in 1..ImgMax /\ EntryOK(hdr)
      BY <1>1 DEF eos_image_parse_header
    <2>2. PICK n \in 0..Word - 1 :
            hdr' = IF verdict' = "parsed" THEN [hdr EXCEPT !.tlv_len = n] ELSE hdr
      BY <1>1 DEF eos_image_parse_header
    <2>3. hdr' \in HeaderTypes
      BY <1>0, <2>2 DEF HeaderTypes
    <2>4. /\ hdr'.image_size = hdr.image_size /\ hdr'.load_addr = hdr.load_addr
          /\ hdr'.entry_addr = hdr.entry_addr
      BY <1>0, <2>2 DEF HeaderTypes
    <2>5. verdict' = "parsed" => ParsedHeader(hdr')
      BY <2>1, <2>4 DEF ParsedHeader, EntryOK
    <2> QED BY <2>1, <2>3, <2>5, SameTlv DEF Accepted
  <1>2. ASSUME NEW good \in BOOLEAN, verify_slot(good)
        PROVE  ImageInv'
    <2>1. /\ verdict = "parsed" /\ verdict' \in {"valid", "refused"} /\ UNCHANGED <<hdr, slot, tlv>>
          /\ verdict' = "valid" => FitsSlot(hdr, slot[2])
      BY <1>2 DEF verify_slot
    <2> QED BY <1>0, <2>1, SameTlv DEF ImageInv, Accepted
  <1>3. ASSUME Accepted, verdict' \notin {"unread", "parsed", "walking", "found", "counter"},
               UNCHANGED <<hdr, slot, tlv>>
        PROVE  ImageInv'
    BY <1>0, <1>3, SameTlv DEF ImageInv, Accepted
  <1>4. ASSUME NEW good \in BOOLEAN, read_image_counter(good)
        PROVE  ImageInv'
    BY <1>3, <1>4 DEF read_image_counter, Accepted
  <1>5. ASSUME NEW total \in 0..TlvMax + 1, eos_tlv_parse(total)
        PROVE  ImageInv'
    <2>1. /\ verdict = "hashed" /\ verdict' \in {"walking", "refused"}
          /\ tlv' = [NoTlv EXCEPT !.offset = TlvHdr, !.total = total, !.area = hdr.tlv_len]
          /\ UNCHANGED <<hdr, slot>>
      BY <1>5 DEF eos_tlv_parse
    <2>2. total \in Nat /\ hdr.tlv_len \in Nat /\ TlvHdr \in Nat /\ <<>> \in Seq(TlvEntryTypes)
      BY <1>0, ImageAssumption, EmptySeq DEF HeaderTypes, TlvHdr
    <2>3. tlv' \in TlvTypes /\ tlv'.entries = <<>> /\ tlv'.offset = TlvHdr
      BY <2>1, <2>2 DEF NoTlv, TlvTypes
    <2>4. EntriesInOrder(tlv')
      BY <2>3, NoEntries
    <2>5. EntriesInOrder(tlv)' /\ HeaderTypes' = HeaderTypes /\ TlvTypes' = TlvTypes
      BY <2>4 DEF EntriesInOrder, HeaderTypes, TlvTypes, TlvEntryTypes
    <2>6. tlv'.offset >= TlvHdr
      BY <2>2, <2>3
    <2> QED BY <1>0, <2>1, <2>3, <2>5, <2>6 DEF ImageInv, Accepted, ParsedHeader, EntryOK, FitsSlot
  <1>6. CASE NoTlvArea \/ TlvReadError
    BY <1>3, <1>6 DEF NoTlvArea, TlvReadError, Accepted
  <1>7. ASSUME NEW type \in {"zero", "MIN_SEC_VER", "other"}, NEW len \in TlvLens,
               TlvEntry(type, len)
        PROVE  ImageInv'
    <2>1. verdict = "walking" /\ UNCHANGED <<hdr, slot>>
      BY <1>7 DEF TlvEntry
    <2>2. CASE verdict' = "walked" /\ UNCHANGED tlv
      BY <1>3, <2>1, <2>2 DEF Accepted
    <2>3. CASE /\ ~Truncated(len) /\ UNCHANGED verdict
               /\ tlv' = [tlv EXCEPT !.entries = Append(@, [type |-> type, len |-> len,
                                                           offset |-> tlv.offset + TlvHdr]),
                                     !.offset = Aligned(tlv.offset + TlvHdr + len)]
      <3>1. len \in Nat /\ tlv.offset >= TlvHdr
        BY <2>1, ImageAssumption DEF ImageInv
      <3>2. tlv' \in TlvTypes /\ EntriesInOrder(tlv') /\ tlv'.offset >= TlvHdr
        BY <1>0, <2>3, <3>1, OneMoreEntry
      <3>3. EntriesInOrder(tlv)' /\ HeaderTypes' = HeaderTypes /\ TlvTypes' = TlvTypes
        BY <3>2 DEF EntriesInOrder, HeaderTypes, TlvTypes, TlvEntryTypes
      <3> QED BY <1>0, <2>1, <2>3, <3>2, <3>3
              DEF ImageInv, Accepted, ParsedHeader, EntryOK, FitsSlot
    <2> QED BY <1>7, <2>2, <2>3 DEF TlvEntry
  <1>8. CASE TlvWalkEnds
    BY <1>3, <1>8 DEF TlvWalkEnds, Accepted
  <1>9. CASE FindCounter
    <2>1. /\ verdict = "walked" /\ verdict' \in {"no_counter", "refused", "found"}
          /\ UNCHANGED <<hdr, slot, tlv>>
          /\ verdict' = "found" => CounterEntries # {} /\ tlv.entries[eos_tlv_find].len = 4
      BY <1>9 DEF FindCounter
    <2>2. CounterEntries \in SUBSET Nat
      <3>1. tlv.entries \in Seq(TlvEntryTypes)
        BY <1>0 DEF TlvTypes
      <3>2. DOMAIN tlv.entries \subseteq Nat
        BY <3>1, LenProperties
      <3> QED BY <3>2 DEF CounterEntries
    <2>3. verdict' = "found" => CounterFound
      <3>1. CounterEntries # {} => eos_tlv_find \in CounterEntries
        BY <2>2, NatMin DEF eos_tlv_find
      <3> QED BY <2>1, <3>1 DEF CounterFound
    <2> QED BY <1>0, <2>1, <2>3, SameTlv DEF ImageInv, Accepted
  <1>10. CASE eos_tlv_read_data
    BY <1>0, <1>10, SameTlv DEF eos_tlv_read_data, ImageInv, Accepted
  <1>11. CASE UNCHANGED imageVars
    <2>1. /\ EntriesInOrder(tlv)' /\ (CounterFound' = CounterFound) /\ UNCHANGED imageVars
          /\ HeaderTypes' = HeaderTypes /\ TlvTypes' = TlvTypes
      BY <1>0, <1>11 DEF imageVars, EntriesInOrder, CounterFound, CounterEntries, HeaderTypes,
                         TlvTypes, TlvEntryTypes
    <2> QED BY <2>1 DEF imageVars, ImageInv, Accepted, ParsedHeader, EntryOK, FitsSlot
  <1> QED BY <1>1, <1>2, <1>4, <1>5, <1>6, <1>7, <1>8, <1>9, <1>10, <1>11 DEF ImageNext

(* The invariant of the image checks.                                      *)
THEOREM ImageInvariant == ImageSpec => []ImageInv
  BY ImageInitInv, ImageNextInv, PTL DEF ImageSpec

(* eos_image_parse_header() and verify_slot() with sums that wrap at 2^32: *)
(* what they accept lies inside its slot, TLV area included, and starts    *)
(* inside the range it is loaded to.                                       *)
THEOREM AcceptedInSlot == ImageSpec => []AcceptedImageInSlot
  <1>1. ImageInv => AcceptedImageInSlot
    <2> SUFFICES ASSUME ImageInv, Accepted
                 PROVE  /\ slot[1] + hdr.hdr_size + hdr.image_size + hdr.tlv_len <= slot[1] + slot[2]
                        /\ hdr.load_addr # 0 =>
                              hdr.entry_addr \in hdr.load_addr..hdr.load_addr + hdr.image_size - 1
                                                 \cap 0..Word - 1
                        /\ hdr.load_addr + hdr.image_size <= Word
      BY DEF AcceptedImageInSlot
    <2>1. /\ hdr.hdr_size \in Nat /\ hdr.image_size \in Nat /\ hdr.load_addr \in 0..Word - 1
          /\ hdr.entry_addr \in 0..Word - 1 /\ hdr.tlv_len \in 0..Word - 1
      BY DEF ImageInv, HeaderTypes
    <2>2. slot[1] \in Nat /\ slot[2] \in Nat
      BY ImageAssumption DEF ImageInv
    <2>3. Word \in Nat /\ ImgMax \in Nat /\ ImgMax < Word
      BY ImageAssumption
    <2>4. /\ hdr.hdr_size <= slot[2] /\ hdr.image_size <= slot[2] - hdr.hdr_size
          /\ hdr.tlv_len <= slot[2] - hdr.hdr_size - hdr.image_size
      BY DEF ImageInv, FitsSlot
    <2>5. hdr.image_size \in 1..ImgMax /\ EntryOK(hdr)
      BY DEF ImageInv, Accepted, ParsedHeader
    <2>6. slot[1] + hdr.hdr_size + hdr.image_size + hdr.tlv_len <= slot[1] + slot[2]
      BY <2>1, <2>2, <2>3, <2>4
    <2>7. CASE hdr.load_addr = 0
      BY <2>1, <2>3, <2>5, <2>6, <2>7
    <2>8. CASE hdr.load_addr # 0
      <3>1. /\ hdr.image_size <= Word - 1 - hdr.load_addr
            /\ hdr.entry_addr >= hdr.load_addr /\ hdr.entry_addr < hdr.load_addr + hdr.image_size
        BY <2>5, <2>8 DEF EntryOK
      <3> QED BY <2>1, <2>3, <2>6, <3>1
    <2> QED BY <2>7, <2>8
  <1> QED BY <1>1, ImageInvariant, PTL

(* The walk of eos_tlv_parse(): its entries follow one another without     *)
(* overlap between the info header and the declared end, and               *)
(* eos_rollback_read_image_counter() reads four bytes of one of them.      *)
THEOREM EntriesInside == ImageSpec => []TlvEntriesInside
  <1>1. ImageInv => TlvEntriesInside
    <2> SUFFICES ASSUME ImageInv PROVE TlvEntriesInside
      OBVIOUS
    <2>1. tlv.entries \in Seq(TlvEntryTypes)
      BY DEF ImageInv, TlvTypes
    <2>2. DOMAIN tlv.entries = 1..Len(tlv.entries)
      BY <2>1, LenProperties
    <2>3. \A i \in DOMAIN tlv.entries :
            /\ tlv.entries[i].offset + tlv.entries[i].len <= tlv.total
            /\ tlv.entries[i].offset >= 2 * TlvHdr
            /\ i > 1 => tlv.entries[i - 1].offset + tlv.entries[i - 1].len
                           <= tlv.entries[i].offset - TlvHdr
      BY <2>2 DEF ImageInv, EntriesInOrder
    <2>4. verdict = "counter" =>
            \E i \in CounterEntries : tlv.entries[i].len = 4 /\ tlv.entries[i].offset + 4 <= tlv.total
      BY <2>3 DEF ImageInv, CounterFound, CounterEntries
    <2> QED BY <2>3, <2>4 DEF TlvEntriesInside
  <1> QED BY <1>1, ImageInvariant, PTL

-----------------------------------------------------------------------------
(* Data in pieces                                                          *)

(* Quotient and remainder, and what further bytes do to them.              *)
LEMMA QuotientIs ==
    ASSUME NEW m \in Nat, NEW q \in Nat, NEW r \in 0..Block - 1, m = q * Block + r
    PROVE  m \div Block = q /\ m % Block = r
  BY StreamsAssumption

LEMMA Quotient ==
    ASSUME NEW m \in Nat
    PROVE  /\ m \div Block \in Nat /\ m % Block \in 0..Block - 1
           /\ m = (m \div Block) * Block + (m % Block)
  BY StreamsAssumption

LEMMA NextQuotient ==
    ASSUME NEW m \in Nat, NEW k \in Nat
    PROVE  /\ (m % Block) + k < Block =>
                (m + k) \div Block = m \div Block /\ (m + k) % Block = (m % Block) + k
           /\ (m % Block) + k = Block =>
                (m + k) \div Block = m \div Block + 1 /\ (m + k) % Block = 0
  <1> DEFINE q == m \div Block
             r == m % Block
  <1>1. q \in Nat /\ r \in 0..Block - 1 /\ m = q * Block + r /\ Block \in Nat \ {0}
    BY Quotient, StreamsAssumption
  <1> HIDE DEF q, r
  <1>2. CASE r + k < Block
    <2>1. m + k = q * Block + (r + k) /\ r + k \in 0..Block - 1
      BY <1>1, <1>2
    <2> QED BY <1>1, <1>2, <2>1, QuotientIs DEF q, r
  <1>3. CASE r + k = Block
    <2>1. m + k = (q + 1) * Block + 0 /\ 0 \in 0..Block - 1 /\ q + 1 \in Nat
      BY <1>1, <1>3
    <2> QED BY <1>1, <1>3, <2>1, QuotientIs DEF q, r
  <1> QED BY <1>2, <1>3 DEF r

HashBlocks == Seq([Positions -> Int])
HashContexts ==
    [buffer : [Positions -> Int], count : Nat, absorbed : HashBlocks, plain : {<<>>}]

\* The block with the bytes from (b - 1) * Block on.
DataBlock(b) == [i \in Positions |-> (b - 1) * Block + i]

\* A hash that was given q blocks, which are z bytes, and r more: the blocks were
\* absorbed, the rest is in the buffer.
HashAt(c, q, r, z) ==
    /\ c \in HashContexts /\ c.count = z + r
    /\ c.absorbed = [b \in 1..q |-> DataBlock(b)]
    /\ \A i \in Positions : i < r => c.buffer[i] = z + i

HashCtx(c, m) == HashAt(c, m \div Block, m % Block, (m \div Block) * Block)

LEMMA DataBlockType ==
    ASSUME NEW b \in Nat \ {0}
    PROVE  DataBlock(b) \in [Positions -> Int]
  BY StreamsAssumption DEF DataBlock, Positions

(* A hash takes bytes up to the end of its buffer at most.                 *)
LEMMA TakesBytes ==
    ASSUME NEW q \in Nat, NEW r \in 0..Block - 1, NEW z \in Nat, z = q * Block,
           NEW c, HashAt(c, q, r, z), NEW k \in Nat \ {0}, r + k <= Block,
           NEW buf \in [Positions -> Int],
           \A i \in Positions : buf[i] = IF i \in r..r + k - 1 THEN z + i ELSE c.buffer[i],
           NEW d, d = [c EXCEPT !.count = z + r + k, !.buffer = buf]
    PROVE  /\ r + k < Block => HashAt(d, q, r + k, z)
           /\ r + k = Block => HashAt(Transform(d), q + 1, 0, z + Block)
  <1>1. Block \in Nat \ {0}
    BY StreamsAssumption
  <1>2. /\ c \in HashContexts /\ c.absorbed = [b \in 1..q |-> DataBlock(b)]
        /\ \A i \in Positions : i < r => c.buffer[i] = z + i
    BY DEF HashAt
  <1>3. /\ d \in HashContexts /\ d.count = z + r + k /\ d.absorbed = c.absorbed
        /\ d.buffer = buf
    <2>1. z + r + k \in Nat
      OBVIOUS
    <2> HIDE DEF HashBlocks
    <2> QED BY <1>2, <2>1 DEF HashContexts
  <1>4. \A i \in Positions : i \in Nat /\ (i < r + k => buf[i] = z + i)
    <2> SUFFICES ASSUME NEW i \in 0..Block - 1 PROVE i \in Nat /\ (i < r + k => buf[i] = z + i)
      BY DEF Positions
    <2>1. i \in Positions
      BY DEF Positions
    <2>2. CASE i < r
      BY <1>1, <1>2, <2>1, <2>2
    <2>3. CASE r <= i
      BY <1>1, <2>1, <2>3
    <2> QED BY <1>1, <2>2, <2>3
  <1>5. ASSUME r + k < Block PROVE HashAt(d, q, r + k, z)
    BY <1>2, <1>3, <1>4 DEF HashAt
  <1>6. ASSUME r + k = Block PROVE HashAt(Transform(d), q + 1, 0, z + Block)
    <2>1. buf = DataBlock(q + 1)
      <3>1. \A i \in Positions : buf[i] = z + i
        BY <1>1, <1>4, <1>6 DEF Positions
      <3>2. (q + 1 - 1) * Block = z
        OBVIOUS
      <3>3. DataBlock(q + 1) = [i \in Positions |-> z + i]
        BY <3>2 DEF DataBlock
      <3> QED BY <3>1, <3>3
    <2>2. Append(c.absorbed, buf) = [b \in 1..q + 1 |-> DataBlock(b)]
      BY <1>2, <2>1
    <2>3. Append(c.absorbed, buf) \in HashBlocks
      <3>1. c.absorbed \in HashBlocks
        BY <1>2 DEF HashContexts
      <3> QED BY <3>1 DEF HashBlocks
    <2>4. Transform(d) = [d EXCEPT !.absorbed = Append(c.absorbed, buf)]
      BY <1>3 DEF Transform
    <2>5. /\ Transform(d) \in HashContexts /\ Transform(d).count = z + r + k
          /\ Transform(d).absorbed = Append(c.absorbed, buf)
      <3> HIDE DEF HashBlocks
      <3> QED BY <1>3, <2>3, <2>4 DEF HashContexts
    <2>6. \A i \in Positions : ~(i < 0)
      BY <1>1 DEF Positions
    <2>7. z + r + k = z + Block + 0
      BY <1>6
    <2> QED BY <2>2, <2>5, <2>6, <2>7 DEF HashAt
  <1> QED BY <1>5, <1>6

\* A loop with n passes, of which pass i is step[i], has an execution from a.
HasExecution(n, S, a, step) ==
    \E g \in [0..n -> S] : g[0] = a /\ \A i \in 1..n : g[i] = step[i][g[i - 1]]

(* Every loop over a set that its passes do not leave has an execution.    *)
LEMMA Iterated ==
    ASSUME NEW n \in Nat, NEW S, NEW a \in S, NEW step \in [1..n -> [S -> S]]
    PROVE  HasExecution(n, S, a, step)
  <1> DEFINE Runs(k) ==
               \E g \in [0..k -> S] : g[0] = a /\ \A i \in 1..k : g[i] = step[i][g[i - 1]]
             bad == {k \in 0..n : ~Runs(k)}
  <1> HIDE DEF Runs
  <1> SUFFICES ASSUME bad # {} PROVE FALSE
    <2>1. n \in 0..n
      OBVIOUS
    <2> QED BY <2>1 DEF Runs, HasExecution
  <1>1. PICK k \in bad : \A j \in bad : k <= j
    <2>1. bad \in SUBSET Nat
      OBVIOUS
    <2> HIDE DEF bad
    <2> QED BY <2>1, NatMin
  <1>2. k # 0
    <2>1. Runs(0)
      <3> DEFINE g == [i \in 0..0 |-> a]
      <3>1. g \in [0..0 -> S] /\ g[0] = a /\ \A i \in 1..0 : FALSE
        OBVIOUS
      <3> HIDE DEF g
      <3> QED BY <3>1 DEF Runs
    <2> QED BY <2>1
  <1>3. k \in 1..n /\ k - 1 \in 0..n /\ Runs(k - 1)
    BY <1>1, <1>2
  <1>4. PICK g \in [0..k - 1 -> S] :
           g[0] = a /\ \A i \in 1..k - 1 : g[i] = step[i][g[i - 1]]
    BY <1>3 DEF Runs
  <1> DEFINE h == [i \in 0..k |-> IF i = k THEN step[k][g[k - 1]] ELSE g[i]]
  <1>5. g[k - 1] \in S /\ step[k][g[k - 1]] \in S
    BY <1>3, <1>4
  <1>6. h \in [0..k -> S]
    BY <1>3, <1>4, <1>5
  <1>7. h[0] = a /\ \A i \in 1..k : h[i] = step[i][h[i - 1]]
    BY <1>3, <1>4
  <1>8. Runs(k)
    <2> HIDE DEF h
    <2> QED BY <1>6, <1>7 DEF Runs
  <1> QED BY <1>1, <1>8

-----------------------------------------------------------------------------
(* SHA-256                                                                 *)

LEMMA Sha256ByteType ==
    ASSUME NEW c \in HashContexts, NEW byte \in Int
    PROVE  Sha256Byte(c, byte) \in HashContexts
  <1> DEFINE d == [c EXCEPT !.buffer[c.count % Block] = byte, !.count = @ + 1]
  <1>1. c.count % Block \in Positions
    BY Quotient DEF HashContexts, Positions
  <1>2. d \in HashContexts
    <2> DEFINE b == [c.buffer EXCEPT ![c.count % Block] = byte]
    <2>1. b \in [Positions -> Int] /\ c.count + 1 \in Nat
      BY <1>1 DEF HashContexts
    <2>2. d = [c EXCEPT !.buffer = b, !.count = c.count + 1]
      BY DEF HashContexts
    <2> HIDE DEF b, d, HashBlocks
    <2> QED BY <2>1, <2>2 DEF HashContexts
  <1>3. Transform(d) \in HashContexts
    <2>1. d.buffer \in [Positions -> Int] /\ d.absorbed \in HashBlocks
      BY <1>2 DEF HashContexts
    <2>2. Append(d.absorbed, d.buffer) \in HashBlocks
      BY <2>1 DEF HashBlocks
    <2> HIDE DEF d, HashBlocks
    <2> QED BY <1>2, <2>2 DEF Transform, HashContexts
  <1> QED BY <1>2, <1>3 DEF Sha256Byte

(* One byte.                                                               *)
LEMMA Sha256ByteTaken ==
    ASSUME NEW m \in Nat, NEW c, HashCtx(c, m)
    PROVE  HashCtx(Sha256Byte(c, m), m + 1)
  <1> DEFINE q == m \div Block
             r == m % Block
             z == q * Block
             d == [c EXCEPT !.buffer[c.count % Block] = m, !.count = @ + 1]
             buf == [c.buffer EXCEPT ![r] = m]
  <1>1. q \in Nat /\ r \in 0..Block - 1 /\ m = z + r /\ Block \in Nat \ {0} /\ z \in Nat
    BY Quotient, StreamsAssumption
  <1>2. HashAt(c, q, r, z) /\ c \in HashContexts /\ c.count = m
    BY <1>1 DEF HashCtx, HashAt
  <1>3. /\ r + 1 < Block => (m + 1) \div Block = q /\ (m + 1) % Block = r + 1
        /\ r + 1 = Block => (m + 1) \div Block = q + 1 /\ (m + 1) % Block = 0
    BY NextQuotient
  <1>4. d = [c EXCEPT !.count = m + 1, !.buffer = buf]
    BY <1>2 DEF HashContexts
  <1>5. buf \in [Positions -> Int] /\ c.buffer \in [Positions -> Int] /\ r \in Positions
    BY <1>1, <1>2 DEF HashContexts, Positions
  <1>6. d.count = m + 1
    BY <1>2, <1>4 DEF HashContexts
  <1>7. Sha256Byte(c, m) = IF (m + 1) % Block = 0 THEN Transform(d) ELSE d
    BY <1>6 DEF Sha256Byte
  <1> HIDE DEF q, r, z, d
  <1>8. \A i \in Positions : buf[i] = IF i \in r..r + 1 - 1 THEN z + i ELSE c.buffer[i]
    BY <1>1, <1>5 DEF Positions
  <1>9. d = [c EXCEPT !.count = z + r + 1, !.buffer = buf]
    BY <1>1, <1>4
  <1> HIDE DEF buf
  <1>10. /\ r + 1 < Block => HashAt(d, q, r + 1, z)
         /\ r + 1 = Block => HashAt(Transform(d), q + 1, 0, z + Block)
    <2>1. 1 \in Nat \ {0} /\ r + 1 <= Block /\ z = q * Block
      BY <1>1 DEF z
    <2> QED BY <1>1, <1>2, <1>5, <1>8, <1>9, <2>1, TakesBytes
  <1>11. CASE r + 1 < Block
    <2>1. HashCtx(d, m + 1)
      BY <1>3, <1>10, <1>11 DEF HashCtx, z
    <2> QED BY <1>1, <1>3, <1>7, <1>11, <2>1
  <1>12. CASE r + 1 = Block
    <2>1. (q + 1) * Block = z + Block
      BY <1>1 DEF z
    <2>2. HashCtx(Transform(d), m + 1)
      BY <1>3, <1>10, <1>12, <2>1 DEF HashCtx
    <2> QED BY <1>3, <1>7, <1>12, <2>2
  <1> QED BY <1>1, <1>11, <1>12

(* The loop of eos_sha256_update().                                        *)
LEMMA Sha256Taken ==
    ASSUME NEW m \in Nat, NEW n \in Nat, NEW c, HashCtx(c, m)
    PROVE  HashCtx(eos_sha256_update(c, n), m + n)
  <1> DEFINE body(f) == [i \in 0..n |->
                           IF i = 0 THEN c ELSE Sha256Byte(f[i - 1], c.count + i - 1)]
             after == CHOOSE f : f = body(f)
             step == [i \in 1..n |-> [x \in HashContexts |-> Sha256Byte(x, c.count + i - 1)]]
  <1>1. c \in HashContexts /\ c.count = m
    BY Quotient DEF HashCtx, HashAt
  <1>2. eos_sha256_update(c, n) = after[n]
    BY DEF eos_sha256_update
  <1>3. after = body(after)
    <2>1. step \in [1..n -> [HashContexts -> HashContexts]]
      BY <1>1, Sha256ByteType
    <2>2. PICK g \in [0..n -> HashContexts] :
             g[0] = c /\ \A i \in 1..n : g[i] = step[i][g[i - 1]]
      <3> HIDE DEF step
      <3>1. HasExecution(n, HashContexts, c, step)
        BY <1>1, <2>1, Iterated
      <3> QED BY <3>1 DEF HasExecution
    <2>3. \A i \in 1..n : g[i - 1] \in HashContexts /\ g[i] = Sha256Byte(g[i - 1], c.count + i - 1)
      <3> SUFFICES ASSUME NEW i \in 1..n
                   PROVE  /\ g[i - 1] \in HashContexts
                          /\ g[i] = Sha256Byte(g[i - 1], c.count + i - 1)
        OBVIOUS
      <3>1. g[i - 1] \in HashContexts /\ g[i] = step[i][g[i - 1]]
        BY <2>2
      <3>2. step[i] = [x \in HashContexts |-> Sha256Byte(x, c.count + i - 1)]
        OBVIOUS
      <3> QED BY <3>1, <3>2, Zenon
    <2>4. g = body(g)
      BY <2>2, <2>3
    <2> HIDE DEF body
    <2> QED BY <2>4
  <1> HIDE DEF after
  <1>4. after[0] = c /\ \A i \in 1..n : after[i] = Sha256Byte(after[i - 1], m + i - 1)
    BY <1>1, <1>3
  <1>5. \A i \in 0..n : HashCtx(after[i], m + i)
    <2> DEFINE bad == {i \in 0..n : ~HashCtx(after[i], m + i)}
    <2> SUFFICES ASSUME bad # {} PROVE FALSE
      OBVIOUS
    <2>1. PICK i \in bad : \A j \in bad : i <= j
      <3>1. bad \in SUBSET Nat
        OBVIOUS
      <3> HIDE DEF bad
      <3> QED BY <3>1, NatMin
    <2>2. CASE i = 0
      <3>1. m + 0 = m
        OBVIOUS
      <3> QED BY <1>4, <2>1, <2>2, <3>1
    <2>3. CASE i # 0
      <3>1. i \in 1..n /\ i - 1 \in 0..n /\ m + i - 1 \in Nat
        BY <2>1, <2>3
      <3>2. HashCtx(after[i - 1], m + (i - 1))
        BY <2>1, <3>1
      <3>3. m + (i - 1) = m + i - 1 /\ m + i - 1 + 1 = m + i
        BY <3>1
      <3>4. HashCtx(Sha256Byte(after[i - 1], m + i - 1), m + i - 1 + 1)
        BY <3>1, <3>2, <3>3, Sha256ByteTaken
      <3> QED BY <1>4, <2>1, <3>1, <3>3, <3>4
    <2> QED BY <2>2, <2>3
  <1> QED BY <1>2, <1>5

-----------------------------------------------------------------------------
(* SHA-512                                                                 *)

(* A loop that goes on while something is left, and takes some of it in    *)
(* every pass, is over after as many passes as there were bytes.           *)
LEMMA LoopEnds ==
    ASSUME NEW n \in Nat, NEW S, NEW a \in S, a.len = n, NEW pass \in [S -> S],
           \A p \in S : p.len \in Nat /\ (p.len # 0 => pass[p].len < p.len),
           NEW after, after[0] = a,
           \A i \in 1..n : after[i - 1] \in S =>
               after[i] = IF after[i - 1].len = 0 THEN after[i - 1] ELSE pass[after[i - 1]]
    PROVE  after[n] \in S /\ after[n].len = 0
  <1> DEFINE Fine(i) == after[i] \in S /\ (after[i].len = 0 \/ after[i].len + i <= n)
             bad == {i \in 0..n : ~Fine(i)}
  <1>1. bad = {}
    <2> SUFFICES ASSUME bad # {} PROVE FALSE
      OBVIOUS
    <2>1. PICK i \in bad : \A j \in bad : i <= j
      <3>1. bad \in SUBSET Nat
        OBVIOUS
      <3> HIDE DEF bad
      <3> QED BY <3>1, NatMin
    <2>2. CASE i = 0
      BY <2>1, <2>2
    <2>3. CASE i # 0
      <3>1. i \in 1..n /\ i - 1 \in 0..n
        BY <2>1, <2>3
      <3>2. Fine(i - 1)
        BY <2>1, <3>1
      <3>3. Fine(i)
        <4>1. CASE after[i - 1].len = 0
          BY <3>1, <3>2, <4>1
        <4>2. CASE after[i - 1].len # 0
          <5>1. after[i] = pass[after[i - 1]] /\ after[i - 1] \in S /\ after[i] \in S
            BY <3>1, <3>2, <4>2
          <5>2. after[i].len \in Nat /\ after[i - 1].len \in Nat /\ after[i].len < after[i - 1].len
            BY <4>2, <5>1
          <5> QED BY <3>1, <3>2, <4>2, <5>1, <5>2
        <4> QED BY <4>1, <4>2
      <3> QED BY <2>1, <3>3
    <2> QED BY <2>2, <2>3
  <1>2. Fine(n)
    BY <1>1
  <1>3. after[n] \in S /\ after[n].len \in Nat
    BY <1>2
  <1> QED BY <1>2, <1>3

\* What a pass of eos_sha512_update() may find when n bytes came after m.
Sha512States(m, n) ==
    {p \in [ctx : HashContexts, len : 0..n] : HashCtx(p.ctx, m + n - p.len)}

(* A pass copies up to the end of the buffer, one byte at least.           *)
LEMMA Sha512PassTaken ==
    ASSUME NEW m \in Nat, NEW n \in Nat, NEW p \in Sha512States(m, n), p.len # 0
    PROVE  Sha512Pass(p) \in Sha512States(m, n) /\ Sha512Pass(p).len < p.len
  <1> DEFINE c == p.ctx
             at == m + n - p.len
             q == at \div Block
             r == at % Block
             z == q * Block
             k == IF p.len < Block - r THEN p.len ELSE Block - r
             buf == [i \in Positions |->
                       IF i \in r..r + k - 1 THEN at + i - r ELSE c.buffer[i]]
             d == [c EXCEPT !.count = at + k, !.buffer = buf]
  <1>1. p \in [ctx : HashContexts, len : 0..n] /\ HashCtx(c, at)
    BY DEF Sha512States
  <1>2. p.len \in 1..n /\ at \in Nat /\ Block \in Nat \ {0}
    BY <1>1, StreamsAssumption
  <1>3. q \in Nat /\ r \in 0..Block - 1 /\ at = z + r /\ z \in Nat
    <2> HIDE DEF at
    <2> QED BY <1>2, Quotient
  <1>4. HashAt(c, q, r, z) /\ c \in HashContexts /\ c.count = at
    BY <1>1, <1>3 DEF HashCtx, HashAt
  <1>5. k \in 1..p.len /\ r + k <= Block /\ (r + k < Block => k = p.len)
    <2> HIDE DEF r, at
    <2> QED BY <1>2, <1>3
  <1>6. Sha512Pass(p) = [ctx |-> IF r + k = Block THEN Transform(d) ELSE d, len |-> p.len - k]
    <2>1. c.count % Block = r
      BY <1>4
    <2>2. [c EXCEPT !.count = @ + k, !.buffer = buf] = d
      BY <1>4
    <2> QED BY <1>4, <2>1, <2>2 DEF Sha512Pass
  <1>7. /\ r + k < Block => (at + k) \div Block = q /\ (at + k) % Block = r + k
        /\ r + k = Block => (at + k) \div Block = q + 1 /\ (at + k) % Block = 0
    <2>1. k \in Nat
      BY <1>2, <1>5
    <2> HIDE DEF k, at
    <2> QED BY <1>2, <2>1, NextQuotient
  <1> HIDE DEF k, r, q, z, at
  <1>8. buf \in [Positions -> Int]
    <2>1. c.buffer \in [Positions -> Int]
      BY <1>4 DEF HashContexts
    <2> QED BY <1>2, <1>3, <1>5, <2>1 DEF Positions
  <1>9. \A i \in Positions : buf[i] = IF i \in r..r + k - 1 THEN z + i ELSE c.buffer[i]
    BY <1>2, <1>3, <1>5 DEF Positions
  <1>10. d = [c EXCEPT !.count = z + r + k, !.buffer = buf]
    BY <1>3, <1>5
  <1> HIDE DEF d, buf, c
  <1>11. /\ r + k < Block => HashAt(d, q, r + k, z)
         /\ r + k = Block => HashAt(Transform(d), q + 1, 0, z + Block)
    <2>1. z = q * Block /\ k \in Nat \ {0}
      BY <1>2, <1>5 DEF z
    <2> QED BY <1>3, <1>4, <1>5, <1>8, <1>9, <1>10, <2>1, TakesBytes
  <1>12. HashCtx(Sha512Pass(p).ctx, at + k)
    <2>1. CASE r + k < Block
      <3>1. HashCtx(d, at + k)
        BY <1>7, <1>11, <2>1 DEF HashCtx, z
      <3>2. r + k # Block
        BY <1>2, <1>3, <1>5, <2>1
      <3> QED BY <1>6, <3>1, <3>2
    <2>2. CASE r + k = Block
      <3>1. (q + 1) * Block = z + Block
        BY <1>2, <1>3 DEF z
      <3>2. HashCtx(Transform(d), at + k)
        BY <1>7, <1>11, <2>2, <3>1 DEF HashCtx
      <3> QED BY <1>6, <2>2, <3>2
    <2> QED BY <1>2, <1>3, <1>5, <2>1, <2>2
  <1>13. /\ Sha512Pass(p).len = p.len - k /\ p.len - k \in 0..n /\ p.len - k < p.len
         /\ m + n - (p.len - k) = at + k
    BY <1>2, <1>5, <1>6 DEF at
  <1>14. Sha512Pass(p).ctx \in HashContexts
    BY <1>12 DEF HashCtx, HashAt
  <1>15. Sha512Pass(p) \in [ctx : HashContexts, len : 0..n]
    <2> DEFINE x == Sha512Pass(p).ctx
               y == Sha512Pass(p).len
    <2>1. Sha512Pass(p) = [ctx |-> x, len |-> y]
      BY <1>6
    <2>2. x \in HashContexts /\ y \in 0..n
      BY <1>13, <1>14
    <2> HIDE DEF x, y, HashContexts
    <2> QED BY <2>1, <2>2
  <1> HIDE DEF HashContexts
  <1> QED BY <1>12, <1>13, <1>15 DEF Sha512States

(* The loop of eos_sha512_update().                                        *)
LEMMA Sha512Taken ==
    ASSUME NEW m \in Nat, NEW n \in Nat, NEW c, HashCtx(c, m)
    PROVE  HashCtx(eos_sha512_update(c, n), m + n)
  <1> DEFINE S == Sha512States(m, n)
             a == [ctx |-> c, len |-> n]
             body(f) == [i \in 0..n |-> IF i = 0 THEN a
                            ELSE IF f[i - 1].len = 0 THEN f[i - 1] ELSE Sha512Pass(f[i - 1])]
             after == CHOOSE f : f = body(f)
             pass == [x \in S |-> IF x.len = 0 THEN x ELSE Sha512Pass(x)]
             step == [i \in 1..n |-> pass]
  <1>1. a \in S /\ a.len = n
    <2>1. c \in HashContexts /\ m + n - n = m
      BY DEF HashCtx, HashAt
    <2> HIDE DEF HashContexts
    <2> QED BY <2>1 DEF Sha512States
  <1>2. eos_sha512_update(c, n) = after[n].ctx
    BY DEF eos_sha512_update
  <1>3. pass \in [S -> S]
    BY Sha512PassTaken
  <1>4. \A p \in S : p.len \in 0..n /\ p.len \in Nat /\ (p.len # 0 => pass[p].len < p.len)
    <2>1. \A p \in S : p.len \in 0..n
      BY DEF Sha512States
    <2> QED BY <2>1, Sha512PassTaken
  <1> HIDE DEF S, a
  <1>5. after = body(after)
    <2>1. step \in [1..n -> [S -> S]]
      BY <1>3
    <2>2. PICK g \in [0..n -> S] : g[0] = a /\ \A i \in 1..n : g[i] = step[i][g[i - 1]]
      <3> HIDE DEF step
      <3>1. HasExecution(n, S, a, step)
        BY <1>1, <2>1, Iterated
      <3> QED BY <3>1 DEF HasExecution
    <2>3. \A i \in 1..n : g[i] = IF g[i - 1].len = 0 THEN g[i - 1] ELSE Sha512Pass(g[i - 1])
      <3> SUFFICES ASSUME NEW i \in 1..n
                   PROVE  g[i] = IF g[i - 1].len = 0 THEN g[i - 1] ELSE Sha512Pass(g[i - 1])
        OBVIOUS
      <3>1. g[i - 1] \in S /\ g[i] = step[i][g[i - 1]]
        BY <2>2
      <3>2. step[i] = pass
        OBVIOUS
      <3> QED BY <3>1, <3>2, Zenon
    <2>4. g = body(g)
      BY <2>2, <2>3
    <2> HIDE DEF body
    <2> QED BY <2>4
  <1> HIDE DEF after
  <1>6. after[0] = a /\ \A i \in 1..n : after[i] = IF after[i - 1].len = 0 THEN after[i - 1]
                                                   ELSE Sha512Pass(after[i - 1])
    BY <1>5
  <1>7. after[n] \in S /\ after[n].len = 0
    <2>1. \A i \in 1..n : after[i - 1] \in S =>
             after[i] = IF after[i - 1].len = 0 THEN after[i - 1] ELSE pass[after[i - 1]]
      BY <1>6, Zenon
    <2> HIDE DEF pass
    <2> QED BY <1>1, <1>3, <1>4, <1>6, <2>1, LoopEnds
  <1>8. m + n - 0 = m + n
    OBVIOUS
  <1> QED BY <1>2, <1>7, <1>8 DEF S, Sha512States

-----------------------------------------------------------------------------
(* AES-GCM                                                                 *)

GcmBlock(b) == [i \in Positions |-> {(b - 1) * Block + i}]

\* Where the first m bytes find their key stream.
KeyStream(m) == [i \in 1..m |-> <<((i - 1) \div Block) + 2, (i - 1) % Block>>]

\* Decryption after q blocks, which are z bytes, and r more.
GcmAt(q, r, z) ==
    [buffer |-> [i \in Positions |-> IF i < r THEN {z + i} ELSE {}], count |-> z + r,
     absorbed |-> [b \in 1..q |-> GcmBlock(b)], plain |-> KeyStream(z + r)]

GcmCtx(m) == GcmAt(m \div Block, m % Block, (m \div Block) * Block)

\* h is f, of length m, followed by g, of length k.
Joined(h, f, m, g, k, S) ==
    /\ h \in [1..m + k -> S]
    /\ \A i \in 1..m + k : h[i] = IF i <= m THEN f[i] ELSE g[i - m]

LEMMA TwoPieces ==
    ASSUME NEW S, NEW m \in Nat, NEW k \in Nat, NEW f \in [1..m -> S], NEW g \in [1..k -> S]
    PROVE  Joined(f \o g, f, m, g, k, S)
  <1>1. f \in Seq(S) /\ g \in Seq(S) /\ Len(f) = m /\ Len(g) = k
    OBVIOUS
  <1>2. f \o g \in Seq(S) /\ Len(f \o g) = m + k
    BY <1>1, ConcatProperties
  <1>3. \A i \in 1..m + k : (f \o g)[i] = IF i <= m THEN f[i] ELSE g[i - m]
    BY <1>1, ConcatProperties
  <1> DEFINE h == f \o g
  <1> HIDE DEF h
  <1>4. h \in [1..m + k -> S]
    <2>1. h \in Seq(S) /\ Len(h) = m + k
      BY <1>2 DEF h
    <2> QED BY <2>1
  <1> QED BY <1>3, <1>4 DEF h, Joined

(* Bytes of one block use the key stream of that block.                    *)
LEMMA KeyStreamGoesOn ==
    ASSUME NEW m \in Nat, NEW k \in Nat, (m % Block) + k <= Block
    PROVE  KeyStream(m) \o [i \in 1..k |-> <<(m \div Block) + 2, (m % Block) + i - 1>>]
             = KeyStream(m + k)
  <1> DEFINE q == m \div Block
             r == m % Block
             new == [i \in 1..k |-> <<q + 2, r + i - 1>>]
  <1>1. q \in Nat /\ r \in 0..Block - 1 /\ Block \in Nat \ {0}
    BY Quotient, StreamsAssumption
  <1>2. ASSUME NEW i \in 1..k
        PROVE  <<((m + i - 1) \div Block) + 2, (m + i - 1) % Block>> = <<q + 2, r + i - 1>>
    <2>1. i - 1 \in Nat /\ r + (i - 1) < Block /\ m + (i - 1) = m + i - 1
      BY <1>1
    <2>2. (m + (i - 1)) \div Block = q /\ (m + (i - 1)) % Block = r + (i - 1)
      BY <2>1, NextQuotient
    <2>3. r + (i - 1) = r + i - 1
      BY <1>1
    <2> HIDE DEF q, r
    <2> QED BY <2>1, <2>2, <2>3, Zenon
  <1> HIDE DEF q, r
  <1> DEFINE h == KeyStream(m) \o new
             T == Int \X Int
  <1>3. /\ h \in [1..m + k -> T]
        /\ \A i \in 1..m + k : h[i] = IF i <= m THEN KeyStream(m)[i] ELSE new[i - m]
    <2>1. KeyStream(m) \in [1..m -> T]
      <3>1. \A i \in 1..m : i - 1 \in Nat
        OBVIOUS
      <3>2. \A j \in Nat : (j \div Block) + 2 \in Int /\ j % Block \in Int
        BY StreamsAssumption
      <3> QED BY <3>1, <3>2, Zenon DEF KeyStream
    <2>2. new \in [1..k -> T]
      BY <1>1
    <2> HIDE DEF new, T
    <2>3. Joined(KeyStream(m) \o new, KeyStream(m), m, new, k, T)
      BY <2>1, <2>2, TwoPieces
    <2> QED BY <2>3 DEF Joined
  <1>4. ASSUME NEW i \in 1..m + k
        PROVE  (IF i <= m THEN KeyStream(m)[i] ELSE new[i - m])
                 = <<((i - 1) \div Block) + 2, (i - 1) % Block>>
    <2>1. CASE i <= m
      <3>1. i \in 1..m
        BY <2>1
      <3> QED BY <2>1, <3>1 DEF KeyStream
    <2>2. CASE ~(i <= m)
      <3>1. i - m \in 1..k /\ m + (i - m) - 1 = i - 1
        BY <2>2
      <3>2. new[i - m] = <<q + 2, r + (i - m) - 1>>
        BY <3>1
      <3>3. <<((m + (i - m) - 1) \div Block) + 2, (m + (i - m) - 1) % Block>>
              = <<q + 2, r + (i - m) - 1>>
        BY <1>2, <3>1, Zenon
      <3> HIDE DEF new
      <3> QED BY <2>2, <3>1, <3>2, <3>3, Zenon
    <2> QED BY <2>1, <2>2
  <1>5. h = KeyStream(m + k)
    <2>1. \A i \in 1..m + k : h[i] = <<((i - 1) \div Block) + 2, (i - 1) % Block>>
      <3> HIDE DEF new, h
      <3> QED BY <1>3, <1>4, Zenon
    <2> HIDE DEF h, T
    <2> QED BY <1>3, <2>1, Zenon DEF KeyStream
  <1> QED BY <1>5 DEF q, r

LEMMA Multiplied ==
    ASSUME NEW b, NEW n, NEW a, NEW p
    PROVE  ghash_mult([buffer |-> b, count |-> n, absorbed |-> a, plain |-> p])
             = [buffer |-> [i \in Positions |-> {}], count |-> n,
                absorbed |-> Append(a, b), plain |-> p]
  <1> DEFINE c == [buffer |-> b, count |-> n, absorbed |-> a, plain |-> p]
             w == Append(a, b)
             e == [i \in Positions |-> {}]
  <1>1. c.absorbed = a /\ c.buffer = b
    OBVIOUS
  <1>2. ghash_mult(c) = [c EXCEPT !.absorbed = w, !.buffer = e]
    BY <1>1 DEF ghash_mult
  <1> HIDE DEF e, w
  <1>3. [c EXCEPT !.absorbed = w] = [buffer |-> b, count |-> n, absorbed |-> w, plain |-> p]
    OBVIOUS
  <1> HIDE DEF c
  <1>4. ghash_mult(c) = [[c EXCEPT !.absorbed = w] EXCEPT !.buffer = e]
    BY <1>2, Zenon
  <1>5. ghash_mult(c) = [buffer |-> e, count |-> n, absorbed |-> w, plain |-> p]
    BY <1>3, <1>4
  <1> QED BY <1>5 DEF c, e, w

(* A round of eos_fw_decrypt_update() with k bytes.                        *)
LEMMA GcmPieceTaken ==
    ASSUME NEW m \in Nat, NEW k \in Nat \ {0}, (m % Block) + k <= Block
    PROVE  GcmPiece(GcmCtx(m), m \div Block, m % Block, k) = GcmCtx(m + k)
  <1> DEFINE q == m \div Block
             r == m % Block
             z == q * Block
             c == GcmAt(q, r, z)
             full == [i \in Positions |-> IF i < r + k THEN {z + i} ELSE {}]
             done == [b \in 1..q |-> GcmBlock(b)]
             d == [buffer |-> full, count |-> m + k, absorbed |-> done,
                   plain |-> KeyStream(m + k)]
             taken == [i \in 1..k |-> <<q + 2, r + i - 1>>]
  <1>1. q \in Nat /\ r \in 0..Block - 1 /\ m = z + r /\ Block \in Nat \ {0} /\ z \in Nat
    BY Quotient, StreamsAssumption
  <1>2. KeyStream(m) \o taken = KeyStream(m + k)
    BY KeyStreamGoesOn
  <1>3. /\ r + k < Block => (m + k) \div Block = q /\ (m + k) % Block = r + k
        /\ r + k = Block => (m + k) \div Block = q + 1 /\ (m + k) % Block = 0
    BY NextQuotient
  <1>4. GcmCtx(m) = c
    BY DEF GcmCtx
  <1> SUFFICES GcmPiece(c, q, r, k) = GcmCtx(m + k)
    BY <1>4
  <1> HIDE DEF q, r, z, taken
  <1>5. c.count = m /\ c.absorbed = done /\ c.plain = KeyStream(m)
        /\ c.buffer = [i \in Positions |-> IF i < r THEN {z + i} ELSE {}]
        /\ DOMAIN c = {"buffer", "count", "absorbed", "plain"}
    BY <1>1 DEF GcmAt
  <1> DEFINE xored == [i \in Positions |-> IF i \in r..r + k - 1
                         THEN Xor(c.buffer[i], {c.count + i - r}) ELSE c.buffer[i]]
             combined == [c EXCEPT !.count = @ + k, !.buffer = xored, !.plain = @ \o taken]
  <1>6. xored = full
    <2> SUFFICES ASSUME NEW i \in Positions PROVE xored[i] = full[i]
      OBVIOUS
    <2>1. i \in 0..Block - 1
      BY DEF Positions
    <2>2. c.buffer[i] = IF i < r THEN {z + i} ELSE {}
      BY <1>5
    <2>3. CASE i \in r..r + k - 1
      <3>1. c.buffer[i] = {} /\ c.count + i - r = z + i
        BY <1>1, <1>5, <2>1, <2>2, <2>3
      <3>2. Xor({}, {z + i}) = {z + i}
        BY Zenon DEF Xor
      <3>3. xored[i] = {z + i}
        BY <2>3, <3>1, <3>2
      <3>4. i < r + k
        BY <1>1, <2>1, <2>3
      <3> QED BY <3>3, <3>4
    <2>4. CASE ~(i \in r..r + k - 1)
      <3>1. i < r <=> i < r + k
        BY <1>1, <2>1, <2>4
      <3> QED BY <2>2, <2>4, <3>1
    <2> QED BY <2>3, <2>4
  <1>7. combined = d
    <2> DEFINE old == c.buffer
               stream == KeyStream(m)
    <2>1. c = [buffer |-> old, count |-> m, absorbed |-> done, plain |-> stream]
      BY <1>1 DEF GcmAt
    <2>2. stream \o taken = KeyStream(m + k)
      BY <1>2
    <2>3. combined = [c EXCEPT !.count = m + k, !.buffer = full, !.plain = KeyStream(m + k)]
      <3>1. c.count = m /\ c.plain = stream
        BY <1>5
      <3> HIDE DEF xored, full, c, stream
      <3> QED BY <1>6, <2>2, <3>1
    <2> HIDE DEF combined, full, done, c, old, stream
    <2>4. combined = [[[c EXCEPT !.count = m + k] EXCEPT !.buffer = full]
                                                  EXCEPT !.plain = KeyStream(m + k)]
      BY <2>3, Zenon
    <2>5. [c EXCEPT !.count = m + k]
            = [buffer |-> old, count |-> m + k, absorbed |-> done, plain |-> stream]
      BY <2>1
    <2>6. [[buffer |-> old, count |-> m + k, absorbed |-> done, plain |-> stream]
              EXCEPT !.buffer = full]
            = [buffer |-> full, count |-> m + k, absorbed |-> done, plain |-> stream]
      OBVIOUS
    <2>7. [[buffer |-> full, count |-> m + k, absorbed |-> done, plain |-> stream]
              EXCEPT !.plain = KeyStream(m + k)] = d
      OBVIOUS
    <2> HIDE DEF d
    <2> QED BY <2>4, <2>5, <2>6, <2>7, Zenon
  <1>8. GcmPiece(c, q, r, k) = IF r + k = Block THEN ghash_mult(d) ELSE d
    <2>1. GcmPiece(c, q, r, k) = IF r + k = Block THEN ghash_mult(combined) ELSE combined
      <3> HIDE DEF c
      <3> QED BY DEF GcmPiece, taken
    <2> HIDE DEF combined, d, c
    <2> QED BY <1>7, <2>1
  <1>9. CASE r + k < Block
    <2>1. GcmCtx(m + k) = GcmAt(q, r + k, z)
      BY <1>3, <1>9 DEF GcmCtx, z
    <2>2. z + (r + k) = m + k /\ r + k # Block
      BY <1>1, <1>9
    <2>3. GcmAt(q, r + k, z) = d
      BY <2>2 DEF GcmAt
    <2> HIDE DEF d, c
    <2> QED BY <1>8, <2>1, <2>2, <2>3
  <1>10. CASE r + k = Block
    <2>1. GcmCtx(m + k) = GcmAt(q + 1, 0, z + Block)
      <3>1. (q + 1) * Block = z + Block
        BY <1>1 DEF z
      <3> QED BY <1>3, <1>10, <3>1 DEF GcmCtx
    <2>2. z + Block + 0 = m + k
      BY <1>1, <1>10
    <2>3. full = GcmBlock(q + 1)
      <3> DEFINE b == q + 1
      <3>1. (b - 1) * Block = z
        BY <1>1 DEF z
      <3> HIDE DEF b
      <3>2. GcmBlock(b) = [i \in Positions |-> {(b - 1) * Block + i}]
        BY DEF GcmBlock
      <3>3. \A i \in Positions : i < r + k
        BY <1>1, <1>10 DEF Positions
      <3>4. full = [i \in Positions |-> {z + i}]
        BY <3>3
      <3> HIDE DEF full
      <3>5. full = GcmBlock(b)
        BY <3>1, <3>2, <3>4, Zenon
      <3> QED BY <3>5 DEF b
    <2>4. Append(done, full) = [b \in 1..q + 1 |-> GcmBlock(b)]
      <3> HIDE DEF full
      <3> QED BY <1>1, <2>3
    <2>5. [i \in Positions |-> {}] = [i \in Positions |-> IF i < 0 THEN {z + Block + i} ELSE {}]
      BY <1>1 DEF Positions
    <2>6. ghash_mult(d) = [buffer |-> [i \in Positions |-> {}], count |-> m + k,
                           absorbed |-> Append(done, full), plain |-> KeyStream(m + k)]
      BY Multiplied
    <2>7. ghash_mult(d) = GcmAt(q + 1, 0, z + Block)
      <3> HIDE DEF d, full, done
      <3> QED BY <2>2, <2>4, <2>5, <2>6 DEF GcmAt
    <2> HIDE DEF d, c
    <2> QED BY <1>8, <1>10, <2>1, <2>7, Zenon
  <1>11. r + k <= Block
    BY DEF r
  <1> QED BY <1>1, <1>9, <1>10, <1>11

\* What a pass of eos_fw_decrypt_update() may find when n bytes came after m: what
\* is left starts where the offsets say.
GcmDue(p, at) ==
    /\ p.ctx = GcmCtx(at)
    /\ p.len # 0 => p.block_offset = at \div Block /\ p.byte_offset = at % Block

GcmStates(m, n) ==
    {p \in [ctx : {GcmCtx(j) : j \in Nat}, block_offset : Nat, byte_offset : 0..Block - 1,
            len : 0..n] : GcmDue(p, m + n - p.len)}

LEMMA GcmPassTaken ==
    ASSUME NEW m \in Nat, NEW n \in Nat, NEW p \in GcmStates(m, n), p.len # 0
    PROVE  GcmPass(p) \in GcmStates(m, n) /\ GcmPass(p).len < p.len
  <1> DEFINE at == m + n - p.len
             r == at % Block
             k == IF p.len < Block - r THEN p.len ELSE Block - r
             new == GcmPass(p)
             All == {GcmCtx(j) : j \in Nat}
  <1>1. /\ p \in [ctx : All, block_offset : Nat, byte_offset : 0..Block - 1, len : 0..n]
        /\ p.ctx = GcmCtx(at) /\ p.block_offset = at \div Block /\ p.byte_offset = r
    BY DEF GcmStates, GcmDue
  <1>2. p.len \in 1..n /\ at \in Nat /\ Block \in Nat \ {0} /\ p.block_offset \in Nat
    BY <1>1, StreamsAssumption
  <1>3. r \in 0..Block - 1
    <2> HIDE DEF at
    <2> QED BY <1>2, Quotient
  <1> HIDE DEF at, r
  <1>4. k \in 1..p.len /\ r + k <= Block /\ (k # p.len => r + k = Block) /\ k \in Nat \ {0}
    BY <1>2, <1>3
  <1>5. new = [ctx |-> GcmPiece(GcmCtx(at), at \div Block, r, k),
               block_offset |-> p.block_offset + 1, byte_offset |-> 0, len |-> p.len - k]
    BY <1>1 DEF GcmPass
  <1> HIDE DEF k
  <1>6. GcmPiece(GcmCtx(at), at \div Block, r, k) = GcmCtx(at + k)
    BY <1>2, <1>4, GcmPieceTaken DEF r
  <1>7. new = [ctx |-> GcmCtx(at + k), block_offset |-> p.block_offset + 1,
               byte_offset |-> 0, len |-> p.len - k]
    <2> HIDE DEF new
    <2> QED BY <1>5, <1>6, Zenon
  <1>8. /\ p.len - k \in 0..n /\ p.len - k < p.len /\ m + n - (p.len - k) = at + k
        /\ at + k \in Nat /\ p.block_offset + 1 \in Nat /\ 0 \in 0..Block - 1
    BY <1>2, <1>4 DEF at
  <1>9. GcmCtx(at + k) \in All
    BY <1>8
  <1>10. p.len - k # 0 => p.block_offset + 1 = (at + k) \div Block /\ 0 = (at + k) % Block
    <2> SUFFICES ASSUME p.len - k # 0
                 PROVE  p.block_offset + 1 = (at + k) \div Block /\ 0 = (at + k) % Block
      OBVIOUS
    <2>1. (at % Block) + k = Block
      BY <1>2, <1>4 DEF r
    <2> QED BY <1>1, <1>2, <1>4, <2>1, NextQuotient
  <1> HIDE DEF new, All
  <1>11. new \in [ctx : All, block_offset : Nat, byte_offset : 0..Block - 1, len : 0..n]
    BY <1>7, <1>8, <1>9
  <1>12. new.len = p.len - k /\ new.ctx = GcmCtx(at + k) /\ new.byte_offset = 0
         /\ new.block_offset = p.block_offset + 1
    BY <1>7
  <1>13. GcmDue(new, m + n - new.len)
    BY <1>8, <1>10, <1>12 DEF GcmDue
  <1>14. new \in GcmStates(m, n)
    BY <1>11, <1>13 DEF GcmStates, All
  <1> QED BY <1>8, <1>12, <1>14 DEF new

(* The loop of eos_fw_decrypt_update().                                    *)
LEMMA GcmTaken ==
    ASSUME NEW m \in Nat, NEW n \in Nat
    PROVE  eos_fw_decrypt_update(GcmCtx(m), n) = GcmCtx(m + n)
  <1> DEFINE c == GcmCtx(m)
             S == GcmStates(m, n)
             a == [ctx |-> c, block_offset |-> c.count \div Block,
                   byte_offset |-> c.count % Block, len |-> n]
             body(f) == [i \in 0..n |-> IF i = 0 THEN a
                            ELSE IF f[i - 1].len = 0 THEN f[i - 1] ELSE GcmPass(f[i - 1])]
             after == CHOOSE f : f = body(f)
             pass == [x \in S |-> IF x.len = 0 THEN x ELSE GcmPass(x)]
             step == [i \in 1..n |-> pass]
  <1>1. a \in S /\ a.len = n
    <2>1. c.count = m
      BY Quotient DEF GcmCtx, GcmAt
    <2>2. c \in {GcmCtx(j) : j \in Nat} /\ m + n - n = m
      OBVIOUS
    <2>3. m \div Block \in Nat /\ m % Block \in 0..Block - 1
      BY Quotient
    <2> HIDE DEF c
    <2>4. GcmDue(a, m)
      BY <2>1 DEF GcmDue, c
    <2>5. a.len = n
      OBVIOUS
    <2>6. a \in [ctx : {GcmCtx(j) : j \in Nat}, block_offset : Nat,
                 byte_offset : 0..Block - 1, len : 0..n]
      BY <2>1, <2>2, <2>3
    <2> HIDE DEF a
    <2> QED BY <2>2, <2>4, <2>5, <2>6 DEF GcmStates
  <1>2. eos_fw_decrypt_update(c, n) = after[n].ctx
    BY DEF eos_fw_decrypt_update
  <1>3. pass \in [S -> S]
    BY GcmPassTaken
  <1>4. \A p \in S : p.len \in 0..n /\ p.len \in Nat /\ (p.len # 0 => pass[p].len < p.len)
    <2>1. \A p \in S : p.len \in 0..n
      BY DEF GcmStates
    <2> QED BY <2>1, GcmPassTaken
  <1> HIDE DEF S, a
  <1>5. after = body(after)
    <2>1. step \in [1..n -> [S -> S]]
      BY <1>3
    <2>2. PICK g \in [0..n -> S] : g[0] = a /\ \A i \in 1..n : g[i] = step[i][g[i - 1]]
      <3> HIDE DEF step
      <3>1. HasExecution(n, S, a, step)
        BY <1>1, <2>1, Iterated
      <3> QED BY <3>1 DEF HasExecution
    <2>3. \A i \in 1..n : g[i] = IF g[i - 1].len = 0 THEN g[i - 1] ELSE GcmPass(g[i - 1])
      <3> SUFFICES ASSUME NEW i \in 1..n
                   PROVE  g[i] = IF g[i - 1].len = 0 THEN g[i - 1] ELSE GcmPass(g[i - 1])
        OBVIOUS
      <3>1. g[i - 1] \in S /\ g[i] = step[i][g[i - 1]]
        BY <2>2
      <3>2. step[i] = pass
        OBVIOUS
      <3> QED BY <3>1, <3>2, Zenon
    <2>4. g = body(g)
      BY <2>2, <2>3
    <2> HIDE DEF body
    <2> QED BY <2>4
  <1> HIDE DEF after, c
  <1>6. after[0] = a /\ \A i \in 1..n : after[i] = IF after[i - 1].len = 0 THEN after[i - 1]
                                                   ELSE GcmPass(after[i - 1])
    BY <1>5
  <1>7. after[n] \in S /\ after[n].len = 0
    <2>1. \A i \in 1..n : after[i - 1] \in S =>
             after[i] = IF after[i - 1].len = 0 THEN after[i - 1] ELSE pass[after[i - 1]]
      BY <1>6, Zenon
    <2> HIDE DEF pass
    <2> QED BY <1>1, <1>3, <1>4, <1>6, <2>1, LoopEnds
  <1>8. after[n].ctx = GcmCtx(m + n)
    <2>1. m + n - 0 = m + n
      OBVIOUS
    <2>2. GcmDue(after[n], m + n - after[n].len)
      BY <1>7 DEF S, GcmStates
    <2> QED BY <1>7, <2>1, <2>2 DEF GcmDue
  <1> QED BY <1>2, <1>8 DEF c

-----------------------------------------------------------------------------
(* The last block                                                          *)

(* Byte i of block b lies before block q ends when b is no later.          *)
LEMMA BeforeTheEnd ==
    ASSUME NEW q \in Nat, NEW b \in 1..q, NEW i \in 0..Block - 1
    PROVE  (b - 1) * Block + i \in Nat /\ (b - 1) * Block + i < q * Block
  <1> DEFINE d == q - b
  <1>1. Block \in Nat \ {0} /\ d \in Nat /\ b - 1 \in Nat
    BY StreamsAssumption
  <1>2. q * Block = (b - 1) * Block + Block + d * Block
    BY <1>1
  <1>3. d * Block \in Nat /\ (b - 1) * Block \in Nat
    <2> HIDE DEF d
    <2> QED BY <1>1
  <1> HIDE DEF d
  <1> QED BY <1>1, <1>2, <1>3

OfLength(f, q) == f = [b \in 1..q |-> f[b]]

(* One more element.                                                       *)
LEMMA OneMore ==
    ASSUME NEW q \in Nat, NEW f, NEW g, NEW x, OfLength(f, q), OfLength(g, q + 1),
           \A b \in 1..q : g[b] = f[b], g[q + 1] = x
    PROVE  Append(f, x) = g
  BY DEF OfLength

\* Block b of Authenticated(n), which has n bytes in so many blocks.
AuthenticatedBlock(n, blocks, b) ==
    [i \in Positions |->
        IF b = blocks + 1 THEN {LengthCell(n)}
        ELSE IF (b - 1) * Block + i < n THEN {(b - 1) * Block + i} ELSE {}]

LEMMA AuthenticatedData ==
    ASSUME NEW n \in Nat, NEW blocks \in Nat, NEW b \in 1..(n \div Block), b <= blocks
    PROVE  AuthenticatedBlock(n, blocks, b) = GcmBlock(b)
  <1>1. \A i \in Positions : (b - 1) * Block + i < n
    <2> SUFFICES ASSUME NEW i \in 0..Block - 1 PROVE (b - 1) * Block + i < n
      BY DEF Positions
    <2> DEFINE q == n \div Block
               r == n % Block
               at == (b - 1) * Block + i
    <2>1. q \in Nat /\ r \in Nat /\ n = q * Block + r /\ b \in 1..q
      BY Quotient, StreamsAssumption
    <2>2. at \in Nat /\ at < q * Block
      <3> HIDE DEF q
      <3> QED BY <2>1, BeforeTheEnd
    <2>3. q * Block \in Nat
      <3> HIDE DEF q
      <3> QED BY <2>1, StreamsAssumption
    <2> HIDE DEF q, r, at
    <2>4. at < n
      BY <2>1, <2>2, <2>3
    <2> QED BY <2>4 DEF at
  <1>2. b # blocks + 1
    OBVIOUS
  <1> QED BY <1>1, <1>2, Zenon DEF AuthenticatedBlock, GcmBlock

(* eos_fw_decrypt_final(): a block that is not full is authenticated as it *)
(* is, and the length after it.                                            *)
LEMMA GcmFinal ==
    ASSUME NEW n \in Nat
    PROVE  /\ eos_fw_decrypt_final(GcmCtx(n)).absorbed = Authenticated(n)
           /\ eos_fw_decrypt_final(GcmCtx(n)).plain = KeyStream(n)
           /\ eos_fw_decrypt_final(GcmCtx(n)).count = n
  <1> DEFINE q == n \div Block
             r == n % Block
             z == q * Block
             c == GcmAt(q, r, z)
             done == [b \in 1..q |-> GcmBlock(b)]
             buf == [i \in Positions |-> IF i < r THEN {z + i} ELSE {}]
             empty == [i \in Positions |-> {}]
             length == [i \in Positions |-> {LengthCell(n)}]
             blocks == IF r # 0 THEN q + 1 ELSE q
             data == IF r # 0 THEN Append(done, buf) ELSE done
             stream == KeyStream(n)
             whole == IF c.count % Block # 0 THEN ghash_mult(c) ELSE c
  <1>1. q \in Nat /\ r \in 0..Block - 1 /\ n = z + r /\ Block \in Nat \ {0} /\ z \in Nat
    BY Quotient, StreamsAssumption
  <1>2. GcmCtx(n) = c
    BY DEF GcmCtx
  <1>3. (n + Block - 1) \div Block = blocks
    <2>1. CASE r = 0
      <3>1. n + Block - 1 = q * Block + (Block - 1) /\ Block - 1 \in 0..Block - 1
        <4> HIDE DEF q, r
        <4> QED BY <1>1, <2>1
      <3>2. n + Block - 1 \in Nat
        BY <1>1
      <3> QED BY <1>1, <2>1, <3>1, <3>2, QuotientIs
    <2>2. CASE r # 0
      <3>1. n + Block - 1 = (q + 1) * Block + (r - 1) /\ r - 1 \in 0..Block - 1
        <4> HIDE DEF q, r
        <4> QED BY <1>1, <2>2
      <3>2. n + Block - 1 \in Nat /\ q + 1 \in Nat
        BY <1>1
      <3> QED BY <1>1, <2>2, <3>1, <3>2, QuotientIs
    <2> QED BY <2>1, <2>2
  <1>4. c = [buffer |-> buf, count |-> n, absorbed |-> done, plain |-> stream]
    <2> HIDE DEF q, r, z
    <2> QED BY <1>1 DEF GcmAt
  <1>5. c.count % Block = r
    <2> HIDE DEF c, buf, done, stream
    <2>1. c.count = n
      BY <1>4
    <2> QED BY <2>1
  <1> HIDE DEF r, q, z, c
  <1>6. whole = [buffer |-> empty, count |-> n, absorbed |-> data, plain |-> stream]
    <2>1. CASE r # 0
      <3> HIDE DEF buf, done, stream
      <3>1. ghash_mult(c) = [buffer |-> empty, count |-> n, absorbed |-> Append(done, buf),
                             plain |-> stream]
        BY <1>4, Multiplied
      <3> QED BY <1>5, <2>1, <3>1
    <2>2. CASE r = 0
      <3>1. buf = empty
        BY <1>1, <2>2 DEF Positions
      <3> HIDE DEF buf, empty, done, stream
      <3> QED BY <1>4, <1>5, <2>2, <3>1
    <2> QED BY <2>1, <2>2
  <1> DEFINE last == [whole EXCEPT !.buffer = [i \in Positions |->
                        Xor(@[i], {LengthCell(c.count)})]]
             tag == ghash_mult(last)
  <1>7. last = [buffer |-> length, count |-> n, absorbed |-> data, plain |-> stream]
    <2>1. [i \in Positions |-> Xor(empty[i], {LengthCell(n)})] = length
      <3>1. Xor({}, {LengthCell(n)}) = {LengthCell(n)}
        BY Zenon DEF Xor
      <3>2. \A i \in Positions : Xor(empty[i], {LengthCell(n)}) = {LengthCell(n)}
        BY <3>1
      <3> HIDE DEF empty
      <3> QED BY <3>2, Zenon
    <2>2. c.count = n /\ whole.buffer = empty
      <3> HIDE DEF whole, buf, done, stream, empty, data
      <3> QED BY <1>4, <1>6
    <2>3. last = [whole EXCEPT !.buffer = length]
      <3> HIDE DEF whole, empty, length
      <3> QED BY <2>1, <2>2
    <2> HIDE DEF last, whole, data, stream, length, empty
    <2> QED BY <1>6, <2>3
  <1>8. tag = [buffer |-> empty, count |-> n, absorbed |-> Append(data, length),
               plain |-> stream]
    <2> HIDE DEF last, data, length, stream
    <2> QED BY <1>7, Multiplied
  <1>9. eos_fw_decrypt_final(GcmCtx(n)) = tag
    <2> HIDE DEF r
    <2> QED BY <1>2 DEF eos_fw_decrypt_final
  <1> DEFINE auth == [b \in 1..blocks + 1 |-> AuthenticatedBlock(n, blocks, b)]
  <1>10. Authenticated(n) = auth
    <2> HIDE DEF blocks
    <2> QED BY <1>3, Zenon DEF Authenticated, AuthenticatedBlock
  <1>11. blocks \in Nat /\ q <= blocks
    BY <1>1
  <1>12. \A b \in 1..q : AuthenticatedBlock(n, blocks, b) = GcmBlock(b)
    <2> HIDE DEF blocks
    <2>1. \A b \in 1..q : b \in 1..(n \div Block) /\ b <= blocks
      BY <1>1, <1>11 DEF q
    <2> QED BY <1>11, <2>1, AuthenticatedData
  <1>13. AuthenticatedBlock(n, blocks, blocks + 1) = length
    <2> HIDE DEF blocks
    <2> QED BY DEF AuthenticatedBlock
  <1>14. r # 0 => AuthenticatedBlock(n, blocks, q + 1) = buf
    <2> SUFFICES ASSUME r # 0 PROVE AuthenticatedBlock(n, q + 1, q + 1) = buf
      OBVIOUS
    <2> DEFINE b == q + 1
    <2>1. (b - 1) * Block = z /\ b # b + 1
      BY <1>1 DEF z
    <2> HIDE DEF b
    <2>2. AuthenticatedBlock(n, b, b)
            = [i \in Positions |-> IF z + i < n THEN {z + i} ELSE {}]
      BY <2>1, Zenon DEF AuthenticatedBlock
    <2>3. \A i \in Positions : z + i < n <=> i < r
      BY <1>1 DEF Positions
    <2>4. AuthenticatedBlock(n, b, b) = buf
      BY <2>2, <2>3
    <2> QED BY <2>4 DEF b
  <1>15. data = [b \in 1..blocks |-> AuthenticatedBlock(n, blocks, b)]
    <2>1. CASE r = 0
      BY <1>12, <2>1
    <2>2. CASE r # 0
      <3> DEFINE f == done
                 g == [b \in 1..q + 1 |-> AuthenticatedBlock(n, q + 1, b)]
      <3>1. OfLength(f, q) /\ OfLength(g, q + 1)
        BY DEF OfLength
      <3>2. (\A b \in 1..q : g[b] = f[b]) /\ g[q + 1] = buf
        BY <1>1, <1>12, <1>14, <2>2
      <3>3. Append(f, buf) = g
        <4> HIDE DEF f, g, buf
        <4> QED BY <1>1, <3>1, <3>2, OneMore
      <3> QED BY <2>2, <3>3
    <2> QED BY <2>1, <2>2
  <1>16. Append(data, length) = auth
    <2> DEFINE f == data
    <2>1. OfLength(f, blocks) /\ OfLength(auth, blocks + 1)
      <3> HIDE DEF blocks, data
      <3> QED BY <1>15 DEF OfLength
    <2>2. (\A b \in 1..blocks : auth[b] = f[b]) /\ auth[blocks + 1] = length
      <3> HIDE DEF blocks, data, length
      <3> QED BY <1>11, <1>13, <1>15
    <2> HIDE DEF f, auth, blocks, length
    <2>3. Append(f, length) = auth
      BY <1>11, <2>1, <2>2, OneMore
    <2> QED BY <2>3 DEF f
  <1> HIDE DEF tag, auth, data, length, stream
  <1> QED BY <1>8, <1>9, <1>10, <1>16 DEF stream

\* What is at this place of Padded(n), and block b, when there are so many.
PaddedByte(n, at, end) ==
    IF at < n THEN at
    ELSE IF at = n THEN Stop ELSE IF at >= end - LenBytes THEN LengthCell(n) ELSE Zero

PaddedBlock(n, blocks, b) ==
    [i \in Positions |-> PaddedByte(n, (b - 1) * Block + i, blocks * Block)]

LEMMA PaddedData ==
    ASSUME NEW n \in Nat, NEW blocks, NEW b \in 1..(n \div Block)
    PROVE  PaddedBlock(n, blocks, b) = DataBlock(b)
  <1>1. \A i \in Positions : (b - 1) * Block + i < n
    <2> SUFFICES ASSUME NEW i \in 0..Block - 1 PROVE (b - 1) * Block + i < n
      BY DEF Positions
    <2> DEFINE q == n \div Block
               r == n % Block
               at == (b - 1) * Block + i
    <2>1. q \in Nat /\ r \in Nat /\ n = q * Block + r /\ b \in 1..q
      BY Quotient, StreamsAssumption
    <2>2. at \in Nat /\ at < q * Block
      <3> HIDE DEF q
      <3> QED BY <2>1, BeforeTheEnd
    <2>3. q * Block \in Nat
      <3> HIDE DEF q
      <3> QED BY <2>1, StreamsAssumption
    <2> HIDE DEF q, r, at
    <2>4. at < n
      BY <2>1, <2>2, <2>3
    <2> QED BY <2>4 DEF at
  <1> QED BY <1>1, Zenon DEF PaddedByte, PaddedBlock, DataBlock

HashRecord(b, n, a) == [buffer |-> b, count |-> n, absorbed |-> a, plain |-> <<>>]

Filled(b, from, to) == [i \in Positions |-> IF i \in from..to - 1 THEN Zero ELSE b[i]]

(* What the steps of the final functions do to a context.                  *)
LEMMA HashFields ==
    ASSUME NEW b, NEW n, NEW a
    PROVE  /\ HashRecord(b, n, a).buffer = b /\ HashRecord(b, n, a).absorbed = a
           /\ HashRecord(b, n, a).count = n /\ HashRecord(b, n, a).plain = <<>>
  BY DEF HashRecord

LEMMA HashBuffered ==
    ASSUME NEW b, NEW n, NEW a, NEW x
    PROVE  [HashRecord(b, n, a) EXCEPT !.buffer = x] = HashRecord(x, n, a)
  BY DEF HashRecord

LEMMA HashTransformed ==
    ASSUME NEW b, NEW n, NEW a
    PROVE  Transform(HashRecord(b, n, a)) = HashRecord(b, n, Append(a, b))
  <1> DEFINE w == Append(a, b)
  <1>1. Transform(HashRecord(b, n, a)) = [HashRecord(b, n, a) EXCEPT !.absorbed = w]
    BY HashFields DEF Transform
  <1> HIDE DEF w
  <1>2. [HashRecord(b, n, a) EXCEPT !.absorbed = w] = HashRecord(b, n, w)
    BY DEF HashRecord
  <1> QED BY <1>1, <1>2 DEF w

LEMMA HashFilled ==
    ASSUME NEW b, NEW n, NEW a, NEW from, NEW to
    PROVE  FillFrom(HashRecord(b, n, a), from, to) = HashRecord(Filled(b, from, to), n, a)
  <1>1. FillFrom(HashRecord(b, n, a), from, to)
          = [HashRecord(b, n, a) EXCEPT !.buffer = Filled(b, from, to)]
    <2>1. HashRecord(b, n, a).buffer = b
      BY HashFields
    <2> QED BY <2>1, Zenon DEF FillFrom, Filled
  <1> QED BY <1>1, HashBuffered

(* The final functions: stop byte, zeros and length, in another block when *)
(* there is no room.                                                       *)
LEMMA ShaFinal ==
    ASSUME NEW n \in Nat, NEW c, HashCtx(c, n)
    PROVE  /\ sha_final(c).absorbed = Padded(n) /\ sha_final(c).count = n
           /\ sha_final(c).plain = <<>>
  <1> DEFINE q == n \div Block
             r == n % Block
             z == q * Block
             pad == r + 1
             room == Block - LenBytes
             old == c.buffer
             done == [b \in 1..q |-> DataBlock(b)]
             withStop == [old EXCEPT ![r] = Stop]
             lengthOn(b) == [i \in Positions |-> IF i >= room THEN LengthCell(n) ELSE b[i]]
             zeros == Filled(withStop, pad, Block)
             another == NeedsAnotherBlock(pad)
             blocks == IF another THEN q + 2 ELSE q + 1
             body == IF another THEN Filled(zeros, 0, room) ELSE Filled(withStop, pad, room)
             data == IF another THEN Append(done, zeros) ELSE done
             last == lengthOn(body)
             padded == [b \in 1..blocks |-> PaddedBlock(n, blocks, b)]
  <1>1. /\ q \in Nat /\ r \in 0..Block - 1 /\ n = z + r /\ z \in Nat
        /\ Block \in Nat \ {0} /\ LenBytes \in 1..Block - 1 /\ room \in 1..Block - 1
    BY Quotient, StreamsAssumption
  <1>2. c \in HashContexts /\ c.count = n /\ c.absorbed = done
        /\ \A i \in Positions : i < r => old[i] = z + i
    <2> HIDE DEF q, r
    <2> QED BY <1>1 DEF HashCtx, HashAt, q, r
  <1>3. old \in [Positions -> Int] /\ c = HashRecord(old, n, done)
    <2> HIDE DEF HashBlocks, done
    <2> QED BY <1>2 DEF HashContexts, HashRecord
  <1>4. another <=> r + LenBytes >= Block
    <2> HIDE DEF r
    <2> QED BY <1>1 DEF NeedsAnotherBlock
  <1>5. (n + 1 + LenBytes + Block - 1) \div Block = blocks
    <2> DEFINE m == n + 1 + LenBytes + Block - 1
    <2>1. CASE another
      <3>1. m \in Nat /\ q + 2 \in Nat
        BY <1>1
      <3> DEFINE Q == q + 2
                 R == r + LenBytes - Block
      <3>2. m = Q * Block + R /\ R \in 0..Block - 1
        <4> HIDE DEF q, r, another
        <4> QED BY <1>1, <1>4, <2>1
      <3>3. Q \in Nat /\ blocks = Q
        BY <3>1, <2>1
      <3> HIDE DEF m, Q, R
      <3>4. m \div Block = Q
        BY <3>1, <3>2, <3>3, QuotientIs
      <3> QED BY <3>3, <3>4 DEF m
    <2>2. CASE ~another
      <3>1. m \in Nat /\ q + 1 \in Nat
        BY <1>1
      <3> DEFINE Q == q + 1
                 R == r + LenBytes
      <3>2. m = Q * Block + R /\ R \in 0..Block - 1
        <4> HIDE DEF q, r, another
        <4> QED BY <1>1, <1>4, <2>2
      <3>3. Q \in Nat /\ blocks = Q
        BY <3>1, <2>2
      <3> HIDE DEF m, Q, R
      <3>4. m \div Block = Q
        BY <3>1, <3>2, <3>3, QuotientIs
      <3> QED BY <3>3, <3>4 DEF m
    <2> QED BY <2>1, <2>2
  <1>6. Padded(n) = padded
    <2> HIDE DEF blocks
    <2> QED BY <1>5, Zenon DEF Padded, PaddedByte, PaddedBlock
  <1>7. sha_final(c) = HashRecord(last, n, Append(data, last))
    <2> DEFINE stopped == [c EXCEPT !.buffer[pad - 1] = Stop]
               l == IF another
                    THEN FillFrom(Transform(FillFrom(stopped, pad, Block)), 0, room)
                    ELSE FillFrom(stopped, pad, room)
    <2>1. stopped = HashRecord(withStop, n, done)
      <3>1. pad - 1 = r
        <4> HIDE DEF r
        <4> QED BY <1>1
      <3>2. c.buffer = old
        OBVIOUS
      <3>3. stopped = [c EXCEPT !.buffer = withStop]
        <4> HIDE DEF r, pad
        <4> QED BY <3>1, Zenon
      <3> HIDE DEF r, pad, old, done, withStop, stopped
      <3> QED BY <1>3, <3>3, HashBuffered
    <2>2. l = HashRecord(body, n, data)
      <3> HIDE DEF r, pad, old, done, withStop, stopped, another, room
      <3>1. FillFrom(stopped, pad, Block) = HashRecord(zeros, n, done)
        BY <2>1, HashFilled
      <3>2. Transform(FillFrom(stopped, pad, Block)) = HashRecord(zeros, n, Append(done, zeros))
        <4> HIDE DEF zeros
        <4> QED BY <3>1, HashTransformed
      <3>3. FillFrom(Transform(FillFrom(stopped, pad, Block)), 0, room)
              = HashRecord(Filled(zeros, 0, room), n, Append(done, zeros))
        <4> HIDE DEF zeros
        <4> QED BY <3>2, HashFilled
      <3>4. FillFrom(stopped, pad, room) = HashRecord(Filled(withStop, pad, room), n, done)
        BY <2>1, HashFilled
      <3> HIDE DEF zeros
      <3> QED BY <3>3, <3>4, Zenon
    <2>3. sha_final(c) = Transform([l EXCEPT !.buffer = [i \in Positions |->
              IF i >= room THEN LengthCell(c.count) ELSE l.buffer[i]]])
      <3>1. c.count = n
        BY <1>2
      <3> HIDE DEF r
      <3> QED BY <3>1, Zenon DEF sha_final, r
    <2>4. l.buffer = body
      <3> HIDE DEF l, body, data
      <3> QED BY <2>2, HashFields
    <2>5. [i \in Positions |-> IF i >= room THEN LengthCell(c.count) ELSE l.buffer[i]] = last
      <3> HIDE DEF l, body, room
      <3> QED BY <1>2, <2>4, Zenon
    <2> HIDE DEF l, body, data, last
    <2>6. [l EXCEPT !.buffer = last] = HashRecord(last, n, data)
      BY <2>2, HashBuffered
    <2>7. Transform(HashRecord(last, n, data)) = HashRecord(last, n, Append(data, last))
      BY HashTransformed
    <2> QED BY <2>3, <2>5, <2>6, <2>7, Zenon
  <1> HIDE DEF r, q, z, another, room
  <1>8. \A i \in Positions : /\ i \in 0..Block - 1
                             /\ i < r => withStop[i] = z + i
                             /\ i = r => withStop[i] = Stop
    BY <1>1, <1>2, <1>3 DEF Positions
  <1>9. withStop = [i \in Positions |-> withStop[i]]
    BY <1>3
  <1> HIDE DEF withStop
  <1>10. \A b \in 1..q : PaddedBlock(n, blocks, b) = DataBlock(b)
    BY PaddedData DEF q
  <1>11. ASSUME another PROVE PaddedBlock(n, blocks, q + 1) = zeros
    <2> DEFINE b == q + 1
    <2>1. (b - 1) * Block = z /\ blocks * Block = z + Block + Block
      BY <1>1, <1>11 DEF z
    <2> HIDE DEF b, blocks
    <2>2. PaddedBlock(n, blocks, b)
            = [i \in Positions |-> PaddedByte(n, z + i, z + Block + Block)]
      BY <2>1, Zenon DEF PaddedBlock
    <2>3. \A i \in Positions : zeros[i] = PaddedByte(n, z + i, z + Block + Block)
      <3> SUFFICES ASSUME NEW i \in Positions
                   PROVE  zeros[i] = PaddedByte(n, z + i, z + Block + Block)
        OBVIOUS
      <3>1. zeros[i] = IF i \in pad..Block - 1 THEN Zero ELSE withStop[i]
        BY DEF Filled
      <3>2. /\ i \in 0..Block - 1
            /\ i < r => withStop[i] = z + i
            /\ i = r => withStop[i] = Stop
        BY <1>8
      <3> HIDE DEF zeros
      <3>3. CASE i < r
        BY <1>1, <3>1, <3>2, <3>3 DEF PaddedByte
      <3>4. CASE i = r
        BY <1>1, <3>1, <3>2, <3>4 DEF PaddedByte
      <3>5. CASE i > r
        <4>1. i \in pad..Block - 1 /\ ~(z + i < n) /\ z + i # n
              /\ ~(z + i >= z + Block + Block - LenBytes)
          BY <1>1, <3>2, <3>5
        <4>2. zeros[i] = Zero
          BY <3>1, <4>1
        <4>3. PaddedByte(n, z + i, z + Block + Block) = Zero
          BY <1>1, <3>2, <4>1 DEF PaddedByte
        <4> QED BY <4>2, <4>3
      <3> QED BY <1>1, <3>2, <3>3, <3>4, <3>5
    <2>4. zeros = [i \in Positions |-> zeros[i]]
      BY DEF Filled
    <2> HIDE DEF zeros
    <2>5. PaddedBlock(n, blocks, b) = zeros
      BY <2>2, <2>3, <2>4, Zenon
    <2> QED BY <2>5 DEF b
  <1>12. PaddedBlock(n, blocks, blocks) = last
    <2>1. CASE ~another
      <3> DEFINE b == q + 1
      <3>1. (b - 1) * Block = z /\ b * Block = z + Block
        BY <1>1 DEF z
      <3> HIDE DEF b
      <3>2. PaddedBlock(n, b, b) = [i \in Positions |-> PaddedByte(n, z + i, z + Block)]
        BY <3>1, Zenon DEF PaddedBlock
      <3>3. \A i \in Positions : last[i] = PaddedByte(n, z + i, z + Block)
        <4> SUFFICES ASSUME NEW i \in Positions PROVE last[i] = PaddedByte(n, z + i, z + Block)
          OBVIOUS
        <4>1. last[i] = IF i >= room THEN LengthCell(n)
                        ELSE IF i \in pad..room - 1 THEN Zero ELSE withStop[i]
          BY <2>1 DEF Filled
        <4>2. /\ i \in 0..Block - 1
              /\ i < r => withStop[i] = z + i
              /\ i = r => withStop[i] = Stop
          BY <1>8
        <4>3. r < room /\ room = Block - LenBytes
          BY <1>1, <1>4, <2>1 DEF room
        <4> HIDE DEF last
        <4>4. CASE i < r
          BY <1>1, <4>1, <4>2, <4>3, <4>4 DEF PaddedByte
        <4>5. CASE i = r
          BY <1>1, <4>1, <4>2, <4>3, <4>5 DEF PaddedByte
        <4>6. CASE i > r
          <5>1. /\ ~(z + i < n) /\ z + i # n /\ (i < room => i \in pad..room - 1)
                /\ z + i >= z + Block - LenBytes <=> i >= room
            BY <1>1, <4>2, <4>3, <4>6
          <5>2. i >= room \/ i < room
            BY <1>1, <4>2
          <5>3. last[i] = IF i >= room THEN LengthCell(n) ELSE Zero
            BY <4>1, <5>1, <5>2
          <5>4. PaddedByte(n, z + i, z + Block) = IF i >= room THEN LengthCell(n) ELSE Zero
            BY <1>1, <4>2, <5>1 DEF PaddedByte
          <5> QED BY <5>3, <5>4
        <4> QED BY <1>1, <4>2, <4>4, <4>5, <4>6
      <3>4. last = [i \in Positions |-> last[i]]
        <4> HIDE DEF body
        <4> QED OBVIOUS
      <3> HIDE DEF last
      <3>5. PaddedBlock(n, b, b) = last
        BY <3>2, <3>3, <3>4, Zenon
      <3> QED BY <2>1, <3>5 DEF b
    <2>2. CASE another
      <3> DEFINE b == q + 2
      <3>1. (b - 1) * Block = z + Block /\ b * Block = z + Block + Block
        BY <1>1 DEF z
      <3> HIDE DEF b
      <3>2. PaddedBlock(n, b, b)
              = [i \in Positions |-> PaddedByte(n, z + Block + i, z + Block + Block)]
        BY <3>1, Zenon DEF PaddedBlock
      <3>3. \A i \in Positions : last[i] = PaddedByte(n, z + Block + i, z + Block + Block)
        <4> SUFFICES ASSUME NEW i \in Positions
                     PROVE  last[i] = PaddedByte(n, z + Block + i, z + Block + Block)
          OBVIOUS
        <4>1. last[i] = IF i >= room THEN LengthCell(n)
                        ELSE IF i \in 0..room - 1 THEN Zero ELSE zeros[i]
          <5> HIDE DEF zeros
          <5> QED BY <2>2 DEF Filled
        <4>2. i \in 0..Block - 1 /\ room = Block - LenBytes
          BY <1>8 DEF room
        <4> HIDE DEF last, zeros
        <4> QED BY <1>1, <4>1, <4>2 DEF PaddedByte
      <3>4. last = [i \in Positions |-> last[i]]
        <4> HIDE DEF body
        <4> QED OBVIOUS
      <3> HIDE DEF last
      <3>5. PaddedBlock(n, b, b) = last
        BY <3>2, <3>3, <3>4, Zenon
      <3> QED BY <2>2, <3>5 DEF b
    <2> QED BY <2>1, <2>2
  <1>13. Append(data, last) = padded
    <2> HIDE DEF last, zeros
    <2>1. CASE ~another
      <3> DEFINE g == [b \in 1..q + 1 |-> PaddedBlock(n, q + 1, b)]
      <3>1. OfLength(done, q) /\ OfLength(g, q + 1)
        BY DEF OfLength
      <3>2. (\A b \in 1..q : g[b] = done[b]) /\ g[q + 1] = last
        BY <1>1, <1>10, <1>12, <2>1
      <3>3. Append(done, last) = g
        <4> HIDE DEF g, done
        <4> QED BY <1>1, <3>1, <3>2, OneMore
      <3> QED BY <2>1, <3>3
    <2>2. CASE another
      <3> DEFINE f == [b \in 1..q + 1 |-> PaddedBlock(n, q + 2, b)]
                 g == [b \in 1..q + 2 |-> PaddedBlock(n, q + 2, b)]
      <3>1. OfLength(done, q) /\ OfLength(f, q + 1) /\ OfLength(g, q + 1 + 1)
        BY <1>1 DEF OfLength
      <3>2. (\A b \in 1..q : f[b] = done[b]) /\ f[q + 1] = zeros
        BY <1>1, <1>10, <1>11, <2>2
      <3>3. (\A b \in 1..q + 1 : g[b] = f[b]) /\ g[q + 1 + 1] = last /\ q + 1 \in Nat
        <4>1. q + 1 + 1 = q + 2
          BY <1>1
        <4> QED BY <1>1, <1>12, <2>2, <4>1
      <3> HIDE DEF f, g, done
      <3>4. Append(done, zeros) = f
        BY <1>1, <3>1, <3>2, OneMore
      <3>5. Append(f, last) = g
        BY <3>1, <3>3, OneMore
      <3> QED BY <2>2, <3>4, <3>5 DEF g
    <2> QED BY <2>1, <2>2
  <1> DEFINE all == Append(data, last)
  <1>14. sha_final(c) = HashRecord(last, n, all) /\ all = Padded(n)
    BY <1>6, <1>7, <1>13
  <1> HIDE DEF last, all
  <1> QED BY <1>14, HashFields

-----------------------------------------------------------------------------
(* Any number of updates, and the final                                    *)

\* The context after m bytes, whatever the algorithm.
StreamAt(m) ==
    /\ algo = "gcm" => ctx = GcmCtx(m)
    /\ algo # "gcm" => HashCtx(ctx, m)

\* While the data comes in, the context is the one its length alone gives; in the
\* end, what was absorbed and how it was decrypted are as the standards say.
StreamsInv ==
    /\ algo \in {"sha256", "sha512", "gcm"} /\ size \in 0..MaxData
    /\ outcome \in {"running", "done", "error"}
    /\ ctx.count \in 0..size
    /\ outcome # "done" => StreamAt(ctx.count)
    /\ outcome = "done" =>
          /\ ctx.count = size
          /\ algo = "gcm" => ctx.absorbed = Authenticated(size) /\ ctx.plain = KeyStream(size)
          /\ algo # "gcm" => ctx.absorbed = Padded(size) /\ ctx.plain = <<>>

LEMMA GcmCount ==
    ASSUME NEW m \in Nat
    PROVE  GcmCtx(m).count = m /\ GcmCtx(m).plain = KeyStream(m)
  BY Quotient DEF GcmCtx, GcmAt

LEMMA HashCount ==
    ASSUME NEW m \in Nat, NEW c, HashCtx(c, m)
    PROVE  c.count = m /\ c.plain = <<>>
  <1>1. c.count = m
    BY Quotient DEF HashCtx, HashAt
  <1>2. c \in HashContexts
    BY DEF HashCtx, HashAt
  <1> HIDE DEF HashBlocks
  <1>3. c.plain = <<>>
    BY <1>2 DEF HashContexts
  <1> QED BY <1>1, <1>3

LEMMA FreshStream == StreamsInit => StreamsInv
  <1> SUFFICES ASSUME StreamsInit PROVE StreamsInv
    OBVIOUS
  <1>1. 0 \div Block = 0 /\ 0 % Block = 0 /\ 0 * Block = 0
    <2>1. ASSUME NEW m \in Nat, m = 0 PROVE m \div Block = 0 /\ m % Block = 0
      <3>1. Block \in Nat \ {0} /\ m \div Block \in Nat /\ m % Block \in Nat
            /\ m = (m \div Block) * Block + (m % Block)
        BY Quotient, StreamsAssumption
      <3> QED BY <2>1, <3>1
    <2> QED BY <2>1, StreamsAssumption
  <1>2. /\ algo \in {"sha256", "sha512", "gcm"} /\ size \in 0..MaxData
        /\ ctx = FreshContext(algo) /\ outcome = "running"
    BY DEF StreamsInit
  <1>3. ctx.count = 0 /\ ctx.count \in 0..size
    BY <1>2, StreamsAssumption DEF FreshContext
  <1>4. \A i \in Positions : ~(i < 0)
    BY StreamsAssumption DEF Positions
  <1>5. ASSUME algo = "gcm" PROVE ctx = GcmCtx(0)
    <2>1. ctx = [buffer |-> [i \in Positions |-> {}], count |-> 0, absorbed |-> <<>>,
                 plain |-> <<>>]
      BY <1>2, <1>5 DEF FreshContext
    <2>2. GcmCtx(0) = GcmAt(0, 0, 0)
      BY <1>1, Zenon DEF GcmCtx
    <2>3. [i \in Positions |-> IF i < 0 THEN {0 + i} ELSE {}] = [i \in Positions |-> {}]
      BY <1>4
    <2>4. [b \in 1..0 |-> GcmBlock(b)] = <<>>
      OBVIOUS
    <2>5. KeyStream(0 + 0) = <<>>
      BY DEF KeyStream
    <2>6. GcmAt(0, 0, 0) = [buffer |-> [i \in Positions |-> IF i < 0 THEN {0 + i} ELSE {}],
                            count |-> 0 + 0, absorbed |-> [b \in 1..0 |-> GcmBlock(b)],
                            plain |-> KeyStream(0 + 0)]
      BY Zenon DEF GcmAt
    <2>7. 0 + 0 = 0
      OBVIOUS
    <2>8. GcmAt(0, 0, 0) = [buffer |-> [i \in Positions |-> {}], count |-> 0,
                            absorbed |-> <<>>, plain |-> <<>>]
      BY <2>3, <2>4, <2>5, <2>6, <2>7, Zenon
    <2> QED BY <2>1, <2>2, <2>8, Zenon
  <1>6. ASSUME algo # "gcm" PROVE HashCtx(ctx, 0)
    <2> DEFINE fresh == [i \in Positions |-> Zero]
    <2>1. ctx = [buffer |-> fresh, count |-> 0, absorbed |-> <<>>, plain |-> <<>>]
      BY <1>2, <1>6 DEF FreshContext
    <2>2. fresh \in [Positions -> Int] /\ <<>> \in HashBlocks
      BY DEF Zero, HashBlocks
    <2>3. [b \in 1..0 |-> DataBlock(b)] = <<>>
      OBVIOUS
    <2> HIDE DEF fresh
    <2>4. ctx \in HashContexts
      <3> HIDE DEF HashBlocks
      <3> QED BY <2>1, <2>2 DEF HashContexts
    <2>5. ctx.count = 0 + 0 /\ ctx.absorbed = [b \in 1..0 |-> DataBlock(b)]
      BY <2>1, <2>3
    <2>6. HashAt(ctx, 0, 0, 0)
      BY <1>4, <2>4, <2>5 DEF HashAt
    <2> QED BY <1>1, <2>6, Zenon DEF HashCtx
  <1>7. StreamAt(ctx.count)
    BY <1>3, <1>5, <1>6 DEF StreamAt
  <1> QED BY <1>2, <1>3, <1>7 DEF StreamsInv

(* An update goes on from where the last one stopped.                      *)
LEMMA Updates ==
    ASSUME StreamsInv, NEW n \in 1..MaxData, Update(n)
    PROVE  StreamsInv'
  <1> DEFINE m == ctx.count
  <1>1. /\ outcome = "running" /\ m + n <= size /\ ctx' = Updated(n)
        /\ algo' = algo /\ size' = size /\ outcome' = outcome
    BY DEF Update
  <1>2. /\ algo \in {"sha256", "sha512", "gcm"} /\ size \in 0..MaxData
        /\ m \in 0..size /\ StreamAt(m)
    BY <1>1 DEF StreamsInv
  <1>3. m \in Nat /\ n \in Nat /\ m + n \in 0..size /\ m + n \in Nat
    BY <1>1, <1>2, StreamsAssumption
  <1> HIDE DEF m
  <1>4. /\ ctx'.count = m + n
        /\ algo' = "gcm" => ctx' = GcmCtx(m + n)
        /\ algo' # "gcm" => HashCtx(ctx', m + n)
    <2>1. CASE algo = "gcm"
      <3>1. ctx = GcmCtx(m)
        BY <1>2, <2>1 DEF StreamAt
      <3>2. ctx' = eos_fw_decrypt_update(ctx, n)
        BY <1>1, <2>1 DEF Updated
      <3>3. ctx' = GcmCtx(m + n)
        BY <1>3, <3>1, <3>2, GcmTaken
      <3>4. ctx'.count = m + n
        BY <1>3, <3>3, GcmCount
      <3> QED BY <1>1, <2>1, <3>3, <3>4
    <2>2. CASE algo # "gcm"
      <3>1. HashCtx(ctx, m)
        BY <1>2, <2>2 DEF StreamAt
      <3>2. algo = "sha256" => ctx' = eos_sha256_update(ctx, n)
        BY <1>1 DEF Updated
      <3>3. algo = "sha512" => ctx' = eos_sha512_update(ctx, n)
        BY <1>1 DEF Updated
      <3>4. HashCtx(ctx', m + n)
        BY <1>2, <1>3, <2>2, <3>1, <3>2, <3>3, Sha256Taken, Sha512Taken
      <3>5. ctx'.count = m + n
        BY <1>3, <3>4, HashCount
      <3> QED BY <1>1, <2>2, <3>4, <3>5
    <2> QED BY <2>1, <2>2
  <1>5. StreamAt(ctx.count)'
    BY <1>4 DEF StreamAt
  <1> QED BY <1>1, <1>2, <1>3, <1>4, <1>5 DEF StreamsInv

(* The final works on all of the data.                                     *)
LEMMA Finals ==
    ASSUME StreamsInv, Final
    PROVE  StreamsInv'
  <1>1. /\ outcome = "running" /\ ctx.count = size /\ outcome' = "done"
        /\ ctx' = IF algo = "gcm" THEN eos_fw_decrypt_final(ctx) ELSE sha_final(ctx)
        /\ algo' = algo /\ size' = size
    BY DEF Final
  <1>2. /\ algo \in {"sha256", "sha512", "gcm"} /\ size \in 0..MaxData /\ StreamAt(size)
        /\ size \in Nat
    BY <1>1, StreamsAssumption DEF StreamsInv
  <1>3. CASE algo = "gcm"
    <2>1. ctx = GcmCtx(size) /\ ctx' = eos_fw_decrypt_final(ctx)
      BY <1>1, <1>2, <1>3 DEF StreamAt
    <2>2. ctx'.absorbed = Authenticated(size) /\ ctx'.plain = KeyStream(size)
          /\ ctx'.count = size
      BY <1>2, <2>1, GcmFinal
    <2>3. Authenticated(size') = Authenticated(size) /\ KeyStream(size') = KeyStream(size)
      BY <1>1
    <2> QED BY <1>1, <1>2, <1>3, <2>2, <2>3 DEF StreamsInv
  <1>4. CASE algo # "gcm"
    <2>1. HashCtx(ctx, size) /\ ctx' = sha_final(ctx)
      BY <1>1, <1>2, <1>4 DEF StreamAt
    <2>2. ctx'.absorbed = Padded(size) /\ ctx'.plain = <<>> /\ ctx'.count = size
      BY <1>2, <2>1, ShaFinal
    <2>3. Padded(size') = Padded(size)
      BY <1>1
    <2> QED BY <1>1, <1>2, <1>4, <2>2, <2>3 DEF StreamsInv
  <1> QED BY <1>3, <1>4

(* The context depends on how much data came, not on how it was cut.       *)
THEOREM StreamsInvariant == StreamsSpec => []StreamsInv
  <1>1. StreamsInit => StreamsInv
    BY FreshStream
  <1>2. StreamsInv /\ [StreamsNext]_streamVars => StreamsInv'
    <2> SUFFICES ASSUME StreamsInv, [StreamsNext]_streamVars PROVE StreamsInv'
      OBVIOUS
    <2>1. CASE \E n \in 1..MaxData : Update(n)
      BY <2>1, Updates
    <2>2. CASE ReadFails
      <3>1. /\ outcome = "running" /\ outcome' = "error" /\ algo' = algo
            /\ size' = size /\ ctx' = ctx
        BY <2>2 DEF ReadFails
      <3> QED BY <3>1 DEF StreamsInv, StreamAt
    <2>3. CASE Final
      BY <2>3, Finals
    <2>4. CASE UNCHANGED streamVars
      BY <2>4 DEF streamVars, StreamsInv, StreamAt
    <2> QED BY <2>1, <2>2, <2>3, <2>4 DEF StreamsNext
  <1> QED BY <1>1, <1>2, PTL DEF StreamsSpec

(* However an image, a message or a ciphertext is cut into updates, the    *)
(* hash sees the whole data with the padding of the standard, the tag is   *)
(* that of the whole ciphertext and every byte is decrypted with its own   *)
(* place in the key stream: for blocks of any size and data of any length. *)
THEOREM PiecesMakeTheWhole == StreamsSpec => []CutsDoNotMatter
  <1>1. StreamsInv => CutsDoNotMatter
    <2> SUFFICES ASSUME StreamsInv, outcome = "done"
                 PROVE  /\ algo = "gcm" => ctx.absorbed = Authenticated(size)
                        /\ algo # "gcm" => ctx.absorbed = Padded(size)
                        /\ \A i \in 1..Len(ctx.plain) :
                              ctx.plain[i] = <<(i - 1) \div Block + 2, (i - 1) % Block>>
      BY DEF CutsDoNotMatter
    <2>1. /\ algo = "gcm" => ctx.absorbed = Authenticated(size) /\ ctx.plain = KeyStream(size)
          /\ algo # "gcm" => ctx.absorbed = Padded(size) /\ ctx.plain = <<>>
          /\ size \in Nat
      BY StreamsAssumption DEF StreamsInv
    <2>2. CASE algo = "gcm"
      <3>1. Len(ctx.plain) = size
        BY <2>1, <2>2 DEF KeyStream
      <3>2. \A i \in 1..size : KeyStream(size)[i] = <<((i - 1) \div Block) + 2, (i - 1) % Block>>
        BY DEF KeyStream
      <3> QED BY <2>1, <2>2, <3>1, <3>2
    <2>3. CASE algo # "gcm"
      BY <2>1, <2>3
    <2> QED BY <2>2, <2>3
  <1> QED BY <1>1, StreamsInvariant, PTL

(* The count never exceeds the data, and as many bytes are decrypted as    *)
(* were counted.                                                           *)
THEOREM StreamsTyped == StreamsSpec => []StreamsTypeOK
  <1>1. StreamsInv => StreamsTypeOK
    <2> SUFFICES ASSUME StreamsInv PROVE StreamsTypeOK
      OBVIOUS
    <2>1. ctx.count \in 0..size /\ outcome \in {"running", "done", "error"} /\ ctx.count \in Nat
          /\ size \in Nat
      BY StreamsAssumption DEF StreamsInv
    <2>2. Len(ctx.plain) \in {0, ctx.count}
      <3>1. CASE algo = "gcm"
        <4>1. ctx.plain = KeyStream(ctx.count)
          BY <2>1, <3>1, GcmCount DEF StreamsInv, StreamAt
        <4> QED BY <2>1, <4>1 DEF KeyStream
      <3>2. CASE algo # "gcm"
        <4>1. ctx.plain = <<>>
          BY <2>1, <3>2, HashCount DEF StreamsInv, StreamAt
        <4> QED BY <4>1
      <3> QED BY <3>1, <3>2
    <2> QED BY <2>1, <2>2 DEF StreamsTypeOK
  <1> QED BY <1>1, StreamsInvariant, PTL

=============================================================================
