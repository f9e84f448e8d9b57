----------------------------- MODULE SecureBoot -----------------------------
(***************************************************************************)
(* The key store (core/keystore.c), the signature check that uses it       *)
(* (core/image_verify.c) and the secure boot driver (core/secure_boot.c).  *)
(*                                                                         *)
(* Every read and write of the one-time-programmable memory can fail on    *)
(* its own, and a board may have no such memory at all: the two are not    *)
(* the same, and most of the code is about telling them apart.  A key is a *)
(* model value; a signature is the key that made it.                       *)
(***************************************************************************)
EXTENDS Naturals, FiniteSets, Sequences

CONSTANTS
    KeySet,         \* keys that may be provisioned
    CompiledKey     \* default_dev_key or ebldr_production_key

ASSUME KeyAssumption ==
    /\ CompiledKey \notin KeySet
    /\ {"blank", "none"} \cap (KeySet \cup {CompiledKey}) = {}

VARIABLES
    otp,        \* the board's OTP: keys, revocation mask, debug fuse
    ks,         \* a key store opened by eos_keystore_init()
    sboot,      \* the last verification of this boot: by whom, policy, result,
                \* attestation log
    retired     \* history: slots whose revocation was reported as done (EOS_OK)

keyVars == <<otp, ks, sboot, retired>>

EOS_KEY_SLOTS == 2
KeySlots == 0..EOS_KEY_SLOTS - 1

\* What one OTP access can return on this board.
OtpRead == IF otp.present THEN {"ok", "fault"} ELSE {"unsupported"}

\* How the reads of one eos_keystore_init() go: slot 0, slot 1, revocation mask.
Reads == [slot : [KeySlots -> OtpRead], revoke : OtpRead]

Least(S) == CHOOSE x \in S : \A y \in S : x <= y

\* First valid slot that is not revoked, or the sentinel.
ActiveSlot(valid, revoked) ==
    IF valid \ revoked = {} THEN EOS_KEY_SLOTS ELSE Least(valid \ revoked)

\* Only a board without OTP falls back to the key compiled in.
OtpPresent_AnyError(r0) == r0 = "ok"
OtpPresent(r0) == r0 # "unsupported"

\* The store that eos_keystore_init() leaves.  When slot 0 or slot 1 cannot be
\* read it returns early, with what it had filled in so far and active_slot 0.
eos_keystore_init(r) ==
    LET present  == OtpPresent(r.slot[0])
        blank    == {s \in KeySlots : otp.key[s] = "blank"}
        valid    == IF present THEN KeySlots \ blank ELSE {0}
        revoked  == IF ~present THEN {} ELSE IF r.revoke = "ok" THEN otp.revoke ELSE KeySlots
    IN IF present /\ \E s \in KeySlots : r.slot[s] # "ok"
       THEN [rc |-> "KEY", key |-> otp.key, valid |-> IF r.slot[0] = "ok" THEN {0} \ blank ELSE {},
             revoked |-> {}, active |-> 0]
       ELSE [rc |-> "OK",
             key |-> IF present THEN otp.key ELSE [otp.key EXCEPT ![0] = CompiledKey],
             valid |-> valid, revoked |-> revoked, active |-> ActiveSlot(valid, revoked)]

eos_keystore_get_active_key(store) ==
    IF store.active \in store.valid \ store.revoked THEN store.key[store.active] ELSE "none"

\* The slots a key is found in by its hash.
eos_keystore_find_by_hash(store, key) ==
    {s \in store.valid \ store.revoked : store.key[s] = key}

eos_keystore_key_count(store) == Cardinality(store.valid \ store.revoked)

\* The keys this device should accept at this moment.
TrustedKeys ==
    IF otp.present THEN {otp.key[s] : s \in KeySlots \ otp.revoke} \ {"blank"}
    ELSE {CompiledKey}

KeyInit ==
    /\ \E present \in BOOLEAN, key \in [KeySlots -> KeySet \cup {"blank"}] :
          /\ present \/ \A s \in KeySlots : key[s] = "blank"
          /\ otp = [present |-> present, key |-> key, revoke |-> {}, locked |-> FALSE]
    /\ ks = [rc |-> "KEY", key |-> otp.key, valid |-> {}, revoked |-> {}, active |-> 0]
    /\ sboot = [by |-> "nobody", result |-> "none", attest |-> <<>>, lock |-> FALSE, signed |-> FALSE,
                trusted |-> FALSE, staged |-> FALSE]
    /\ retired = {}

-----------------------------------------------------------------------------
(* Operations on the key store                                             *)

OpenStore ==
    /\ \E r \in Reads : ks' = eos_keystore_init(r)
    /\ UNCHANGED <<otp, sboot, retired>>

\* The mask that is written back: a failed read must not clear the other slot's
\* bit.
RevokeMask_Unread(s, read) == IF read = "ok" THEN otp.revoke \cup {s} ELSE {s}
RevokeMask(s, read) == IF read = "ok" THEN otp.revoke \cup {s} ELSE otp.revoke

\* persist_rc is EOS_OK: the mask was written, or there is no OTP to write it to.
RevokeReturnsOk(read, write) == read = "unsupported" \/ (read = "ok" /\ write = "ok")

eos_keystore_revoke_slot(s, read, write) ==
    LET revoked == ks.revoked \cup {s} IN
    /\ ks' = [ks EXCEPT !.revoked = revoked, !.active = ActiveSlot(ks.valid, revoked)]
    /\ otp' = [otp EXCEPT !.revoke = IF write = "ok" THEN RevokeMask(s, read) ELSE @]
    /\ retired' = IF RevokeReturnsOk(read, write) THEN retired \cup {s} ELSE retired
    /\ UNCHANGED sboot

-----------------------------------------------------------------------------
(* The secure boot driver                                                  *)

\* What may be wrong with the image, the policy or an OTP access of one call.
\* An access can only fail on a board that has the memory.
OtpFaults == {"slot0", "slot1", "revocation", "anchor", "fuse"}
Troubles ==
    {"nothing", "header", "payload", "version", "no counter", "counter", "encryption"}
    \cup IF otp.present THEN OtpFaults ELSE {}

Access(bad, what) == IF ~otp.present THEN "unsupported" ELSE IF bad = what THEN "fault" ELSE "ok"

ReadsWith(bad) ==
    [slot |-> [s \in KeySlots |-> Access(bad, IF s = 0 THEN "slot0" ELSE "slot1")],
     revoke |-> Access(bad, "revocation")]

\* An image must be signed by the active key of a freshly opened store; the
\* types NONE, CRC32 and SHA256 are no signatures.
eos_image_verify_signature(signer, store) ==
    /\ signer # "none"
    /\ store.rc = "OK"
    /\ signer = eos_keystore_get_active_key(store)

\* The root of trust in OTP must be readable and blank, because comparing the
\* image's key with it is not implemented.
AnchorAccepts(read) == read = "ok" /\ otp.key[0] = "blank"

\* Closing the debug port counts only if the fuse was written.
DebugLocked_Ignored(write) == TRUE
DebugLocked(write) == write = "ok"

\* The checks in the order of eos_secure_boot(), each with the result it refuses
\* with; the image's counter is staged after the sixth.
Checks(cfg, signer, bad, store) ==
    << <<bad # "header", "BAD_HEADER">>,
       <<bad # "payload", "INTEGRITY">>,
       <<cfg.signature => /\ eos_image_verify_signature(signer, store)
                          /\ AnchorAccepts(Access(bad, "anchor")), "SIGNATURE">>,
       <<bad # "version", "ROLLBACK">>,
       <<bad # "no counter", "BAD_HEADER">>,
       <<bad # "counter", "ROLLBACK">>,
       <<bad # "encryption", "DECRYPT">>,
       <<cfg.lock => DebugLocked(Access(bad, "fuse")), "POLICY">> >>

\* One record, with the result that is returned.
attest_record(result) == <<result>>

eos_secure_boot(cfg, signer, bad) ==
    \E store \in {eos_keystore_init(ReadsWith(bad))} :
    \E check \in {Checks(cfg, signer, bad, store)} :
    LET failing == {i \in DOMAIN check : ~check[i][1]}
        result  == IF failing = {} THEN "OK" ELSE check[Least(failing)][2]
        reaches(i) == \A j \in failing : j >= i
    IN /\ sboot' = [by |-> "driver", result |-> result, attest |-> attest_record(result),
                    lock |-> cfg.lock, signed |-> cfg.signature, trusted |-> signer \in TrustedKeys,
                    staged |-> reaches(7)]
       /\ otp' = [otp EXCEPT !.locked =
                    @ \/ (cfg.lock /\ reaches(8) /\ Access(bad, "fuse") = "ok")]
       /\ UNCHANGED <<ks, retired>>

\* Stage 1 and the multicore start check a signature without the driver;
\* the attestation log stays empty.
CheckSignature(signer, bad) ==
    /\ sboot' = [by |-> "stage1",
                 result |-> IF eos_image_verify_signature(signer, eos_keystore_init(ReadsWith(bad)))
                            THEN "OK" ELSE "SIGNATURE",
                 attest |-> <<>>, lock |-> FALSE, signed |-> TRUE,
                 trusted |-> signer \in TrustedKeys, staged |-> FALSE]
    /\ UNCHANGED <<otp, ks, retired>>

eos_secure_boot_lock_debug ==
    /\ otp.present
    /\ otp' = [otp EXCEPT !.locked = TRUE]
    /\ UNCHANGED <<ks, sboot, retired>>

KeyNext ==
    \/ OpenStore
    \/ \E s \in KeySlots, read, write \in OtpRead : eos_keystore_revoke_slot(s, read, write)
    \/ \E signer \in KeySet \cup {CompiledKey, "none"}, bad \in Troubles :
          \/ \E cfg \in [signature : BOOLEAN, lock : BOOLEAN] : eos_secure_boot(cfg, signer, bad)
          \/ bad \in OtpFaults \cup {"nothing"} /\ CheckSignature(signer, bad)
    \/ eos_secure_boot_lock_debug

KeySpec == KeyInit /\ [][KeyNext]_keyVars

-----------------------------------------------------------------------------
(* Properties                                                              *)

KeyTypeOK ==
    /\ otp.key \in [KeySlots -> KeySet \cup {"blank"}]
    /\ otp.revoke \subseteq KeySlots /\ otp.locked \in BOOLEAN
    /\ ks.rc \in {"OK", "KEY"} /\ ks.active \in 0..EOS_KEY_SLOTS
    /\ Len(sboot.attest) <= 1

\* On a board that has OTP a revocation that was reported as done survives:
\* whatever OTP faults later revocations and restarts meet, no store opened
\* afterwards hands the slot out or finds it by hash.  On a board without OTP
\* eos_keystore_revoke_slot() also returns EOS_OK, and the next
\* eos_keystore_init() hands the compiled-in key out again.
RevokedStaysRevoked ==
    /\ otp.present => retired \subseteq otp.revoke
    /\ \A r \in Reads :
          LET store == eos_keystore_init(r) IN store.rc = "OK" =>
             /\ otp.present =>
                   /\ eos_keystore_find_by_hash(store, otp.key[0]) \cap retired = {}
                   /\ eos_keystore_find_by_hash(store, otp.key[1]) \cap retired = {}
                   /\ store.active \notin retired
             /\ eos_keystore_key_count(store) = 0 <=> eos_keystore_get_active_key(store) = "none"

\* An image that is accepted under a signature policy is signed by a key the
\* device was provisioned with and has not revoked; a failing OTP read never
\* puts the compiled-in key in its place.
SignedByTrustedKey ==
    (sboot.result = "OK" /\ sboot.signed) => sboot.trusted

\* The attestation log holds exactly the verdict that was returned,
\* and an EOS_SBOOT_OK under a policy that closes the debug port finds the fuse
\* written.
AttestationTells ==
    /\ sboot.by = "driver" => sboot.attest = <<sboot.result>>
    /\ (sboot.result = "OK" /\ sboot.lock) => otp.locked

=============================================================================
