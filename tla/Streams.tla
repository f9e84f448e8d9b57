------------------------------ MODULE Streams ------------------------------
(***************************************************************************)
(* Data that reaches the cryptography in pieces: SHA-256 over an image     *)
(* read from flash (core/crypto_boot.c), SHA-512 over the parts of a       *)
(* signed message (core/sha512.c) and AES-GCM decryption                   *)
(* (core/fw_decrypt.c).                                                    *)
(*                                                                         *)
(* The block functions are not interpreted: a hash is the sequence of      *)
(* blocks it was applied to, GHASH the sequence of blocks it multiplied,   *)
(* and a plaintext byte is the place in the key stream it was combined     *)
(* with.  Byte i of the data is the number i.  Blocks are scaled down;     *)
(* buffers keep their old content where the code does not clear them.      *)
(***************************************************************************)
EXTENDS Integers, Sequences

CONSTANTS
    MaxData,        \* bound: length of the data
    Block,          \* bytes in a block
    LenBytes        \* bytes of a hash block that hold the length

ASSUME StreamsAssumption ==
    MaxData \in Nat /\ Block \in Nat \ {0} /\ LenBytes \in 1..Block - 1

VARIABLES
    algo,       \* "sha256", "sha512" or "gcm"
    size,       \* length of the data
    ctx,        \* the context of the algorithm
    outcome     \* "running", "done", or "error"

streamVars == <<algo, size, ctx, outcome>>

Positions == 0..Block - 1
Zero == -1
Stop == -2
LengthCell(n) == -10 - n

\* .buffer: the hash buffer, or what has been combined into GHASH since its last
\* multiplication (a set per byte); .absorbed: the blocks so far; .plain: counter
\* and offset in the key stream for each byte decrypted.
FreshContext(a) ==
    [buffer |-> [i \in Positions |-> IF a = "gcm" THEN {} ELSE Zero],
     count |-> 0, absorbed |-> <<>>, plain |-> <<>>]

StreamsInit ==
    /\ algo \in {"sha256", "sha512", "gcm"}
    /\ size \in 0..MaxData
    /\ ctx = FreshContext(algo) /\ outcome = "running"

-----------------------------------------------------------------------------
(* Hashes.                                                                 *)

Transform(c) == [c EXCEPT !.absorbed = Append(@, c.buffer)]

\* SHA-256 takes a byte at a time.
Sha256Byte(c, byte) ==
    LET filled == [c EXCEPT !.buffer[c.count % Block] = byte, !.count = @ + 1]
    IN  IF filled.count % Block = 0 THEN Transform(filled) ELSE filled

eos_sha256_update(c, n) ==
    LET after[i \in 0..n] ==
            IF i = 0 THEN c ELSE Sha256Byte(after[i - 1], c.count + i - 1)
    IN  after[n]

\* SHA-512 copies up to the end of its buffer and goes on with the rest.  A pass of
\* its loop takes at least a byte, so that there are at most n.
Sha512Pass(p) ==
    LET c == p.ctx
        used == c.count % Block
        copy == IF p.len < Block - used THEN p.len ELSE Block - used
        filled == [c EXCEPT !.count = @ + copy,
                            !.buffer = [i \in Positions |->
                                IF i \in used..used + copy - 1
                                THEN c.count + i - used ELSE c.buffer[i]]]
    IN  [ctx |-> IF used + copy = Block THEN Transform(filled) ELSE filled, len |-> p.len - copy]

eos_sha512_update(c, n) ==
    LET after[i \in 0..n] ==
            IF i = 0 THEN [ctx |-> c, len |-> n]
            ELSE IF after[i - 1].len = 0 THEN after[i - 1] ELSE Sha512Pass(after[i - 1])
    IN  after[n].ctx

\* The stop byte goes after the data; when the length no longer fits behind it the
\* block is filled with zeros and another one follows.
NeedsAnotherBlock_AtLimit(pad) == pad >= Block - LenBytes

NeedsAnotherBlock(pad) == pad > Block - LenBytes

FillFrom(c, from, to) ==
    [c EXCEPT !.buffer = [i \in Positions |-> IF i \in from..to - 1 THEN Zero ELSE c.buffer[i]]]

sha_final(c) ==
    LET pad == (c.count % Block) + 1
        stopped == [c EXCEPT !.buffer[pad - 1] = Stop]
        last == IF NeedsAnotherBlock(pad)
                THEN FillFrom(Transform(FillFrom(stopped, pad, Block)), 0, Block - LenBytes)
                ELSE FillFrom(stopped, pad, Block - LenBytes)
    IN  Transform([last EXCEPT !.buffer = [i \in Positions |->
            IF i >= Block - LenBytes THEN LengthCell(c.count) ELSE last.buffer[i]]])

-----------------------------------------------------------------------------
(* AES-GCM.                                                                *)

\* Combining twice cancels.
Xor(s, t) == (s \cup t) \ (s \cap t)

ghash_mult(c) ==
    [c EXCEPT !.absorbed = Append(@, c.buffer), !.buffer = [i \in Positions |-> {}]]

\* One round of eos_fw_decrypt_update(): a piece of one block, combined into GHASH
\* as ciphertext before it is decrypted, and multiplied once the block is full.
GcmPiece(c, block_offset, start, n) ==
    LET combined == [c EXCEPT !.count = @ + n,
                        !.buffer = [i \in Positions |->
                            IF i \in start..start + n - 1
                            THEN Xor(@[i], {c.count + i - start}) ELSE @[i]],
                        !.plain = @ \o [i \in 1..n |-> <<block_offset + 2, start + i - 1>>]]
    IN  IF start + n = Block THEN ghash_mult(combined) ELSE combined

GcmPass(p) ==
    LET n == IF p.len < Block - p.byte_offset THEN p.len ELSE Block - p.byte_offset
    IN  [ctx |-> GcmPiece(p.ctx, p.block_offset, p.byte_offset, n),
         block_offset |-> p.block_offset + 1, byte_offset |-> 0, len |-> p.len - n]

eos_fw_decrypt_update(c, n) ==
    LET after[i \in 0..n] ==
            IF i = 0
            THEN [ctx |-> c, block_offset |-> c.count \div Block,
                  byte_offset |-> c.count % Block, len |-> n]
            ELSE IF after[i - 1].len = 0 THEN after[i - 1] ELSE GcmPass(after[i - 1])
    IN  after[n].ctx

\* A partial block is multiplied as it is, then the length block.
eos_fw_decrypt_final(c) ==
    LET whole == IF c.count % Block # 0 THEN ghash_mult(c) ELSE c
    IN  ghash_mult([whole EXCEPT !.buffer = [i \in Positions |->
            Xor(@[i], {LengthCell(c.count)})]])

-----------------------------------------------------------------------------
(* The callers: any number of updates, one final.                          *)

Updated(n) ==
    CASE algo = "sha256" -> eos_sha256_update(ctx, n)
      [] algo = "sha512" -> eos_sha512_update(ctx, n)
      [] algo = "gcm" -> eos_fw_decrypt_update(ctx, n)

Update(n) ==
    /\ outcome = "running" /\ ctx.count + n <= size
    /\ ctx' = Updated(n)
    /\ UNCHANGED <<algo, size, outcome>>

\* eos_crypto_verify_image() gives up at the first read that fails, and
\* eos_fw_decrypt_init() without a key.
ReadFails ==
    /\ outcome = "running"
    /\ outcome' = "error"
    /\ UNCHANGED <<algo, size, ctx>>

Final ==
    /\ outcome = "running" /\ ctx.count = size
    /\ ctx' = IF algo = "gcm" THEN eos_fw_decrypt_final(ctx) ELSE sha_final(ctx)
    /\ outcome' = "done"
    /\ UNCHANGED <<algo, size>>

StreamsNext ==
    \/ \E n \in 1..MaxData : Update(n)
    \/ ReadFails
    \/ Final

StreamsSpec == StreamsInit /\ [][StreamsNext]_streamVars

-----------------------------------------------------------------------------
(* Properties.                                                             *)

StreamsTypeOK ==
    /\ ctx.count \in 0..size /\ Len(ctx.plain) \in {0, ctx.count}
    /\ outcome \in {"running", "done", "error"}

\* The hash input of FIPS 180-4: the data, the stop byte, as few zeros as fill up
\* a block, and the length at its end.
Padded(n) ==
    LET blocks == (n + 1 + LenBytes + Block - 1) \div Block
    IN  [b \in 1..blocks |-> [i \in Positions |->
            LET at == (b - 1) * Block + i
            IN  IF at < n THEN at
                ELSE IF at = n THEN Stop
                ELSE IF at >= blocks * Block - LenBytes THEN LengthCell(n) ELSE Zero]]

\* The GHASH input of SP 800-38D without additional data.
Authenticated(n) ==
    LET blocks == (n + Block - 1) \div Block
    IN  [b \in 1..blocks + 1 |-> [i \in Positions |->
            LET at == (b - 1) * Block + i
            IN  IF b = blocks + 1 THEN {LengthCell(n)} ELSE IF at < n THEN {at} ELSE {}]]

\* However the data was cut into pieces, a digest is that of the whole data with
\* the standard's padding, a tag is that of the whole ciphertext, and every byte was
\* decrypted with its own place in the key stream.
CutsDoNotMatter ==
    outcome = "done" =>
        /\ algo = "gcm" => ctx.absorbed = Authenticated(size)
        /\ algo # "gcm" => ctx.absorbed = Padded(size)
        /\ \A i \in 1..Len(ctx.plain) :
              ctx.plain[i] = <<(i - 1) \div Block + 2, (i - 1) % Block>>

=============================================================================
