------------------------------ MODULE Recovery ------------------------------
(***************************************************************************)
(* The UART session of recovery mode (core/recovery.c): the command loop,  *)
(* the challenge-response that guards destructive commands, and the host   *)
(* program on the other end (tools/uart_recovery.py).                      *)
(*                                                                         *)
(* The line carries units: a command packet is one unit (8 bytes), a       *)
(* digest DigestUnits (32 bytes) and a chunk of an image ChunkUnits.  The  *)
(* device takes whatever unit comes next for what it waits for: a digest   *)
(* or image unit read by the command loop is a packet with an arbitrary    *)
(* command byte.                                                           *)
(***************************************************************************)
EXTENDS Naturals, Sequences, SequencesExt

CONSTANTS
    Slots,          \* the slots ERASE, WRITE, VERIFY and BOOT accept
    Goals,          \* sub-commands the operator runs
    Client,         \* "tool": tools/uart_recovery.py;  "protocol": a client
                    \* that sends AUTH again before the digest
    MaxFails,       \* RCVR_MAX_AUTH_FAILS
    SlowFrom,       \* failures from which the back-off exceeds the client's timeout
    DigestUnits,    \* packets that fit in a digest
    ChunkUnits,     \* packets that fit in a chunk of an image
    NChunks,        \* chunks of the image the operator uploads
    MaxRuns,        \* bound: times the operator starts the client
    MaxTrouble      \* bound: lost, damaged or late units and flash errors

ASSUME RecoveryAssumption ==
    /\ Goals \subseteq {"ping", "info", "reset", "factory", "erase", "upload",
                       "verify", "boot", "log"}
    /\ Client \in {"tool", "protocol"}
    /\ MaxFails \in Nat \ {0}
    /\ SlowFrom \in Nat \ {0}
    /\ DigestUnits \in Nat \ {0}
    /\ ChunkUnits \in Nat \ {0}
    /\ NChunks \in Nat \ {0}
    /\ MaxRuns \in Nat
    /\ MaxTrouble \in Nat

VARIABLES
    board,      \* [rng: has an entropy source, otp: what the fuses of the secret hold;
                \*  "unusable" is unreadable, all zeros or all ones]
    dev,        \* the device: pc, auth_state, challenge, auth_fail_count, got, slot, chunk
    slots,      \* what each chunk of each slot holds
    ctl,        \* what the boot control block was last told
    toDev,      \* units on their way to the device
    toCli,      \* bytes on their way to the client
    cl,         \* the client: pc, goal, right (secret), chal, off
    trouble,    \* line and flash faults so far
    runs,       \* client runs so far
    issued,     \* history: challenges issued
    session,    \* history: challenges issued before this session began
    signed,     \* history: challenges answered by a client with the right secret
    compared,   \* history: challenges in the order they were compared
    wrong,      \* history: wrong answers in this session
    done,       \* history: commands the device carried out since the client started
    said        \* history: what the last client reported, and as it started whether
                \* the device was idle and the trouble there had been

devVars == <<board, dev, slots, ctl>>
histVars == <<issued, session, signed, compared, wrong>>
vars == <<devVars, toDev, toCli, cl, trouble, runs, histVars, done, said>>

Protected == {"erase", "write", "verify", "boot", "factory", "log"}
Commands == Protected \cup {"ping", "info", "auth", "reset"}

cmd_requires_auth(cmd) == cmd \in Protected

Packet(cmd, s, k) == [cmd |-> cmd, slot |-> s, chunk |-> k]
DigestUnit(c, right, i) == [chal |-> c, right |-> right, part |-> i]
DataUnit(k, i) == [data |-> k, part |-> i]
IsPacket(u) == "cmd" \in DOMAIN u

Digest(c, right) == [i \in 1..DigestUnits |-> DigestUnit(c, right, i)]
Chunk(k) == [i \in 1..ChunkUnits |-> DataUnit(k, i)]

\* Bytes of an answer: "x" stands for the rest of a longer one.
ACK == <<"ACK", 0>>
NACK == <<"NACK", 0>>
Rest == <<"x", 0>>
ChallengeBytes(c) == <<"challenge", c>>

\* What a unit read by the command loop says: a packet itself, or any packet.
\* "other" stands for the command bytes the switch has no case for, "bad" for
\* the slot numbers the handlers refuse, chunk 0 for a range they refuse.
Readings(u) ==
    IF IsPacket(u) THEN {u}
    ELSE {Packet(c, s, k) : c \in Commands \cup {"other"},
                            s \in Slots \cup {"bad"}, k \in 0..NChunks}

NoClient == [pc |-> "off", goal |-> "none", right |-> FALSE, chal |-> 0, off |-> 0]
NothingSaid(idle) == [verdict |-> "none", goal |-> "none",
                      idle |-> idle, trouble |-> trouble]
Idle == [pc |-> "loop", auth_state |-> "NONE", challenge |-> 0,
         auth_fail_count |-> 0, got |-> <<>>, slot |-> "bad", chunk |-> 0]

Init ==
    /\ board \in [rng : BOOLEAN, otp : {"secret", "unusable"}]
    /\ dev = Idle
    /\ slots = [s \in Slots |-> [k \in 1..NChunks |-> "old"]]
    /\ ctl = "as found"
    /\ toDev = <<>> /\ toCli = <<>>
    /\ cl = NoClient
    /\ trouble = 0 /\ runs = 0
    /\ issued = 0 /\ session = 0 /\ signed = {} /\ compared = <<>> /\ wrong = 0
    /\ done = {} /\ said = NothingSaid(TRUE)

-----------------------------------------------------------------------------
(* Device: authentication                                                  *)

recovery_send_ack == toCli' = Append(toCli, ACK)
recovery_send_nack == toCli' = Append(toCli, NACK)

AuthFail_KeepsChallenge == [dev EXCEPT !.pc = "loop", !.got = <<>>,
                                       !.auth_fail_count = @ + 1]
\* A failure that counts: the next AUTH starts over with a fresh challenge.
AuthFail == [dev EXCEPT !.pc = "loop", !.auth_state = "NONE", !.got = <<>>,
                        !.auth_fail_count = @ + 1]

LockedOut_OffByOne == dev.auth_fail_count > MaxFails
LockedOut == dev.auth_fail_count >= MaxFails

SendChallenge_NoAck ==
    /\ issued' = issued + 1
    /\ dev' = [dev EXCEPT !.pc = "loop", !.auth_state = "CHALLENGE_SENT",
                          !.challenge = issued + 1]
    /\ toCli' = Append(toCli, ChallengeBytes(issued + 1))

\* First AUTH: draw a challenge and send it, or count a failure without one.
SendChallenge ==
    IF board.rng
    THEN /\ issued' = issued + 1
         /\ dev' = [dev EXCEPT !.pc = "loop", !.auth_state = "CHALLENGE_SENT",
                               !.challenge = issued + 1]
         /\ toCli' = toCli \o <<ACK, ChallengeBytes(issued + 1)>>
    ELSE /\ dev' = AuthFail
         /\ recovery_send_nack
         /\ UNCHANGED issued

\* What an AUTH packet does after the back-off.
recovery_handle_auth ==
    /\ CASE LockedOut ->
              /\ dev' = [dev EXCEPT !.pc = "loop"]
              /\ recovery_send_nack /\ UNCHANGED issued
         [] ~LockedOut /\ dev.auth_state = "NONE" -> SendChallenge
         [] ~LockedOut /\ dev.auth_state = "CHALLENGE_SENT" ->
              /\ dev' = [dev EXCEPT !.pc = "response", !.got = <<>>]
              /\ UNCHANGED <<toCli, issued>>
         [] OTHER ->
              /\ dev' = [dev EXCEPT !.pc = "loop"]
              /\ recovery_send_nack /\ UNCHANGED issued
    /\ UNCHANGED <<board, slots, ctl, session, signed, compared, wrong>>

\* After a failure AUTH first waits, feeding the watchdog.
Backoff ==
    /\ dev.pc = "backoff"
    /\ recovery_handle_auth
    /\ UNCHANGED <<toDev, cl, trouble, runs, done, said>>

RightAnswer_AnyChallenge(got) ==
    /\ board.otp = "secret"
    /\ \A i \in DOMAIN got : "right" \in DOMAIN got[i] /\ got[i].right
RightAnswer(got) == /\ board.otp = "secret"
                    /\ got = Digest(dev.challenge, TRUE)

\* The digest is complete: compare it, unless the secret is unusable.
CompareResponse(got) ==
    /\ compared' = Append(compared, dev.challenge)
    /\ IF RightAnswer(got)
       THEN /\ dev' = [dev EXCEPT !.pc = "loop", !.auth_state = "AUTHENTICATED",
                                  !.auth_fail_count = 0, !.got = <<>>]
            /\ recovery_send_ack
            /\ wrong' = wrong
       ELSE /\ dev' = AuthFail
            /\ recovery_send_nack
            /\ wrong' = wrong + 1
    /\ UNCHANGED <<board, slots, ctl, issued, session, signed, done>>

-----------------------------------------------------------------------------
(* Device: commands                                                        *)

Whole(mark) == [k \in 1..NChunks |-> mark]

\* The handlers.  Each answers, and says what it changes.
Answer(bytes, cmd) ==
    /\ toCli' = toCli \o bytes
    /\ done' = IF Head(bytes) = ACK THEN done \cup {cmd} ELSE done
    /\ UNCHANGED <<histVars>>

Refuse == /\ recovery_send_nack
          /\ UNCHANGED <<board, dev, slots, ctl, histVars, done>>

recovery_handle_ping == Answer(<<ACK, Rest>>, "ping") /\ UNCHANGED devVars
recovery_handle_info == Answer(<<ACK, Rest>>, "info") /\ UNCHANGED devVars
recovery_handle_boot_log == Answer(<<ACK, Rest>>, "log") /\ UNCHANGED devVars

recovery_handle_erase(s) ==
    IF s \notin Slots THEN Refuse
    ELSE /\ slots' = [slots EXCEPT ![s] = Whole("erased")]
         /\ Answer(<<ACK>>, "erase")
         /\ UNCHANGED <<board, dev, ctl>>

\* WRITE checks slot and range, says it is ready and waits for the chunk.
recovery_handle_write(s, k) ==
    IF s \notin Slots \/ k = 0 THEN Refuse
    ELSE /\ dev' = [dev EXCEPT !.pc = "chunk", !.slot = s, !.chunk = k, !.got = <<>>]
         /\ recovery_send_ack
         /\ UNCHANGED <<board, slots, ctl, histVars, done>>

recovery_handle_verify(s) ==
    IF s \in Slots /\ slots[s] \in {Whole("old"), Whole("sent")}
    THEN Answer(<<ACK>>, "verify") /\ UNCHANGED devVars
    ELSE Refuse

recovery_handle_boot(s) ==
    IF s \notin Slots THEN Refuse
    ELSE /\ ctl' = s
         /\ dev' = [dev EXCEPT !.pc = "reset"]
         /\ Answer(<<ACK>>, "boot")
         /\ UNCHANGED <<board, slots>>

recovery_handle_factory_reset ==
    /\ slots' = [s \in Slots |-> Whole("erased")]
    /\ ctl' = "defaults"
    /\ Answer(<<ACK>>, "factory")
    /\ UNCHANGED <<board, dev>>

recovery_handle_reset ==
    /\ dev' = [dev EXCEPT !.pc = "reset"]
    /\ Answer(<<ACK>>, "reset")
    /\ UNCHANGED <<board, slots, ctl>>

Allowed_AnyState(cmd) == cmd_requires_auth(cmd) => dev.auth_state # "NONE"
Allowed(cmd) == cmd_requires_auth(cmd) => dev.auth_state = "AUTHENTICATED"

Dispatch(p) ==
    \/ ~Allowed(p.cmd) /\ Refuse
    \/ /\ Allowed(p.cmd)
       /\ \/ p.cmd = "ping" /\ recovery_handle_ping
          \/ p.cmd = "info" /\ recovery_handle_info
          \/ p.cmd = "log" /\ recovery_handle_boot_log
          \/ p.cmd = "erase" /\ recovery_handle_erase(p.slot)
          \/ p.cmd = "write" /\ recovery_handle_write(p.slot, p.chunk)
          \/ p.cmd = "verify" /\ recovery_handle_verify(p.slot)
          \/ p.cmd = "boot" /\ recovery_handle_boot(p.slot)
          \/ p.cmd = "factory" /\ recovery_handle_factory_reset
          \/ p.cmd = "reset" /\ recovery_handle_reset
          \/ p.cmd = "other" /\ Refuse
          \/ /\ p.cmd = "auth" /\ dev.auth_fail_count = 0
             /\ recovery_handle_auth /\ UNCHANGED done
          \/ /\ p.cmd = "auth" /\ dev.auth_fail_count > 0
             /\ dev' = [dev EXCEPT !.pc = "backoff"]
             /\ UNCHANGED <<board, slots, ctl, toCli, histVars, done>>

\* The command loop reads a packet and carries it out.
CommandLoop ==
    /\ dev.pc = "loop" /\ toDev # <<>>
    /\ toDev' = Tail(toDev)
    /\ \E p \in Readings(Head(toDev)) : Dispatch(p)
    /\ UNCHANGED <<cl, trouble, runs, said>>

\* The digest arrives unit by unit.
ReadResponse ==
    /\ dev.pc = "response" /\ toDev # <<>>
    /\ toDev' = Tail(toDev)
    /\ \E got \in {Append(dev.got, Head(toDev))} :
         IF Len(got) < DigestUnits
         THEN /\ dev' = [dev EXCEPT !.got = got]
              /\ UNCHANGED <<board, slots, ctl, toCli, histVars, done>>
         ELSE CompareResponse(got)
    /\ UNCHANGED <<cl, trouble, runs, said>>

\* What programming a chunk leaves: flash that was not erased holds a mixture.
Programmed(old, k, got) ==
    IF old # "erased" THEN "other"
    ELSE IF got = Chunk(k) THEN "sent" ELSE "other"

\* The chunk arrives unit by unit and is programmed when it is complete.
ReadChunk ==
    /\ dev.pc = "chunk" /\ toDev # <<>>
    /\ toDev' = Tail(toDev)
    /\ \E got \in {Append(dev.got, Head(toDev))} :
         IF Len(got) < ChunkUnits
         THEN /\ dev' = [dev EXCEPT !.got = got]
              /\ UNCHANGED <<slots, toCli, done>>
         ELSE /\ dev' = [dev EXCEPT !.pc = "loop", !.got = <<>>]
              /\ slots' = [slots EXCEPT ![dev.slot][dev.chunk] =
                                Programmed(@, dev.chunk, got)]
              /\ recovery_send_ack
              /\ done' = done \cup {"write"}
    /\ UNCHANGED <<board, ctl, cl, trouble, runs, histVars, said>>

-----------------------------------------------------------------------------
(* Device: what goes wrong                                                 *)

\* The client has something to read, so it may be about to send.
ClientBusy == cl.pc # "off" /\ toCli # <<>>
Charge == trouble < MaxTrouble /\ trouble' = trouble + 1
FreeOrCharge(free) == IF free THEN trouble' = trouble ELSE Charge

\* Nothing came for RCVR_TIMEOUT_MS: what was read is dropped.  A response that
\* does not come gives the challenge up, and is no failure.
AfterTimeout ==
    IF dev.pc = "response"
    THEN [dev EXCEPT !.pc = "loop", !.auth_state = "NONE", !.got = <<>>]
    ELSE [dev EXCEPT !.pc = "loop", !.got = <<>>]

ReceiveTimeout ==
    /\ dev.pc \in {"response", "chunk"} /\ toDev = <<>>
    /\ FreeOrCharge(~ClientBusy)
    /\ dev' = AfterTimeout
    /\ recovery_send_nack
    /\ UNCHANGED <<board, slots, ctl, toDev, cl, runs, histVars, done, said>>

\* The flash reports an error.  A failed erase leaves anything in the slot, a
\* factory reset goes on with the other slot and the block whatever fails, and
\* without a saved block BOOT does not reset.
EraseFails(s) == slots' = [slots EXCEPT ![s] = Whole("other")] /\ UNCHANGED ctl
FactoryFails ==
    \E failed \in SUBSET Slots, saved \in BOOLEAN :
        /\ failed # {} \/ ~saved
        /\ slots' = [s \in Slots |-> Whole(IF s \in failed THEN "other" ELSE "erased")]
        /\ ctl' = IF saved THEN "defaults" ELSE ctl

CommandFails(p) ==
    /\ Allowed(p.cmd)
    /\ \/ p.cmd = "erase" /\ p.slot \in Slots /\ EraseFails(p.slot)
       \/ p.cmd = "factory" /\ FactoryFails
       \/ p.cmd = "boot" /\ p.slot \in Slots /\ UNCHANGED <<slots, ctl>>
       \/ p.cmd = "log" /\ UNCHANGED <<slots, ctl>>

FlashError ==
    /\ Charge /\ toDev # <<>>
    /\ toDev' = Tail(toDev)
    /\ \/ /\ dev.pc = "loop"
          /\ \E p \in Readings(Head(toDev)) : CommandFails(p)
          /\ UNCHANGED dev
       \/ /\ dev.pc = "chunk" /\ Len(dev.got) + 1 = ChunkUnits
          /\ slots' = [slots EXCEPT ![dev.slot][dev.chunk] = "other"]
          /\ dev' = [dev EXCEPT !.pc = "loop", !.got = <<>>]
          /\ UNCHANGED ctl
    /\ recovery_send_nack
    /\ UNCHANGED <<board, cl, runs, histVars, done, said>>

\* The entry carries out a factory reset that the application asked for: it
\* erases A, then B, and saves the defaults.  An erase that fails ends it; what
\* is left of the request is tried again by the next entry.  Module Boot has the
\* same steps one at a time, with power loss between them.
AppFactoryReset ==
    \/ /\ slots' = [s \in Slots |-> Whole("erased")] /\ ctl' = "defaults"
       /\ UNCHANGED trouble
    \/ /\ Charge /\ UNCHANGED ctl
       /\ \/ slots' = [s \in Slots |-> Whole("erased")]
          \/ \E failed \in Slots :
                slots' = [s \in Slots |-> IF s = failed THEN Whole("other")
                                          ELSE IF failed = "B" THEN Whole("erased") ELSE slots[s]]

\* The reset after BOOT or RESET, and stage-0 or stage-1 entering recovery
\* again: a new session.  Between the two the application may have run, and may
\* have asked for a factory reset.  Some of what is on the line is lost meanwhile.
\* The entry's first save changes FORCE_RECOVERY and the log head only, which
\* ctl does not hold.
eos_recovery_enter ==
    /\ dev.pc = "reset"
    /\ dev' = Idle
    /\ UNCHANGED <<slots, ctl, trouble>> \/ AppFactoryReset
    /\ \E n \in 0..Len(toDev) : toDev' = SubSeq(toDev, n + 1, Len(toDev))
    /\ session' = issued /\ wrong' = 0
    /\ UNCHANGED <<board, toCli, cl, runs, issued, signed, compared, done, said>>

Device == CommandLoop \/ Backoff \/ ReadResponse \/ ReadChunk \/ ReceiveTimeout

-----------------------------------------------------------------------------
(* Client                                                                  *)

\* The packet a sub-command sends first, once authenticated.
FirstCommand(goal) == IF goal = "upload" THEN "erase" ELSE goal
NeedsAuth(goal) == goal = "upload" \/ cmd_requires_auth(goal)

Send(units) == toDev' = toDev \o units

\* The device has dealt with all it was ever sent.
DeviceIdle == dev.pc \in {"loop", "reset"} /\ toDev = <<>>

\* The operator starts the client for one slot; opening the port discards what
\* arrived before.
ClientStart ==
    /\ cl.pc = "off" /\ runs < MaxRuns
    /\ \E goal \in Goals, right \in BOOLEAN :
         /\ ~NeedsAuth(goal) => right
         /\ cl' = [pc |-> IF NeedsAuth(goal) THEN "challenge" ELSE FirstCommand(goal),
                   goal |-> goal, right |-> right, chal |-> 0, off |-> 0]
         /\ Send(<<Packet(IF NeedsAuth(goal) THEN "auth" ELSE goal, "A", 0)>>)
    /\ toCli' = <<>>
    /\ runs' = runs + 1
    /\ done' = {} /\ said' = NothingSaid(DeviceIdle)
    /\ UNCHANGED <<devVars, trouble, histVars>>

\* What the client reads before it goes on: one byte, or a longer answer.
Wanted == IF cl.pc \in {"challenge", "ping", "info", "log"} THEN 2 ELSE 1

Exit(verdict) ==
    cl' = NoClient /\ said' = [said EXCEPT !.verdict = verdict, !.goal = cl.goal]

\* The challenge has come: the client answers it.  A reply that is none (the
\* rest of another answer) is answered as well.
ClientResponds ==
    /\ cl.pc = "challenge" /\ Len(toCli) >= Wanted
    /\ toCli' = SubSeq(toCli, Wanted + 1, Len(toCli))
    /\ IF toCli[1] = ACK
       THEN \E c \in {toCli[2][2]} :
              /\ cl' = [cl EXCEPT !.pc = "verdict", !.chal = c]
              /\ signed' = IF cl.right THEN signed \cup {c} ELSE signed
              /\ Send((IF Client = "protocol" THEN <<Packet("auth", "A", 0)>> ELSE <<>>)
                      \o Digest(c, cl.right))
              /\ UNCHANGED said
       ELSE /\ Exit("failed")
            /\ UNCHANGED <<toDev, signed>>
    /\ UNCHANGED <<devVars, trouble, runs, issued, session, compared, wrong, done>>

Finished_Unverified == cl.pc = cl.goal \/ (cl.pc = "written" /\ cl.off = NChunks)
\* The ACK that ends a sub-command.
Finished == cl.pc = cl.goal \/ (cl.pc = "verify" /\ cl.goal = "upload")

\* What the client does on an ACK: the next packet, the chunk, or the end.
OnAck ==
    \/ /\ cl.pc = "verdict"
       /\ cl' = [cl EXCEPT !.pc = FirstCommand(cl.goal)]
       /\ Send(<<Packet(FirstCommand(cl.goal), "A", 0)>>)
       /\ UNCHANGED said
    \/ /\ cl.pc = "erase" /\ cl.goal = "upload"
       /\ cl' = [cl EXCEPT !.pc = "ready", !.off = 1]
       /\ Send(<<Packet("write", "A", 1)>>)
       /\ UNCHANGED said
    \/ /\ cl.pc = "ready"
       /\ cl' = [cl EXCEPT !.pc = "written"]
       /\ Send(Chunk(cl.off))
       /\ UNCHANGED said
    \/ /\ cl.pc = "written" /\ cl.off < NChunks
       /\ cl' = [cl EXCEPT !.pc = "ready", !.off = @ + 1]
       /\ Send(<<Packet("write", "A", cl.off + 1)>>)
       /\ UNCHANGED said
    \/ /\ cl.pc = "written" /\ cl.off = NChunks
       /\ cl' = [cl EXCEPT !.pc = "verify"]
       /\ Send(<<Packet("verify", "A", 0)>>)
       /\ UNCHANGED said
    \/ /\ Finished
       /\ Exit("ok")
       /\ UNCHANGED toDev

\* The first byte decides.
ClientReadsAck ==
    /\ cl.pc \notin {"off", "challenge"} /\ Len(toCli) >= Wanted
    /\ toCli' = SubSeq(toCli, Wanted + 1, Len(toCli))
    /\ \/ Head(toCli) = ACK /\ OnAck
       \/ Head(toCli) # ACK /\ Exit("failed") /\ UNCHANGED toDev
    /\ UNCHANGED <<devVars, trouble, runs, histVars, done>>

\* The client's read gives up.  It does so by itself only when the device has
\* nothing more to say, or sits out a back-off longer than TIMEOUT.
DeviceQuiet == \/ dev.pc \in {"loop", "reset"} /\ toDev = <<>>
               \/ dev.pc = "backoff" /\ dev.auth_fail_count >= SlowFrom
               \/ dev.pc \in {"response", "chunk"} /\ toDev = <<>>
ClientTimeout ==
    /\ cl.pc # "off"
    /\ Len(toCli) < Wanted
    /\ FreeOrCharge(DeviceQuiet)
    /\ Exit("failed")
    /\ toCli' = <<>>
    /\ UNCHANGED <<devVars, toDev, runs, histVars, done>>

ClientProgram == ClientStart \/ ClientResponds \/ ClientReadsAck \/ ClientTimeout

-----------------------------------------------------------------------------
(* Line                                                                    *)

LoseUnit ==
    /\ Charge /\ toDev # <<>>
    /\ \E i \in DOMAIN toDev : toDev' = RemoveAt(toDev, i)
    /\ UNCHANGED <<devVars, toCli, cl, runs, histVars, done, said>>

\* A damaged unit is any unit: in the command loop any packet.
DamageUnit ==
    /\ Charge /\ toDev # <<>>
    /\ \E i \in DOMAIN toDev : toDev' = [toDev EXCEPT ![i] = DataUnit(0, 0)]
    /\ UNCHANGED <<devVars, toCli, cl, runs, histVars, done, said>>

LoseAnswer ==
    /\ Charge /\ toCli # <<>>
    /\ toCli' = Tail(toCli)
    /\ UNCHANGED <<devVars, toDev, cl, runs, histVars, done, said>>

Line == LoseUnit \/ DamageUnit \/ LoseAnswer

Next == Device \/ eos_recovery_enter \/ FlashError \/ ClientProgram \/ Line

\* Device and client are programs that run; what the line does is not fair.
Spec == Init /\ [][Next]_vars /\ WF_vars(Device)
             /\ WF_vars(ClientResponds \/ ClientReadsAck \/ ClientTimeout)

-----------------------------------------------------------------------------
(* Properties                                                              *)

TypeOK ==
    /\ board \in [rng : BOOLEAN, otp : {"secret", "unusable"}]
    /\ dev.pc \in {"loop", "backoff", "response", "chunk", "reset"}
    /\ dev.auth_state \in {"NONE", "CHALLENGE_SENT", "AUTHENTICATED"}
    /\ dev.auth_fail_count \in 0..MaxFails
    /\ dev.challenge \in 0..issued
    /\ dev.auth_state # "NONE" => dev.challenge > session
    /\ dev.pc = "chunk" => dev.auth_state = "AUTHENTICATED" /\ dev.slot \in Slots
    /\ \A s \in Slots, k \in 1..NChunks : slots[s][k] \in {"old", "erased", "sent", "other"}
    /\ ctl \in Slots \cup {"as found", "defaults"}

\* During a session flash and the control block change only on a board with a
\* provisioned secret, and only after a client that knows the secret has answered
\* the challenge of this very session: no earlier answer, no noise on the line and
\* no unprovisioned board opens the commands cmd_requires_auth() guards.  Without
\* an answer the entry alone changes them, to carry out the application's factory
\* reset, and it restores the defaults only once every slot is erased.
ChangesAreAuthorised ==
    [][slots' # slots \/ ctl' # ctl =>
          \/ /\ board.rng /\ board.otp = "secret"
             /\ dev.challenge > session
             /\ dev.challenge \in signed
          \/ /\ dev.pc = "reset"
             /\ ctl' # ctl => \A s \in Slots : slots'[s] = Whole("erased")]_vars

\* A challenge decides one comparison at most, whatever times out, fails or
\* arrives late in between.
OneAnswerPerChallenge == \A i, j \in DOMAIN compared : compared[i] = compared[j] => i = j

\* A session hears at most MaxFails wrong answers, and none of them after the
\* right one.
WrongAnswersBounded ==
    /\ wrong <= MaxFails
    /\ dev.auth_state = "AUTHENTICATED" => wrong < MaxFails

\* A client that follows the protocol, found the device idle and reports success
\* is right, unless something went wrong on the line meanwhile: the device
\* carried its command out, and after an upload the slot holds exactly the image
\* that was sent.  The device must be idle: one that still sits out the back-off
\* of an earlier run answers that run's AUTH, and the new client takes the answer
\* for its own.
SuccessIsTrue ==
    (said.verdict = "ok" /\ said.idle /\ trouble = said.trouble /\ Client = "protocol") =>
        IF said.goal = "upload"
        THEN /\ {"erase", "write", "verify"} \subseteq done
             /\ "A" \in Slots => slots["A"] = Whole("sent")
        ELSE said.goal \in done

\* An operator with the right secret, on a provisioned board that has an entropy
\* source and is not in a long back-off, starts the client in front of an idle
\* device.
GoodStart ==
    /\ cl.pc = "challenge" /\ cl.right
    /\ board.rng /\ board.otp = "secret"
    /\ dev.pc = "loop" /\ dev.auth_state = "NONE"
    /\ dev.auth_fail_count < SlowFrom /\ dev.auth_fail_count < MaxFails
    /\ toDev = <<Packet("auth", "A", 0)>> /\ toCli = <<>>
    /\ trouble = 0

\* From a good start the client's command is carried out, unless the line or
\* the flash makes trouble: the challenge-response completes.
ClientCompletes == GoodStart ~> (said.verdict = "ok" \/ trouble > 0)
=============================================================================
