-------------------------- MODULE Recovery_proofs --------------------------
(***************************************************************************)
(* Proofs about the recovery session, for any number of slots, chunks,     *)
(* allowed failures, client runs and line faults, and for both clients.    *)
(***************************************************************************)
EXTENDS Recovery, SequenceTheorems, TLAPS

(* The units that can be on the line.  A digest made with the right secret *)
(* is one a client has computed for a challenge it was sent.               *)
PacketUnits ==
    [cmd : Commands \cup {"other"} \cup Goals,
     slot : Slots \cup {"bad", "A"}, chunk : 0..NChunks]
DataUnits == [data : 0..NChunks, part : 0..ChunkUnits]
DigestUnitsOf(s) ==
    {u \in [chal : Nat, right : BOOLEAN, part : 1..DigestUnits] : u.right => u.chal \in s}
LineUnits == PacketUnits \cup DataUnits \cup DigestUnitsOf(signed)

AnswerBytes == {"ACK", "NACK", "x", "challenge"} \X Nat

Marks == {"old", "erased", "sent", "other"}

DevTypes ==
    [pc : {"loop", "backoff", "response", "chunk", "reset"},
     auth_state : {"NONE", "CHALLENGE_SENT", "AUTHENTICATED"},
     challenge : Nat, auth_fail_count : 0..MaxFails, got : Seq(LineUnits),
     slot : Slots \cup {"bad", "A"}, chunk : 0..NChunks]

RunningClients ==
    [pc : {"challenge", "verdict", "erase", "ready", "written", "verify"} \cup Goals,
     goal : Goals, right : BOOLEAN, chal : Nat, off : 0..NChunks]
ClientTypes == RunningClients \cup {NoClient}

(* Every variable in its type, the sequences element by element.           *)
TypeInv ==
    /\ board \in [rng : BOOLEAN, otp : {"secret", "unusable"}]
    /\ dev \in DevTypes
    /\ slots \in [Slots -> [1..NChunks -> Marks]]
    /\ ctl \in Slots \cup {"as found", "defaults"}
    /\ toDev \in Seq(LineUnits) /\ toCli \in Seq(AnswerBytes)
    /\ cl \in ClientTypes
    /\ issued \in Nat /\ session \in 0..issued /\ signed \subseteq Nat
    /\ compared \in Seq(Nat) /\ wrong \in Nat

(* A challenge is one of this session as long as it is worth anything, it  *)
(* is waiting for an answer only until it was compared, and it opens the   *)
(* session only when the right secret answered it.                         *)
AuthInv ==
    /\ dev.challenge <= issued
    /\ dev.auth_state # "NONE" => dev.challenge > session /\ board.rng
    /\ dev.auth_state = "AUTHENTICATED" => board.otp = "secret" /\ dev.challenge \in signed
    /\ dev.pc = "response" =>
          dev.auth_state = "CHALLENGE_SENT" /\ dev.auth_fail_count < MaxFails
    /\ dev.pc = "chunk" =>
          dev.auth_state = "AUTHENTICATED" /\ dev.slot \in Slots /\ dev.chunk # 0

(* No challenge that is waiting for an answer, and none to come, was       *)
(* compared before.                                                        *)
ComparedInv ==
    /\ OneAnswerPerChallenge
    /\ \A i \in DOMAIN compared :
          /\ compared[i] <= issued
          /\ dev.auth_state = "CHALLENGE_SENT" => compared[i] # dev.challenge

(* A wrong answer is a counted failure until the right one comes.          *)
WrongInv ==
    /\ dev.auth_state # "AUTHENTICATED" => wrong <= dev.auth_fail_count
    /\ dev.auth_state = "AUTHENTICATED" => wrong < MaxFails

IInv == TypeInv /\ AuthInv /\ ComparedInv /\ WrongInv

-----------------------------------------------------------------------------
(* Units and sequences of them                                             *)

(* Packets, chunks and digests are units of the line; a digest made with   *)
(* the right secret only once the challenge counts as answered.            *)
LEMMA PacketIsUnit ==
    ASSUME NEW cmd \in Commands \cup {"other"} \cup Goals, NEW k \in 0..NChunks
    PROVE  /\ Packet(cmd, "A", k) \in LineUnits
           /\ <<Packet(cmd, "A", k)>> \in Seq(LineUnits)
    BY DEF Packet, LineUnits, PacketUnits

(* The chunk a client sends is made of data units.                         *)
LEMMA ChunkIsUnits ==
    ASSUME NEW k \in 0..NChunks
    PROVE  Chunk(k) \in Seq(LineUnits)
  <1>1. ChunkUnits \in Nat
    BY RecoveryAssumption
  <1>2. \A i \in 1..ChunkUnits : DataUnit(k, i) \in LineUnits
    BY <1>1 DEF DataUnit, LineUnits, DataUnits
  <1>3. Chunk(k) \in [1..ChunkUnits -> LineUnits]
    BY <1>2 DEF Chunk
  <1> QED BY <1>1, <1>3, SeqDef

(* A digest is made of units as soon as its challenge counts as answered.  *)
LEMMA DigestIsUnits ==
    ASSUME NEW c \in Nat, NEW right \in BOOLEAN, NEW S, right => c \in S
    PROVE  Digest(c, right) \in Seq(PacketUnits \cup DataUnits \cup DigestUnitsOf(S))
  <1>1. DigestUnits \in Nat
    BY RecoveryAssumption
  <1>2. \A i \in 1..DigestUnits : DigestUnit(c, right, i) \in DigestUnitsOf(S)
    BY <1>1 DEF DigestUnit, DigestUnitsOf
  <1>3. Digest(c, right) \in [1..DigestUnits -> PacketUnits \cup DataUnits \cup DigestUnitsOf(S)]
    BY <1>2 DEF Digest
  <1> QED BY <1>1, <1>3, SeqDef

(* What the command loop reads is a packet, whatever was on the line.      *)
LEMMA ReadingIsPacket ==
    ASSUME NEW u \in LineUnits, NEW p \in Readings(u)
    PROVE  p.slot \in Slots \cup {"bad", "A"} /\ p.chunk \in 0..NChunks
  <1>1. CASE IsPacket(u)
    <2>1. u \in PacketUnits
      BY <1>1 DEF IsPacket, LineUnits, DataUnits, DigestUnitsOf
    <2> QED BY <1>1, <2>1 DEF Readings, PacketUnits
  <1>2. CASE ~IsPacket(u)
    BY <1>2 DEF Readings, Packet
  <1> QED BY <1>1, <1>2

(* A complete digest that is the right one was computed by a client.       *)
LEMMA RightDigestIsSigned ==
    ASSUME NEW c \in Nat, Digest(c, TRUE) \in Seq(LineUnits)
    PROVE  c \in signed
  <1> DEFINE u == DigestUnit(c, TRUE, 1)
  <1>1. 1 \in DOMAIN Digest(c, TRUE) /\ Digest(c, TRUE)[1] = u
    <2>1. 1 \in 1..DigestUnits
      BY RecoveryAssumption
    <2> QED BY <2>1, Zenon DEF Digest
  <1>2. u \in LineUnits
    BY <1>1, LenProperties
  <1>3. u \notin PacketUnits
    <2>1. DOMAIN u = {"chal", "right", "part"} /\ "cmd" \notin DOMAIN u
      BY DEF DigestUnit
    <2>2. \A v \in PacketUnits : "cmd" \in DOMAIN v
      BY DEF PacketUnits
    <2> QED BY <2>1, <2>2
  <1>4. u \notin DataUnits
    <2>1. DOMAIN u = {"chal", "right", "part"} /\ "data" \notin DOMAIN u
      BY DEF DigestUnit
    <2>2. \A v \in DataUnits : "data" \in DOMAIN v
      BY DEF DataUnits
    <2> QED BY <2>1, <2>2
  <1>5. u.right /\ u.chal = c
    BY DEF DigestUnit
  <1> QED BY <1>2, <1>3, <1>4, <1>5 DEF LineUnits, DigestUnitsOf

(* RemoveAt() and the other ways to drop units keep the rest.              *)
LEMMA RemoveAtType ==
    ASSUME NEW S, NEW s \in Seq(S), NEW i \in DOMAIN s
    PROVE  RemoveAt(s, i) \in Seq(S)
  <1>1. DOMAIN s = 1..Len(s) /\ Len(s) \in Nat /\ \A j \in 1..Len(s) : s[j] \in S
    BY LenProperties, ElementOfSeq
  <1>2. SubSeq(s, 1, i - 1) \in Seq(S)
    BY <1>1, SubSeqProperties
  <1>3. SubSeq(s, i + 1, Len(s)) \in Seq(S)
    BY <1>1, SubSeqProperties
  <1> QED BY <1>2, <1>3, ConcatProperties DEF RemoveAt

(* What is left after the first n elements.                                *)
LEMMA DropType ==
    ASSUME NEW S, NEW s \in Seq(S), NEW n \in Nat
    PROVE  SubSeq(s, n + 1, Len(s)) \in Seq(S)
  <1>1. Len(s) \in Nat /\ \A j \in 1..Len(s) : s[j] \in S
    BY LenProperties, ElementOfSeq
  <1> QED BY <1>1, SubSeqProperties

(* The answers of the handlers.                                            *)
LEMMA AnswerTypes ==
    /\ ACK \in AnswerBytes /\ NACK \in AnswerBytes /\ Rest \in AnswerBytes
    /\ \A c \in Nat : ChallengeBytes(c) \in AnswerBytes
    BY DEF ACK, NACK, Rest, ChallengeBytes, AnswerBytes

(* A list of different numbers up to n, with one more that is not in it.   *)
LEMMA AppendDistinct ==
    ASSUME NEW s \in Seq(Nat), NEW c \in Nat, NEW n \in Nat, c <= n,
           \A i \in DOMAIN s : s[i] <= n /\ s[i] # c,
           \A i, j \in DOMAIN s : s[i] = s[j] => i = j
    PROVE  LET t == Append(s, c)
           IN /\ t \in Seq(Nat)
              /\ \A i \in DOMAIN t : t[i] <= n
              /\ \A i, j \in DOMAIN t : t[i] = t[j] => i = j
  <1> DEFINE t == Append(s, c)
             L == Len(s)
  <1>1. L \in Nat /\ DOMAIN s = 1..L
    BY LenProperties
  <1>2. t \in Seq(Nat) /\ Len(t) = L + 1 /\ (\A i \in 1..L : t[i] = s[i]) /\ t[L + 1] = c
    BY AppendProperties
  <1>3. DOMAIN t = 1..(L + 1)
    BY <1>2, LenProperties
  <1>4. \A i \in DOMAIN t : (i \in DOMAIN s /\ t[i] = s[i]) \/ (i = L + 1 /\ t[i] = c)
    <2> HIDE DEF t, L
    <2> QED BY <1>1, <1>2, <1>3
  <1> HIDE DEF t, L
  <1>5. \A i \in DOMAIN t : t[i] <= n
    BY <1>4
  <1>6. \A i, j \in DOMAIN t : t[i] = t[j] => i = j
    BY <1>4
  <1> QED BY <1>2, <1>5, <1>6 DEF t

(* The types of the device's fields.                                       *)
LEMMA DevFields ==
    ASSUME dev \in DevTypes
    PROVE  /\ dev.pc \in {"loop", "backoff", "response", "chunk", "reset"}
           /\ dev.auth_state \in {"NONE", "CHALLENGE_SENT", "AUTHENTICATED"}
           /\ dev.challenge \in Nat /\ dev.auth_fail_count \in 0..MaxFails
           /\ dev.got \in Seq(LineUnits)
           /\ dev.slot \in Slots \cup {"bad", "A"} /\ dev.chunk \in 0..NChunks
    BY DEF DevTypes

(* A fresh challenge leaves a device of its type.                          *)
LEMMA DevChallenged ==
    ASSUME dev \in DevTypes, issued \in Nat,
           dev' = [dev EXCEPT !.pc = "loop", !.auth_state = "CHALLENGE_SENT",
                              !.challenge = issued + 1]
    PROVE  /\ dev' \in DevTypes /\ dev'.pc = "loop" /\ dev'.auth_state = "CHALLENGE_SENT"
           /\ dev'.challenge = issued + 1 /\ dev'.auth_fail_count = dev.auth_fail_count
  <1>1. issued + 1 \in Nat
    OBVIOUS
  <1> QED BY <1>1 DEF DevTypes

(* So does a counted failure,                                              *)
LEMMA DevFailed ==
    ASSUME dev \in DevTypes, dev.auth_fail_count + 1 \in 0..MaxFails,
           <<>> \in Seq(LineUnits), dev' = AuthFail
    PROVE  /\ dev' \in DevTypes /\ dev'.pc = "loop" /\ dev'.auth_state = "NONE"
           /\ dev'.challenge = dev.challenge /\ dev'.auth_fail_count = dev.auth_fail_count + 1
    BY DEF AuthFail, DevTypes

(* the wait for a response,                                                *)
LEMMA DevWaits ==
    ASSUME dev \in DevTypes, <<>> \in Seq(LineUnits),
           dev' = [dev EXCEPT !.pc = "response", !.got = <<>>]
    PROVE  /\ dev' \in DevTypes /\ dev'.pc = "response" /\ dev'.auth_state = dev.auth_state
           /\ dev'.challenge = dev.challenge /\ dev'.auth_fail_count = dev.auth_fail_count
    BY DEF DevTypes

(* and the right answer.                                                   *)
LEMMA DevAuthenticated ==
    ASSUME dev \in DevTypes, <<>> \in Seq(LineUnits),
           dev' = [dev EXCEPT !.pc = "loop", !.auth_state = "AUTHENTICATED",
                              !.auth_fail_count = 0, !.got = <<>>]
    PROVE  /\ dev' \in DevTypes /\ dev'.pc = "loop" /\ dev'.auth_state = "AUTHENTICATED"
           /\ dev'.challenge = dev.challenge
  <1>1. 0 \in 0..MaxFails
    BY RecoveryAssumption
  <1> QED BY <1>1 DEF DevTypes

-----------------------------------------------------------------------------
(* What the steps have in common                                           *)

(* A step of the client or of the line moves units and answers, and can    *)
(* only add to the challenges that were answered.                          *)
LEMMA OutsideStep ==
    ASSUME IInv, UNCHANGED <<devVars, issued, session, compared, wrong>>,
           signed \subseteq signed', signed' \subseteq Nat,
           toDev' \in Seq(LineUnits)', toCli' \in Seq(AnswerBytes), cl' \in ClientTypes
    PROVE  IInv'
  <1>1. LineUnits \subseteq LineUnits'
    BY DEF LineUnits, DigestUnitsOf
  <1>2. dev' \in DevTypes'
    <2>1. dev.got \in Seq(LineUnits')
      BY <1>1, DevFields, SeqMonotonic DEF IInv, TypeInv
    <2>2. dev' = dev /\ dev \in DevTypes
      BY DEF devVars, IInv, TypeInv
    <2> QED BY <2>1, <2>2 DEF DevTypes
  <1>3. TypeInv'
    BY <1>2 DEF IInv, TypeInv, devVars, AnswerBytes, ClientTypes
  <1>4. AuthInv'
    BY DEF IInv, AuthInv, devVars
  <1>5. ComparedInv' /\ WrongInv'
    BY DEF IInv, ComparedInv, OneAnswerPerChallenge, WrongInv, devVars
  <1> QED BY <1>3, <1>4, <1>5 DEF IInv

(* A step of the device that has nothing to do with authentication.        *)
LEMMA QuietStep ==
    ASSUME IInv, UNCHANGED <<board, cl, histVars>>,
           dev' \in DevTypes,
           dev'.auth_state = dev.auth_state, dev'.challenge = dev.challenge,
           dev'.auth_fail_count = dev.auth_fail_count,
           dev'.pc = "response" => dev.pc = "response",
           dev'.pc = "chunk" =>
              dev.auth_state = "AUTHENTICATED" /\ dev'.slot \in Slots /\ dev'.chunk # 0,
           slots' \in [Slots -> [1..NChunks -> Marks]],
           ctl' \in Slots \cup {"as found", "defaults"},
           toDev' \in Seq(LineUnits), toCli' \in Seq(AnswerBytes)
    PROVE  IInv'
  <1>1. LineUnits' = LineUnits
    BY DEF LineUnits, DigestUnitsOf, histVars
  <1>2. DevTypes' = DevTypes
    BY <1>1 DEF DevTypes
  <1>3. TypeInv'
    BY <1>1, <1>2 DEF IInv, TypeInv, histVars, AnswerBytes, ClientTypes
  <1>4. AuthInv'
    BY DEF IInv, AuthInv, histVars
  <1>5. ComparedInv' /\ WrongInv'
    BY DEF IInv, ComparedInv, OneAnswerPerChallenge, WrongInv, histVars
  <1> QED BY <1>3, <1>4, <1>5 DEF IInv

(* The steps that do change something about authentication: they see to    *)
(* AuthInv, ComparedInv and WrongInv themselves.                           *)
LEMMA AuthStep ==
    ASSUME IInv, UNCHANGED <<board, slots, ctl, cl, signed>>,
           dev' \in DevTypes, AuthInv', ComparedInv', WrongInv',
           toDev' \in Seq(LineUnits), toCli' \in Seq(AnswerBytes),
           issued' \in Nat, session' \in 0..issued', compared' \in Seq(Nat), wrong' \in Nat
    PROVE  IInv'
  <1>1. LineUnits' = LineUnits
    BY DEF LineUnits, DigestUnitsOf
  <1>2. DevTypes' = DevTypes
    BY <1>1 DEF DevTypes
  <1> QED BY <1>1, <1>2 DEF IInv, TypeInv, AnswerBytes, ClientTypes

-----------------------------------------------------------------------------
(* The device                                                              *)

(* recovery_handle_auth(): locked out, a fresh challenge, no entropy       *)
(* source, or on to the response.                                          *)
LEMMA HandleAuth ==
    ASSUME IInv, recovery_handle_auth, UNCHANGED cl, toDev' \in Seq(LineUnits)
    PROVE  IInv'
  <1> USE RecoveryAssumption
  <1>0. /\ dev \in DevTypes /\ issued \in Nat /\ session \in 0..issued
        /\ compared \in Seq(Nat) /\ wrong \in Nat /\ toCli \in Seq(AnswerBytes)
        /\ <<>> \in Seq(LineUnits)
        /\ board.rng \in BOOLEAN
    BY EmptySeq DEF IInv, TypeInv
  <1>a. /\ UNCHANGED <<board, slots, ctl, session, signed, compared, wrong>>
        /\ UNCHANGED cl
    BY DEF recovery_handle_auth
  <1>1. CASE /\ dev' = [dev EXCEPT !.pc = "loop"]
             /\ recovery_send_nack /\ UNCHANGED issued
    <2>1. /\ dev' \in DevTypes /\ dev'.pc = "loop" /\ dev'.auth_state = dev.auth_state
          /\ dev'.challenge = dev.challenge /\ dev'.auth_fail_count = dev.auth_fail_count
      BY <1>0, <1>1 DEF DevTypes
    <2>2. toCli' \in Seq(AnswerBytes)
      BY <1>0, <1>1, AnswerTypes, AppendProperties DEF recovery_send_nack
    <2> QED BY <1>a, <1>1, <2>1, <2>2, QuietStep DEF histVars, IInv, TypeInv
  <1>2. CASE /\ ~LockedOut /\ dev.auth_state = "NONE" /\ board.rng
             /\ SendChallenge
    <2>1. /\ issued' = issued + 1
          /\ dev' = [dev EXCEPT !.pc = "loop", !.auth_state = "CHALLENGE_SENT",
                                !.challenge = issued + 1]
          /\ toCli' = toCli \o <<ACK, ChallengeBytes(issued + 1)>>
      BY <1>2 DEF SendChallenge
    <2>2. /\ dev' \in DevTypes /\ dev'.pc = "loop" /\ dev'.auth_state = "CHALLENGE_SENT"
          /\ dev'.challenge = issued + 1 /\ dev'.auth_fail_count = dev.auth_fail_count
      BY <1>0, <2>1, DevChallenged
    <2>3. toCli' \in Seq(AnswerBytes)
      <3>1. <<ACK, ChallengeBytes(issued + 1)>> \in Seq(AnswerBytes)
        <4>1. ACK \in AnswerBytes /\ ChallengeBytes(issued + 1) \in AnswerBytes
          BY <1>0, AnswerTypes
        <4> QED BY <4>1
      <3> QED BY <1>0, <2>1, <3>1, ConcatProperties
    <2>4. AuthInv'
      BY <1>0, <1>a, <1>2, <2>1, <2>2 DEF AuthInv
    <2>5. ComparedInv'
      <3>1. \A i \in DOMAIN compared : compared[i] <= issued /\ compared[i] \in Nat
        BY <1>0, LenProperties DEF IInv, ComparedInv
      <3>2. \A i \in DOMAIN compared : compared[i] <= issued + 1 /\ compared[i] # issued + 1
        BY <1>0, <3>1
      <3> QED BY <1>a, <2>1, <2>2, <3>2 DEF IInv, ComparedInv, OneAnswerPerChallenge
    <2>6. WrongInv'
      BY <1>a, <1>2, <2>2 DEF IInv, WrongInv
    <2> QED BY <1>0, <1>a, <2>1, <2>2, <2>3, <2>4, <2>5, <2>6, AuthStep
  <1>3. CASE /\ ~LockedOut /\ dev.auth_state = "NONE" /\ ~board.rng
             /\ SendChallenge
    <2>1. dev' = AuthFail /\ recovery_send_nack /\ UNCHANGED issued
      BY <1>3 DEF SendChallenge
    <2>2. dev.auth_fail_count \in 0..MaxFails /\ dev.auth_fail_count < MaxFails
      BY <1>0, <1>3, DevFields DEF LockedOut
    <2>3. /\ dev' \in DevTypes /\ dev'.pc = "loop" /\ dev'.auth_state = "NONE"
          /\ dev'.challenge = dev.challenge
          /\ dev'.auth_fail_count = dev.auth_fail_count + 1
      <3>1. dev.auth_fail_count + 1 \in 0..MaxFails
        BY <2>2
      <3> QED BY <1>0, <2>1, <3>1, DevFailed
    <2>4. toCli' \in Seq(AnswerBytes)
      BY <1>0, <2>1, AnswerTypes, AppendProperties DEF recovery_send_nack
    <2>5. AuthInv' /\ ComparedInv'
      BY <1>a, <2>1, <2>3 DEF IInv, AuthInv, ComparedInv, OneAnswerPerChallenge
    <2>6. WrongInv'
      BY <1>0, <1>a, <1>3, <2>2, <2>3 DEF IInv, WrongInv
    <2> QED BY <1>0, <1>a, <2>1, <2>3, <2>4, <2>5, <2>6, AuthStep
  <1>4. CASE /\ ~LockedOut /\ dev.auth_state = "CHALLENGE_SENT"
             /\ dev' = [dev EXCEPT !.pc = "response", !.got = <<>>]
             /\ UNCHANGED <<toCli, issued>>
    <2>1. /\ dev' \in DevTypes /\ dev'.pc = "response" /\ dev'.auth_state = "CHALLENGE_SENT"
          /\ dev'.challenge = dev.challenge /\ dev'.auth_fail_count = dev.auth_fail_count
          /\ dev'.auth_fail_count < MaxFails
      <3>1. dev.auth_fail_count < MaxFails
        BY <1>0, <1>4, DevFields DEF LockedOut
      <3> QED BY <1>0, <1>4, <3>1, DevWaits
    <2>2. AuthInv' /\ ComparedInv' /\ WrongInv'
      BY <1>a, <1>4, <2>1 DEF IInv, AuthInv, ComparedInv, OneAnswerPerChallenge, WrongInv
    <2> QED BY <1>0, <1>a, <1>4, <2>1, <2>2, AuthStep
  <1>5. dev.auth_state \in {"NONE", "CHALLENGE_SENT", "AUTHENTICATED"} /\ LockedOut \in BOOLEAN
    BY <1>0, DevFields DEF LockedOut
  <1> QED BY <1>0, <1>1, <1>2, <1>3, <1>4, <1>5 DEF recovery_handle_auth

(* The response is complete: a challenge that was waiting is compared and  *)
(* waits no longer.                                                        *)
LEMMA Compare ==
    ASSUME IInv, dev.pc = "response", NEW got \in Seq(LineUnits), CompareResponse(got),
           UNCHANGED cl, toDev' \in Seq(LineUnits)
    PROVE  IInv'
  <1> USE RecoveryAssumption
  <1>0. /\ dev \in DevTypes /\ issued \in Nat /\ session \in 0..issued
        /\ compared \in Seq(Nat) /\ wrong \in Nat /\ toCli \in Seq(AnswerBytes)
        /\ <<>> \in Seq(LineUnits)
        /\ dev.challenge \in Nat /\ dev.challenge <= issued /\ dev.challenge > session
        /\ dev.auth_state = "CHALLENGE_SENT" /\ board.rng
        /\ dev.auth_fail_count \in 0..MaxFails /\ dev.auth_fail_count < MaxFails
        /\ wrong <= dev.auth_fail_count
    BY EmptySeq, DevFields DEF IInv, TypeInv, AuthInv, WrongInv
  <1>a. /\ UNCHANGED <<board, slots, ctl, issued, session, signed, cl>>
        /\ compared' = Append(compared, dev.challenge)
    BY DEF CompareResponse
  <1>1. /\ \A i \in DOMAIN compared : compared[i] <= issued /\ compared[i] # dev.challenge
        /\ \A i, j \in DOMAIN compared : compared[i] = compared[j] => i = j
    BY <1>0 DEF IInv, ComparedInv, OneAnswerPerChallenge
  <1>2. /\ compared' \in Seq(Nat)
        /\ \A i \in DOMAIN compared' : compared'[i] <= issued
        /\ \A i, j \in DOMAIN compared' : compared'[i] = compared'[j] => i = j
    BY <1>0, <1>a, <1>1, AppendDistinct
  <1>3. OneAnswerPerChallenge' /\ \A i \in DOMAIN compared' : compared'[i] <= issued'
    BY <1>a, <1>2 DEF OneAnswerPerChallenge
  <1>4. CASE RightAnswer(got)
    <2>1. /\ dev' = [dev EXCEPT !.pc = "loop", !.auth_state = "AUTHENTICATED",
                                !.auth_fail_count = 0, !.got = <<>>]
          /\ recovery_send_ack /\ wrong' = wrong
      BY <1>4 DEF CompareResponse
    <2>2. /\ dev' \in DevTypes /\ dev'.pc = "loop" /\ dev'.auth_state = "AUTHENTICATED"
          /\ dev'.challenge = dev.challenge
      BY <1>0, <2>1, DevAuthenticated
    <2>3. board.otp = "secret" /\ dev.challenge \in signed
      BY <1>0, <1>4, RightDigestIsSigned DEF RightAnswer
    <2>4. toCli' \in Seq(AnswerBytes)
      BY <1>0, <2>1, AnswerTypes, AppendProperties DEF recovery_send_ack
    <2>5. AuthInv'
      BY <1>0, <1>a, <2>2, <2>3 DEF AuthInv
    <2>6. ComparedInv'
      BY <1>3, <2>2 DEF ComparedInv
    <2>7. WrongInv'
      <3>1. wrong < MaxFails
        BY <1>0
      <3> QED BY <2>1, <2>2, <3>1 DEF WrongInv
    <2> QED BY <1>0, <1>a, <1>1, <2>1, <2>2, <2>4, <2>5, <2>6, <2>7, <1>2, AuthStep
  <1>5. CASE ~RightAnswer(got)
    <2>1. dev' = AuthFail /\ recovery_send_nack /\ wrong' = wrong + 1
      BY <1>5 DEF CompareResponse
    <2>2. /\ dev' \in DevTypes /\ dev'.pc = "loop" /\ dev'.auth_state = "NONE"
          /\ dev'.challenge = dev.challenge /\ dev'.auth_fail_count = dev.auth_fail_count + 1
      <3>1. dev.auth_fail_count + 1 \in 0..MaxFails
        BY <1>0
      <3> QED BY <1>0, <2>1, <3>1, DevFailed
    <2>3. toCli' \in Seq(AnswerBytes)
      BY <1>0, <2>1, AnswerTypes, AppendProperties DEF recovery_send_nack
    <2>4. AuthInv' /\ ComparedInv' /\ WrongInv'
      BY <1>0, <1>a, <1>3, <2>1, <2>2 DEF AuthInv, ComparedInv, WrongInv
    <2> QED BY <1>0, <1>a, <1>2, <2>1, <2>2, <2>3, <2>4, AuthStep
  <1> QED BY <1>4, <1>5

(* The handlers that only look, and a refusal, change nothing but what was *)
(* answered; BOOT and RESET go on to the reset, an AUTH after a failure to *)
(* the back-off.                                                           *)
LEMMA QuietHandlers ==
    ASSUME IInv, dev.pc = "loop", UNCHANGED <<board, cl, histVars>>,
           NEW pc \in {"loop", "backoff", "reset"}, dev' = [dev EXCEPT !.pc = pc],
           slots' \in [Slots -> [1..NChunks -> Marks]],
           ctl' \in Slots \cup {"as found", "defaults"},
           toDev' \in Seq(LineUnits), toCli' \in Seq(AnswerBytes)
    PROVE  IInv'
  <1>1. dev \in DevTypes
    BY DEF IInv, TypeInv
  <1>2. /\ dev' \in DevTypes /\ dev'.auth_state = dev.auth_state
        /\ dev'.challenge = dev.challenge /\ dev'.auth_fail_count = dev.auth_fail_count
        /\ dev'.pc \in {"loop", "backoff", "reset"}
    BY <1>1 DEF DevTypes
  <1> QED BY <1>2, QuietStep

(* A device that did not change is one whose pc was set to what it was.    *)
LEMMA SamePc ==
    ASSUME dev \in DevTypes, dev.pc = "loop", dev' = dev
    PROVE  dev' = [dev EXCEPT !.pc = "loop"]
    BY DEF DevTypes

(* The contents a handler leaves in the slots.                             *)
LEMMA SlotTypes ==
    ASSUME slots \in [Slots -> [1..NChunks -> Marks]], NEW mark \in Marks
    PROVE  /\ Whole(mark) \in [1..NChunks -> Marks]
           /\ \A s \in Slots : [slots EXCEPT ![s] = Whole(mark)] \in [Slots -> [1..NChunks -> Marks]]
           /\ [s \in Slots |-> Whole(mark)] \in [Slots -> [1..NChunks -> Marks]]
           /\ \A s \in Slots, k \in 1..NChunks :
                 [slots EXCEPT ![s][k] = mark] \in [Slots -> [1..NChunks -> Marks]]
    BY DEF Whole

(* One packet, whatever it says.                                           *)
LEMMA DispatchStep ==
    ASSUME IInv, dev.pc = "loop", NEW p, Dispatch(p), UNCHANGED cl,
           p.slot \in Slots \cup {"bad", "A"}, p.chunk \in 0..NChunks,
           toDev' \in Seq(LineUnits)
    PROVE  IInv'
  <1>0. /\ dev \in DevTypes /\ toCli \in Seq(AnswerBytes)
        /\ slots \in [Slots -> [1..NChunks -> Marks]]
        /\ ctl \in Slots \cup {"as found", "defaults"}
    BY DEF IInv, TypeInv
  <1>a. /\ Append(toCli, ACK) \in Seq(AnswerBytes) /\ Append(toCli, NACK) \in Seq(AnswerBytes)
        /\ toCli \o <<ACK>> \in Seq(AnswerBytes) /\ toCli \o <<ACK, Rest>> \in Seq(AnswerBytes)
    <2>1. <<ACK>> \in Seq(AnswerBytes) /\ <<ACK, Rest>> \in Seq(AnswerBytes)
      BY AnswerTypes
    <2> QED BY <1>0, <2>1, AnswerTypes, AppendProperties, ConcatProperties
  <1>1. CASE Refuse
    BY <1>0, <1>a, <1>1, SamePc, QuietHandlers DEF Refuse, recovery_send_nack
  <1>2. CASE recovery_handle_ping \/ recovery_handle_info \/ recovery_handle_boot_log
    <2>1. /\ UNCHANGED <<board, dev, slots, ctl>> /\ UNCHANGED histVars
          /\ toCli' \in Seq(AnswerBytes)
      BY <1>a, <1>2 DEF recovery_handle_ping, recovery_handle_info, recovery_handle_boot_log,
                        Answer, devVars
    <2> QED BY <1>0, <2>1, SamePc, QuietHandlers
  <1>3. CASE recovery_handle_erase(p.slot) /\ p.slot \in Slots
    <2>1. /\ UNCHANGED <<board, dev, ctl>> /\ UNCHANGED histVars
          /\ toCli' \in Seq(AnswerBytes) /\ slots' = [slots EXCEPT ![p.slot] = Whole("erased")]
      BY <1>a, <1>3 DEF recovery_handle_erase, Answer
    <2>2. slots' \in [Slots -> [1..NChunks -> Marks]]
      BY <1>0, <1>3, <2>1, SlotTypes DEF Marks
    <2> QED BY <1>0, <2>1, <2>2, SamePc, QuietHandlers
  <1>4. CASE /\ dev' = [dev EXCEPT !.pc = "chunk", !.slot = p.slot, !.chunk = p.chunk, !.got = <<>>]
             /\ recovery_send_ack /\ UNCHANGED <<board, slots, ctl, histVars, done>>
             /\ p.slot \in Slots /\ p.chunk # 0 /\ dev.auth_state = "AUTHENTICATED"
    <2>1. <<>> \in Seq(LineUnits)
      BY EmptySeq
    <2>2. /\ dev' \in DevTypes /\ dev'.auth_state = dev.auth_state
          /\ dev'.challenge = dev.challenge /\ dev'.auth_fail_count = dev.auth_fail_count
          /\ dev'.pc = "chunk" /\ dev'.slot = p.slot /\ dev'.chunk = p.chunk
      BY <1>0, <1>4, <2>1 DEF DevTypes
    <2> QED BY <1>0, <1>a, <1>4, <2>2, QuietStep DEF recovery_send_ack
  <1>5. CASE Answer(<<ACK>>, "verify") /\ UNCHANGED devVars
    BY <1>0, <1>a, <1>5, SamePc, QuietHandlers DEF Answer, devVars
  <1>6. CASE recovery_handle_boot(p.slot) /\ p.slot \in Slots
    <2>1. /\ UNCHANGED <<board, slots>> /\ UNCHANGED histVars
          /\ toCli' \in Seq(AnswerBytes) /\ ctl' = p.slot /\ dev' = [dev EXCEPT !.pc = "reset"]
      BY <1>a, <1>6 DEF recovery_handle_boot, Answer
    <2> QED BY <1>0, <1>6, <2>1, QuietHandlers
  <1>7. CASE recovery_handle_factory_reset
    <2>1. /\ UNCHANGED <<board, dev>> /\ UNCHANGED histVars
          /\ toCli' \in Seq(AnswerBytes) /\ ctl' = "defaults"
          /\ slots' = [s \in Slots |-> Whole("erased")]
      BY <1>a, <1>7 DEF recovery_handle_factory_reset, Answer
    <2>2. slots' \in [Slots -> [1..NChunks -> Marks]]
      BY <1>0, <2>1, SlotTypes DEF Marks
    <2> QED BY <1>0, <2>1, <2>2, SamePc, QuietHandlers
  <1>8. CASE recovery_handle_reset
    <2>1. /\ UNCHANGED <<board, slots, ctl>> /\ UNCHANGED histVars
          /\ toCli' \in Seq(AnswerBytes) /\ dev' = [dev EXCEPT !.pc = "reset"]
      BY <1>a, <1>8 DEF recovery_handle_reset, Answer
    <2> QED BY <1>0, <2>1, QuietHandlers
  <1>9. CASE recovery_handle_auth
    BY <1>9, HandleAuth
  <1>10. CASE /\ dev' = [dev EXCEPT !.pc = "backoff"]
              /\ UNCHANGED <<board, slots, ctl, toCli, histVars, done>>
    BY <1>0, <1>10, QuietHandlers
  <1>11. Allowed("write") => dev.auth_state = "AUTHENTICATED"
    BY DEF Allowed, cmd_requires_auth, Protected
  <1>12. CASE recovery_handle_erase(p.slot)
    BY <1>1, <1>3, <1>12 DEF recovery_handle_erase
  <1>13. CASE recovery_handle_write(p.slot, p.chunk) /\ Allowed("write")
    BY <1>1, <1>4, <1>11, <1>13 DEF recovery_handle_write
  <1>14. CASE recovery_handle_verify(p.slot)
    BY <1>1, <1>5, <1>14 DEF recovery_handle_verify
  <1>15. CASE recovery_handle_boot(p.slot)
    BY <1>1, <1>6, <1>15 DEF recovery_handle_boot
  <1> QED BY <1>1, <1>2, <1>7, <1>8, <1>9, <1>10, <1>12, <1>13, <1>14, <1>15 DEF Dispatch

(* What is left on the line after the device took a unit.                  *)
LEMMA TakeUnit ==
    ASSUME IInv, toDev # <<>>
    PROVE  Head(toDev) \in LineUnits /\ Tail(toDev) \in Seq(LineUnits)
    BY HeadTailProperties DEF IInv, TypeInv

(* The loop of eos_recovery_loop(): one packet, taken off the line.        *)
LEMMA CommandLoopStep ==
    ASSUME IInv, CommandLoop
    PROVE  IInv'
  <1>1. /\ dev.pc = "loop" /\ toDev # <<>> /\ toDev' = Tail(toDev) /\ UNCHANGED cl
    BY DEF CommandLoop
  <1>2. PICK p \in Readings(Head(toDev)) : Dispatch(p)
    BY DEF CommandLoop
  <1>3. p.slot \in Slots \cup {"bad", "A"} /\ p.chunk \in 0..NChunks
    BY <1>1, TakeUnit, ReadingIsPacket
  <1> QED BY <1>1, <1>2, <1>3, TakeUnit, DispatchStep

(* The response arrives: another unit of it, or the comparison.            *)
LEMMA ReadResponseStep ==
    ASSUME IInv, ReadResponse
    PROVE  IInv'
  <1> DEFINE got == Append(dev.got, Head(toDev))
  <1>1. /\ dev.pc = "response" /\ toDev # <<>> /\ toDev' = Tail(toDev) /\ UNCHANGED cl
    BY DEF ReadResponse
  <1>2. dev \in DevTypes /\ toDev' \in Seq(LineUnits) /\ got \in Seq(LineUnits)
    <2>1. dev \in DevTypes
      BY DEF IInv, TypeInv
    <2>2. dev.got \in Seq(LineUnits)
      BY <2>1, DevFields
    <2> QED BY <1>1, <2>1, <2>2, TakeUnit, AppendProperties
  <1>3. CASE CompareResponse(got)
    <2> HIDE DEF got
    <2> QED BY <1>1, <1>2, <1>3, Compare
  <1>4. CASE /\ dev' = [dev EXCEPT !.got = got]
             /\ UNCHANGED <<board, slots, ctl, toCli, histVars, done>>
    <2>1. /\ dev' \in DevTypes /\ dev'.auth_state = dev.auth_state
          /\ dev'.challenge = dev.challenge /\ dev'.auth_fail_count = dev.auth_fail_count
          /\ dev'.pc = "response"
      <3> HIDE DEF got
      <3> QED BY <1>1, <1>2, <1>4 DEF DevTypes
    <2> QED BY <1>1, <1>2, <1>4, <2>1, QuietStep DEF IInv, TypeInv
  <1> QED BY <1>3, <1>4 DEF ReadResponse

(* A device that waits for a chunk knows where it goes.                    *)
LEMMA ChunkFields ==
    ASSUME IInv, dev.pc = "chunk"
    PROVE  /\ dev.auth_state = "AUTHENTICATED" /\ dev.slot \in Slots
           /\ dev.chunk \in 1..NChunks /\ dev.chunk # 0
  <1>1. dev.chunk \in 0..NChunks
    BY DevFields DEF IInv, TypeInv
  <1>2. dev.auth_state = "AUTHENTICATED" /\ dev.slot \in Slots /\ dev.chunk # 0
    BY DEF IInv, AuthInv
  <1>3. NChunks \in Nat
    BY RecoveryAssumption
  <1> QED BY <1>1, <1>2, <1>3

(* The chunk of a WRITE arrives: another unit of it, or it is programmed.  *)
LEMMA ReadChunkStep ==
    ASSUME IInv, ReadChunk
    PROVE  IInv'
  <1> DEFINE got == Append(dev.got, Head(toDev))
  <1>1. /\ dev.pc = "chunk" /\ toDev # <<>> /\ toDev' = Tail(toDev)
        /\ UNCHANGED <<board, ctl, cl, histVars>>
    BY DEF ReadChunk
  <1>2. dev \in DevTypes /\ toDev' \in Seq(LineUnits) /\ got \in Seq(LineUnits)
    <2>1. dev \in DevTypes
      BY DEF IInv, TypeInv
    <2>2. dev.got \in Seq(LineUnits)
      BY <2>1, DevFields
    <2> QED BY <1>1, <2>1, <2>2, TakeUnit, AppendProperties
  <1>3. /\ dev.auth_state = "AUTHENTICATED" /\ dev.slot \in Slots /\ dev.chunk \in 1..NChunks
        /\ slots \in [Slots -> [1..NChunks -> Marks]] /\ toCli \in Seq(AnswerBytes)
        /\ ctl \in Slots \cup {"as found", "defaults"}
    BY <1>1, ChunkFields DEF IInv, TypeInv
  <1>4. CASE /\ dev' = [dev EXCEPT !.got = got]
             /\ UNCHANGED <<slots, toCli, done>>
    <2>1. /\ dev' \in DevTypes /\ dev'.auth_state = dev.auth_state
          /\ dev'.challenge = dev.challenge /\ dev'.auth_fail_count = dev.auth_fail_count
          /\ dev'.pc = "chunk" /\ dev'.slot = dev.slot /\ dev'.chunk = dev.chunk
      <3> HIDE DEF got
      <3> QED BY <1>1, <1>2, <1>4 DEF DevTypes
    <2>2. dev'.chunk # 0 /\ dev'.slot \in Slots
      BY <1>1, <2>1, ChunkFields
    <2> QED BY <1>1, <1>2, <1>3, <1>4, <2>1, <2>2, QuietStep
  <1>5. CASE /\ dev' = [dev EXCEPT !.pc = "loop", !.got = <<>>]
             /\ slots' = [slots EXCEPT ![dev.slot][dev.chunk] = Programmed(@, dev.chunk, got)]
             /\ recovery_send_ack
    <2> HIDE DEF got
    <2>1. <<>> \in Seq(LineUnits)
      BY EmptySeq
    <2>2. /\ dev' \in DevTypes /\ dev'.auth_state = dev.auth_state
          /\ dev'.challenge = dev.challenge /\ dev'.auth_fail_count = dev.auth_fail_count
          /\ dev'.pc = "loop"
      BY <1>2, <1>5, <2>1 DEF DevTypes
    <2>3. Programmed(slots[dev.slot][dev.chunk], dev.chunk, got) \in Marks
      BY DEF Programmed, Marks
    <2>4. slots' = [slots EXCEPT ![dev.slot][dev.chunk] =
                       Programmed(slots[dev.slot][dev.chunk], dev.chunk, got)]
      BY <1>5
    <2>5. slots' \in [Slots -> [1..NChunks -> Marks]]
      BY <1>3, <2>3, <2>4, SlotTypes
    <2>6. toCli' \in Seq(AnswerBytes)
      BY <1>3, <1>5, AnswerTypes, AppendProperties DEF recovery_send_ack
    <2> QED BY <1>1, <1>2, <1>3, <2>2, <2>5, <2>6, QuietStep
  <1> QED BY <1>4, <1>5 DEF ReadChunk

(* A response that does not come gives the challenge up.                   *)
LEMMA ReceiveTimeoutStep ==
    ASSUME IInv, ReceiveTimeout
    PROVE  IInv'
  <1>1. /\ dev.pc \in {"response", "chunk"} /\ dev' = AfterTimeout /\ recovery_send_nack
        /\ UNCHANGED <<board, slots, ctl, toDev, cl, histVars>>
    BY DEF ReceiveTimeout
  <1>2. /\ dev \in DevTypes /\ toDev \in Seq(LineUnits) /\ <<>> \in Seq(LineUnits)
        /\ slots \in [Slots -> [1..NChunks -> Marks]] /\ toCli \in Seq(AnswerBytes)
        /\ ctl \in Slots \cup {"as found", "defaults"}
        /\ issued \in Nat /\ session \in 0..issued /\ compared \in Seq(Nat) /\ wrong \in Nat
    BY EmptySeq DEF IInv, TypeInv
  <1>3. toCli' \in Seq(AnswerBytes)
    BY <1>1, <1>2, AnswerTypes, AppendProperties DEF recovery_send_nack
  <1>4. CASE dev.pc = "response"
    <2>1. dev' = [dev EXCEPT !.pc = "loop", !.auth_state = "NONE", !.got = <<>>]
      BY <1>1, <1>4 DEF AfterTimeout
    <2>2. /\ dev' \in DevTypes /\ dev'.auth_state = "NONE" /\ dev'.pc = "loop"
          /\ dev'.challenge = dev.challenge /\ dev'.auth_fail_count = dev.auth_fail_count
      BY <1>2, <2>1 DEF DevTypes
    <2>3. AuthInv' /\ ComparedInv' /\ WrongInv'
      BY <1>1, <1>4, <2>2 DEF IInv, AuthInv, ComparedInv, OneAnswerPerChallenge, WrongInv, histVars
    <2> QED BY <1>1, <1>2, <1>3, <2>2, <2>3, AuthStep DEF histVars
  <1>5. CASE dev.pc = "chunk"
    <2>1. dev' = [dev EXCEPT !.pc = "loop", !.got = <<>>]
      BY <1>1, <1>5 DEF AfterTimeout
    <2>2. /\ dev' \in DevTypes /\ dev'.auth_state = dev.auth_state /\ dev'.pc = "loop"
          /\ dev'.challenge = dev.challenge /\ dev'.auth_fail_count = dev.auth_fail_count
      BY <1>2, <2>1 DEF DevTypes
    <2> QED BY <1>1, <1>2, <1>3, <2>2, QuietStep
  <1> QED BY <1>1, <1>4, <1>5

(* A flash error, while a command is carried out or a chunk programmed.    *)
LEMMA FlashErrorStep ==
    ASSUME IInv, FlashError
    PROVE  IInv'
  <1>1. /\ toDev # <<>> /\ toDev' = Tail(toDev) /\ recovery_send_nack
        /\ UNCHANGED <<board, cl, histVars>>
    BY DEF FlashError
  <1>2. /\ dev \in DevTypes /\ toDev' \in Seq(LineUnits) /\ <<>> \in Seq(LineUnits)
        /\ slots \in [Slots -> [1..NChunks -> Marks]] /\ toCli \in Seq(AnswerBytes)
        /\ ctl \in Slots \cup {"as found", "defaults"}
    BY <1>1, EmptySeq, TakeUnit DEF IInv, TypeInv
  <1>3. toCli' \in Seq(AnswerBytes)
    BY <1>1, <1>2, AnswerTypes, AppendProperties DEF recovery_send_nack
  <1>4. CASE /\ dev.pc = "loop" /\ UNCHANGED dev
             /\ \E p \in Readings(Head(toDev)) : CommandFails(p)
    <2>1. /\ slots' \in [Slots -> [1..NChunks -> Marks]]
          /\ ctl' \in Slots \cup {"as found", "defaults"}
      <3>1. PICK p \in Readings(Head(toDev)) : CommandFails(p)
        BY <1>4
      <3>2. CASE p.slot \in Slots /\ EraseFails(p.slot)
        BY <1>2, <3>2, SlotTypes DEF EraseFails, Marks
      <3>3. CASE FactoryFails
        <4>1. \A b \in BOOLEAN : Whole(IF b THEN "other" ELSE "erased") \in [1..NChunks -> Marks]
          BY DEF Whole, Marks
        <4> QED BY <1>2, <3>3, <4>1 DEF FactoryFails
      <3>4. CASE UNCHANGED <<slots, ctl>>
        BY <1>2, <3>4
      <3> QED BY <3>1, <3>2, <3>3, <3>4 DEF CommandFails
    <2> QED BY <1>1, <1>2, <1>3, <1>4, <2>1, SamePc, QuietHandlers
  <1>5. CASE /\ dev.pc = "chunk"
             /\ slots' = [slots EXCEPT ![dev.slot][dev.chunk] = "other"]
             /\ dev' = [dev EXCEPT !.pc = "loop", !.got = <<>>]
             /\ UNCHANGED ctl
    <2>1. dev.slot \in Slots /\ dev.chunk \in 1..NChunks
      BY <1>5, ChunkFields
    <2>2. slots' \in [Slots -> [1..NChunks -> Marks]]
      BY <1>2, <1>5, <2>1, SlotTypes DEF Marks
    <2>3. /\ dev' \in DevTypes /\ dev'.auth_state = dev.auth_state /\ dev'.pc = "loop"
          /\ dev'.challenge = dev.challenge /\ dev'.auth_fail_count = dev.auth_fail_count
      BY <1>2, <1>5 DEF DevTypes
    <2> QED BY <1>1, <1>2, <1>3, <1>5, <2>2, <2>3, QuietStep
  <1> QED BY <1>4, <1>5 DEF FlashError

(* A new session: the challenges issued so far are worth nothing.          *)
LEMMA EnterStep ==
    ASSUME IInv, eos_recovery_enter
    PROVE  IInv'
  <1>1. /\ dev' = Idle /\ session' = issued /\ wrong' = 0
        /\ UNCHANGED <<board, toCli, cl, issued, signed, compared>>
    BY DEF eos_recovery_enter
  <1>2. toDev' \in Seq(LineUnits)
    <2>1. toDev \in Seq(LineUnits) /\ Len(toDev) \in Nat
      BY LenProperties DEF IInv, TypeInv
    <2>2. PICK n \in 0..Len(toDev) : toDev' = SubSeq(toDev, n + 1, Len(toDev))
      BY DEF eos_recovery_enter
    <2> QED BY <2>1, <2>2, DropType
  <1>3. /\ dev' \in DevTypes /\ dev'.auth_state = "NONE" /\ dev'.pc = "loop"
        /\ dev'.challenge = 0 /\ dev'.auth_fail_count = 0
    BY <1>1, RecoveryAssumption, EmptySeq DEF Idle, DevTypes
  <1>4. issued \in Nat /\ compared \in Seq(Nat) /\ toCli \in Seq(AnswerBytes)
    BY DEF IInv, TypeInv
  <1>5. AuthInv' /\ ComparedInv' /\ WrongInv'
    BY <1>1, <1>3, <1>4 DEF IInv, AuthInv, ComparedInv, OneAnswerPerChallenge, WrongInv
  <1>6. /\ slots' \in [Slots -> [1..NChunks -> Marks]]
        /\ ctl' \in Slots \cup {"as found", "defaults"}
    <2>1. /\ slots \in [Slots -> [1..NChunks -> Marks]]
          /\ ctl \in Slots \cup {"as found", "defaults"}
      BY DEF IInv, TypeInv
    <2>2. \A m \in Marks : Whole(m) \in [1..NChunks -> Marks]
      BY DEF Whole
    <2>3. CASE UNCHANGED <<slots, ctl>>
      BY <2>1, <2>3
    <2>4. CASE AppFactoryReset
      <3> HIDE DEF Whole
      <3> QED BY <2>1, <2>2, <2>4 DEF AppFactoryReset, Marks
    <2> QED BY <2>3, <2>4 DEF eos_recovery_enter
  <1>7. LineUnits' = LineUnits
    BY <1>1 DEF LineUnits, DigestUnitsOf
  <1>8. DevTypes' = DevTypes
    BY <1>7 DEF DevTypes
  <1>9. ClientTypes' = ClientTypes /\ AnswerBytes' = AnswerBytes
    BY DEF ClientTypes, RunningClients, AnswerBytes
  <1>10. /\ dev' \in DevTypes' /\ toDev' \in Seq(LineUnits')
         /\ toCli' \in Seq(AnswerBytes') /\ cl' \in ClientTypes'
    BY <1>1, <1>2, <1>3, <1>4, <1>7, <1>8, <1>9 DEF IInv, TypeInv
  <1>11. /\ board' \in [rng : BOOLEAN, otp : {"secret", "unusable"}]
         /\ issued' \in Nat /\ signed' \subseteq Nat
         /\ compared' \in Seq(Nat) /\ wrong' \in Nat
    BY <1>1 DEF IInv, TypeInv
  <1>12. session' \in 0..issued'
    BY <1>1, <1>4
  <1>13. Marks' = Marks
    BY DEF Marks
  <1>14. TypeInv'
    BY <1>6, <1>10, <1>11, <1>12, <1>13 DEF TypeInv
  <1> QED BY <1>5, <1>14 DEF IInv

-----------------------------------------------------------------------------
(* The client and the line                                                 *)

(* Sending keeps the line's type.                                          *)
LEMMA SendType ==
    ASSUME IInv, NEW units \in Seq(LineUnits), toDev' = toDev \o units, signed' = signed
    PROVE  toDev' \in Seq(LineUnits)'
  <1>1. LineUnits' = LineUnits
    BY DEF LineUnits, DigestUnitsOf
  <1> QED BY <1>1, ConcatProperties DEF IInv, TypeInv

(* A step that leaves the answered challenges alone leaves the units.      *)
LEMMA SameUnits ==
    ASSUME signed' = signed
    PROVE  LineUnits' = LineUnits
    BY DEF LineUnits, DigestUnitsOf

(* The types of a running client's fields.                                 *)
LEMMA ClientFields ==
    ASSUME IInv, cl.pc # "off"
    PROVE  /\ cl \in RunningClients
           /\ cl.goal \in Goals /\ cl.right \in BOOLEAN
           /\ cl.chal \in Nat /\ cl.off \in 0..NChunks
  <1>1. cl \in RunningClients
    <2>1. NoClient.pc = "off"
      BY DEF NoClient
    <2> QED BY <2>1 DEF IInv, TypeInv, ClientTypes
  <1> QED BY <1>1 DEF RunningClients

(* The client opens the port and sends its first packet.                   *)
LEMMA ClientStartStep ==
    ASSUME IInv, ClientStart
    PROVE  IInv'
  <1>1. /\ toCli' = <<>> /\ UNCHANGED <<devVars, histVars>>
    BY DEF ClientStart
  <1>2. PICK goal \in Goals, right \in BOOLEAN :
          /\ cl' = [pc |-> IF NeedsAuth(goal) THEN "challenge" ELSE FirstCommand(goal),
                    goal |-> goal, right |-> right, chal |-> 0, off |-> 0]
          /\ Send(<<Packet(IF NeedsAuth(goal) THEN "auth" ELSE goal, "A", 0)>>)
    BY DEF ClientStart
  <1>3. 0 \in 0..NChunks
    BY RecoveryAssumption
  <1>4. cl' \in ClientTypes
    <2>1. (IF NeedsAuth(goal) THEN "challenge" ELSE FirstCommand(goal)) \in {"challenge", "erase"} \cup Goals
      BY DEF FirstCommand
    <2> QED BY <1>2, <1>3, <2>1 DEF ClientTypes, RunningClients
  <1>5. toDev' \in Seq(LineUnits)'
    <2>1. (IF NeedsAuth(goal) THEN "auth" ELSE goal) \in Commands \cup {"other"} \cup Goals
      BY DEF Commands
    <2> QED BY <1>1, <1>2, <1>3, <2>1, PacketIsUnit, SendType DEF Send, histVars
  <1>6. toCli' \in Seq(AnswerBytes)
    BY <1>1, EmptySeq
  <1>7. signed \subseteq signed' /\ signed' \subseteq Nat
    BY <1>1 DEF histVars, IInv, TypeInv
  <1> QED BY <1>1, <1>4, <1>5, <1>6, <1>7, OutsideStep DEF histVars

(* What the client has read is gone, the rest stays.                       *)
LEMMA AnswersLeft ==
    ASSUME IInv
    PROVE  SubSeq(toCli, Wanted + 1, Len(toCli)) \in Seq(AnswerBytes)
  <1>1. Wanted \in Nat
    BY DEF Wanted
  <1> QED BY <1>1, DropType DEF IInv, TypeInv

(* The client signs the challenge it read: from here on it counts as       *)
(* answered, and only now can its right digest be on the line.             *)
LEMMA ClientRespondsStep ==
    ASSUME IInv, ClientResponds
    PROVE  IInv'
  <1>1. /\ cl.pc = "challenge" /\ Len(toCli) >= Wanted
        /\ toCli' = SubSeq(toCli, Wanted + 1, Len(toCli))
        /\ UNCHANGED <<devVars, issued, session, compared, wrong>>
    BY DEF ClientResponds
  <1>2. toCli' \in Seq(AnswerBytes)
    BY <1>1, AnswersLeft
  <1>3. signed \subseteq Nat
    BY DEF IInv, TypeInv
  <1>4. ASSUME NEW c \in {toCli[2][2]},
               cl' = [cl EXCEPT !.pc = "verdict", !.chal = c],
               signed' = IF cl.right THEN signed \cup {c} ELSE signed,
               Send((IF Client = "protocol" THEN <<Packet("auth", "A", 0)>> ELSE <<>>)
                    \o Digest(c, cl.right))
        PROVE  IInv'
    <2>1. c \in Nat
      <3>1. Wanted = 2
        BY <1>1 DEF Wanted
      <3>2. toCli \in Seq(AnswerBytes) /\ Len(toCli) \in Nat
        BY LenProperties DEF IInv, TypeInv
      <3>3. 2 \in 1..Len(toCli)
        BY <1>1, <3>1, <3>2
      <3>4. toCli[2] \in AnswerBytes
        BY <3>2, <3>3, ElementOfSeq
      <3> QED BY <1>4, <3>4 DEF AnswerBytes
    <2>2. cl' \in ClientTypes
      BY <1>1, <1>4, <2>1, ClientFields DEF ClientTypes, RunningClients
    <2>3. signed \subseteq signed' /\ signed' \subseteq Nat
      BY <1>3, <1>4, <2>1
    <2>4. LineUnits \subseteq LineUnits'
      BY <2>3 DEF LineUnits, DigestUnitsOf
    <2>5. toDev \in Seq(LineUnits')
      BY <2>4, SeqMonotonic DEF IInv, TypeInv
    <2>6. (IF Client = "protocol" THEN <<Packet("auth", "A", 0)>> ELSE <<>>) \in Seq(LineUnits')
      <3>1. "auth" \in Commands \cup {"other"} \cup Goals /\ 0 \in 0..NChunks
        BY RecoveryAssumption DEF Commands
      <3>2. Packet("auth", "A", 0) \in LineUnits'
        BY <2>4, <3>1, PacketIsUnit
      <3>3. <<Packet("auth", "A", 0)>> \in Seq(LineUnits') /\ <<>> \in Seq(LineUnits')
        BY <3>2, EmptySeq
      <3> QED BY <3>3
    <2>7. Digest(c, cl.right) \in Seq(LineUnits')
      <3>1. cl.right \in BOOLEAN /\ (cl.right => c \in signed')
        BY <1>1, <1>4, ClientFields
      <3>2. Digest(c, cl.right) \in Seq(PacketUnits \cup DataUnits \cup DigestUnitsOf(signed'))
        BY <2>1, <3>1, DigestIsUnits
      <3>3. LineUnits' = PacketUnits \cup DataUnits \cup DigestUnitsOf(signed')
        BY DEF LineUnits, DigestUnitsOf
      <3> QED BY <3>2, <3>3
    <2>8. toDev' \in Seq(LineUnits')
      BY <1>4, <2>5, <2>6, <2>7, ConcatProperties DEF Send
    <2> QED BY <1>1, <1>2, <2>2, <2>3, <2>8, OutsideStep
  <1>5. CASE Exit("failed") /\ UNCHANGED <<toDev, signed>>
    <2>1. cl' \in ClientTypes
      BY <1>5 DEF Exit, ClientTypes
    <2>2. toDev' \in Seq(LineUnits)'
      BY <1>5, SameUnits DEF IInv, TypeInv
    <2> QED BY <1>1, <1>2, <1>3, <1>5, <2>1, <2>2, OutsideStep
  <1> QED BY <1>4, <1>5 DEF ClientResponds

(* The client reads an answer and goes on or gives up.                     *)
LEMMA ClientReadsAckStep ==
    ASSUME IInv, ClientReadsAck
    PROVE  IInv'
  <1>1. /\ toCli' = SubSeq(toCli, Wanted + 1, Len(toCli)) /\ UNCHANGED <<devVars, histVars>>
    BY DEF ClientReadsAck
  <1>2. /\ toCli' \in Seq(AnswerBytes) /\ signed' = signed /\ signed \subseteq Nat
        /\ toDev \in Seq(LineUnits)
    BY <1>1, AnswersLeft DEF histVars, IInv, TypeInv
  <1>3. SUFFICES cl' \in ClientTypes /\ toDev' \in Seq(LineUnits)'
    BY <1>1, <1>2, OutsideStep DEF histVars
  <1>4. CASE cl' = NoClient /\ UNCHANGED toDev
    BY <1>2, <1>4, SameUnits DEF ClientTypes
  <1>5. /\ cl \in RunningClients /\ cl.goal \in Goals /\ cl.off \in 0..NChunks /\ NChunks \in Nat
        /\ 0 \in 0..NChunks /\ 1 \in 0..NChunks
        /\ {"write", "verify", "erase"} \subseteq Commands
    BY ClientFields, RecoveryAssumption DEF ClientReadsAck, Commands, Protected
  <1>6. CASE /\ cl' = [cl EXCEPT !.pc = FirstCommand(cl.goal)]
             /\ Send(<<Packet(FirstCommand(cl.goal), "A", 0)>>)
    <2>1. FirstCommand(cl.goal) \in Goals \cup {"erase"}
      BY <1>5 DEF FirstCommand
    <2>2. cl' \in ClientTypes
      BY <1>5, <1>6, <2>1 DEF ClientTypes, RunningClients
    <2>3. <<Packet(FirstCommand(cl.goal), "A", 0)>> \in Seq(LineUnits)
      BY <1>5, <2>1, PacketIsUnit
    <2> QED BY <1>2, <1>6, <2>2, <2>3, SendType DEF Send
  <1>7. CASE /\ cl' = [cl EXCEPT !.pc = "ready", !.off = 1] /\ Send(<<Packet("write", "A", 1)>>)
    <2>1. cl' \in ClientTypes
      BY <1>5, <1>7 DEF ClientTypes, RunningClients
    <2>2. <<Packet("write", "A", 1)>> \in Seq(LineUnits)
      BY <1>5, PacketIsUnit
    <2> QED BY <1>2, <1>7, <2>1, <2>2, SendType DEF Send
  <1>8. CASE cl' = [cl EXCEPT !.pc = "written"] /\ Send(Chunk(cl.off))
    <2>1. cl' \in ClientTypes
      BY <1>5, <1>8 DEF ClientTypes, RunningClients
    <2> QED BY <1>2, <1>5, <1>8, <2>1, ChunkIsUnits, SendType DEF Send
  <1>9. CASE /\ cl.off < NChunks /\ cl' = [cl EXCEPT !.pc = "ready", !.off = @ + 1]
             /\ Send(<<Packet("write", "A", cl.off + 1)>>)
    <2>1. cl.off + 1 \in 0..NChunks
      BY <1>5, <1>9
    <2>2. cl' \in ClientTypes
      BY <1>5, <1>9, <2>1 DEF ClientTypes, RunningClients
    <2>3. <<Packet("write", "A", cl.off + 1)>> \in Seq(LineUnits)
      BY <1>5, <2>1, PacketIsUnit
    <2> QED BY <1>2, <1>9, <2>2, <2>3, SendType DEF Send
  <1>10. CASE cl' = [cl EXCEPT !.pc = "verify"] /\ Send(<<Packet("verify", "A", 0)>>)
    <2>1. cl' \in ClientTypes
      BY <1>5, <1>10 DEF ClientTypes, RunningClients
    <2>2. <<Packet("verify", "A", 0)>> \in Seq(LineUnits)
      BY <1>5, PacketIsUnit
    <2> QED BY <1>2, <1>10, <2>1, <2>2, SendType DEF Send
  <1> QED BY <1>4, <1>6, <1>7, <1>8, <1>9, <1>10 DEF ClientReadsAck, OnAck, Exit

(* The client stops waiting.                                               *)
LEMMA ClientTimeoutStep ==
    ASSUME IInv, ClientTimeout
    PROVE  IInv'
  <1>1. /\ toCli' = <<>> /\ cl' = NoClient /\ UNCHANGED <<devVars, toDev, histVars>>
    BY DEF ClientTimeout, Exit
  <1>2. toDev' \in Seq(LineUnits)' /\ signed' = signed /\ signed \subseteq Nat
    BY <1>1, SameUnits DEF histVars, IInv, TypeInv
  <1>3. toCli' \in Seq(AnswerBytes) /\ cl' \in ClientTypes
    BY <1>1, EmptySeq DEF ClientTypes
  <1> QED BY <1>1, <1>2, <1>3, OutsideStep DEF histVars

(* A lost or damaged unit and a lost answer.                               *)
LEMMA LineStep ==
    ASSUME IInv, Line
    PROVE  IInv'
  <1>1. /\ UNCHANGED <<devVars, cl, histVars>>
        /\ toDev \in Seq(LineUnits) /\ toCli \in Seq(AnswerBytes)
        /\ signed' = signed /\ signed \subseteq Nat /\ cl' \in ClientTypes
    BY DEF Line, LoseUnit, DamageUnit, LoseAnswer, histVars, IInv, TypeInv
  <1>2. SUFFICES toDev' \in Seq(LineUnits) /\ toCli' \in Seq(AnswerBytes)
    BY <1>1, SameUnits, OutsideStep DEF histVars
  <1>3. CASE LoseUnit
    BY <1>1, <1>3, RemoveAtType DEF LoseUnit
  <1>4. CASE DamageUnit
    <2>1. PICK i \in DOMAIN toDev : toDev' = [toDev EXCEPT ![i] = DataUnit(0, 0)]
      BY <1>4 DEF DamageUnit
    <2>2. DataUnit(0, 0) \in LineUnits
      BY RecoveryAssumption DEF DataUnit, LineUnits, DataUnits
    <2>3. toDev' \in Seq(LineUnits)
      <3>1. toDev \in [1..Len(toDev) -> LineUnits] /\ Len(toDev) \in Nat
        BY <1>1, LenProperties
      <3>2. toDev' \in [1..Len(toDev) -> LineUnits]
        BY <2>1, <2>2, <3>1
      <3> QED BY <3>1, <3>2, SeqDef
    <2> QED BY <1>1, <1>4, <2>3 DEF DamageUnit
  <1>5. CASE LoseAnswer
    BY <1>1, <1>5, HeadTailProperties DEF LoseAnswer
  <1> QED BY <1>3, <1>4, <1>5 DEF Line

-----------------------------------------------------------------------------
(* The invariant                                                           *)

(* It holds when the device enters recovery for the first time.            *)
LEMMA InitInv == Init => IInv
  <1> SUFFICES ASSUME Init PROVE IInv
    OBVIOUS
  <1>0. /\ dev = Idle
        /\ board \in [rng : BOOLEAN, otp : {"secret", "unusable"}]
        /\ ctl = "as found" /\ cl = NoClient
    BY Zenon DEF Init
  <1>a. slots = [s \in Slots |-> [k \in 1..NChunks |-> "old"]]
    BY Zenon DEF Init
  <1>b. toDev = <<>> /\ toCli = <<>> /\ compared = <<>>
    BY Zenon DEF Init
  <1>c. issued = 0 /\ session = 0 /\ signed = {} /\ wrong = 0
    BY Zenon DEF Init
  <1>1. /\ dev \in DevTypes /\ dev.pc = "loop" /\ dev.auth_state = "NONE"
        /\ dev.challenge = 0 /\ dev.auth_fail_count = 0
    <2>1. 0 \in 0..MaxFails /\ 0 \in 0..NChunks /\ <<>> \in Seq(LineUnits)
      BY EmptySeq, RecoveryAssumption
    <2> QED BY <1>0, <2>1 DEF Idle, DevTypes
  <1>2. slots \in [Slots -> [1..NChunks -> Marks]]
    BY <1>a DEF Marks
  <1>3. /\ toDev \in Seq(LineUnits) /\ toCli \in Seq(AnswerBytes) /\ compared \in Seq(Nat)
    BY <1>b, EmptySeq
  <1>4. TypeInv
    <2>1. issued \in Nat /\ session \in 0..issued /\ signed \subseteq Nat /\ wrong \in Nat
      BY <1>c
    <2>2. cl \in ClientTypes /\ ctl \in Slots \cup {"as found", "defaults"}
      BY <1>0 DEF ClientTypes
    <2> QED BY <1>0, <1>1, <1>2, <1>3, <2>1, <2>2 DEF TypeInv
  <1>5. AuthInv /\ WrongInv
    BY <1>1, <1>c DEF AuthInv, WrongInv
  <1>6. ComparedInv
    <2>1. DOMAIN compared = {}
      BY <1>b
    <2> QED BY <2>1 DEF ComparedInv, OneAnswerPerChallenge
  <1> QED BY <1>4, <1>5, <1>6 DEF IInv

(* Every step of the device, the client and the line keeps it.             *)
LEMMA NextInv == IInv /\ [Next]_vars => IInv'
  <1> SUFFICES ASSUME IInv, [Next]_vars PROVE IInv'
    OBVIOUS
  <1>1. CASE CommandLoop
    BY <1>1, CommandLoopStep
  <1>2. CASE Backoff
    BY <1>2, HandleAuth DEF Backoff, IInv, TypeInv
  <1>3. CASE ReadResponse
    BY <1>3, ReadResponseStep
  <1>4. CASE ReadChunk
    BY <1>4, ReadChunkStep
  <1>5. CASE ReceiveTimeout
    BY <1>5, ReceiveTimeoutStep
  <1>6. CASE eos_recovery_enter
    BY <1>6, EnterStep
  <1>7. CASE FlashError
    BY <1>7, FlashErrorStep
  <1>8. CASE ClientStart
    BY <1>8, ClientStartStep
  <1>9. CASE ClientResponds
    BY <1>9, ClientRespondsStep
  <1>10. CASE ClientReadsAck
    BY <1>10, ClientReadsAckStep
  <1>11. CASE ClientTimeout
    BY <1>11, ClientTimeoutStep
  <1>12. CASE Line
    BY <1>12, LineStep
  <1>13. CASE UNCHANGED vars
    <2>1. /\ UNCHANGED <<devVars, issued, session, compared, wrong>>
          /\ signed' = signed /\ toDev' = toDev /\ toCli' = toCli /\ cl' = cl
      BY <1>13 DEF vars, histVars
    <2>2. toDev' \in Seq(LineUnits)'
      BY <2>1, SameUnits DEF IInv, TypeInv
    <2> QED BY <2>1, <2>2, OutsideStep DEF IInv, TypeInv
  <1> QED BY <1>1, <1>2, <1>3, <1>4, <1>5, <1>6, <1>7, <1>8, <1>9, <1>10, <1>11, <1>12, <1>13
          DEF Next, Device, ClientProgram

(* The invariant of the recovery session: types, what a challenge is worth *)
(* in each state of recovery_handle_auth(), and what was compared so far.  *)
THEOREM InvariantHolds == Spec => []IInv
  BY InitInv, NextInv, PTL DEF Spec

(* Type correctness of the session, and that the device holds a live       *)
(* challenge only of its own session and waits for a chunk only after the  *)
(* right answer.                                                           *)
THEOREM TypeCorrect == Spec => []TypeOK
  <1>1. IInv => TypeOK
    <2> SUFFICES ASSUME IInv PROVE TypeOK
      OBVIOUS
    <2>1. dev.challenge \in 0..issued
      <3>1. dev.challenge \in Nat /\ dev.challenge <= issued /\ issued \in Nat
        BY DevFields DEF IInv, TypeInv, AuthInv
      <3> QED BY <3>1
    <2>2. \A s \in Slots, k \in 1..NChunks : slots[s][k] \in {"old", "erased", "sent", "other"}
      <3>1. slots \in [Slots -> [1..NChunks -> Marks]]
        BY DEF IInv, TypeInv
      <3>2. \A s \in Slots : slots[s] \in [1..NChunks -> Marks]
        BY <3>1
      <3> QED BY <3>2 DEF Marks
    <2>3. dev \in DevTypes
      BY DEF IInv, TypeInv
    <2> QED BY <2>1, <2>2, <2>3, DevFields DEF TypeOK, IInv, TypeInv, AuthInv
  <1> QED BY <1>1, InvariantHolds, PTL

(* recovery_handle_auth() compares at most one response with a challenge,  *)
(* whatever times out, fails, is repeated or arrives late in between.      *)
THEOREM OneComparison == Spec => []OneAnswerPerChallenge
  <1>1. IInv => OneAnswerPerChallenge
    BY DEF IInv, ComparedInv
  <1> QED BY <1>1, InvariantHolds, PTL

(* A session of the device hears at most RCVR_MAX_AUTH_FAILS wrong         *)
(* answers, and fewer before the right one.                                *)
THEOREM GuessesAreBounded == Spec => []WrongAnswersBounded
  <1>1. IInv => WrongAnswersBounded
    <2> SUFFICES ASSUME IInv PROVE WrongAnswersBounded
      OBVIOUS
    <2>1. /\ dev.auth_fail_count \in 0..MaxFails /\ wrong \in Nat /\ MaxFails \in Nat
      BY DevFields, RecoveryAssumption DEF IInv, TypeInv
    <2>2. CASE dev.auth_state = "AUTHENTICATED"
      BY <2>1, <2>2 DEF IInv, WrongInv, WrongAnswersBounded
    <2>3. CASE dev.auth_state # "AUTHENTICATED"
      BY <2>1, <2>3 DEF IInv, WrongInv, WrongAnswersBounded
    <2> QED BY <2>2, <2>3
  <1> QED BY <1>1, InvariantHolds, PTL

(* During a session only what cmd_requires_auth() lets through changes     *)
(* flash or the boot control block; the entry changes the block last.      *)
LEMMA ChangesNeedAuth ==
    ASSUME IInv, Next, slots' # slots \/ ctl' # ctl
    PROVE  \/ dev.auth_state = "AUTHENTICATED"
           \/ /\ dev.pc = "reset"
              /\ ctl' # ctl => \A s \in Slots : slots'[s] = Whole("erased")
  <1>1. \A cmd \in Protected : Allowed(cmd) => dev.auth_state = "AUTHENTICATED"
    BY DEF Allowed, cmd_requires_auth
  <1>2. {"erase", "boot", "factory"} \subseteq Protected
    BY DEF Protected
  <1>3. CASE CommandLoop
    <2>1. PICK p \in Readings(Head(toDev)) : Dispatch(p)
      BY <1>3 DEF CommandLoop
    <2>2. ~(UNCHANGED <<slots, ctl>>)
      OBVIOUS
    <2>3. p.cmd \in {"erase", "boot", "factory"} /\ Allowed(p.cmd)
      BY <2>1, <2>2 DEF Dispatch, Refuse, recovery_handle_ping, recovery_handle_info,
            recovery_handle_boot_log, recovery_handle_write, recovery_handle_verify,
            recovery_handle_reset, recovery_handle_auth, devVars
    <2> QED BY <1>1, <1>2, <2>3
  <1>4. CASE ReadChunk \/ (FlashError /\ dev.pc = "chunk")
    BY <1>4 DEF ReadChunk, IInv, AuthInv
  <1>5. CASE FlashError /\ dev.pc # "chunk"
    <2>1. PICK p \in Readings(Head(toDev)) : CommandFails(p)
      BY <1>5 DEF FlashError
    <2>2. p.cmd \in {"erase", "boot", "factory"} /\ Allowed(p.cmd)
      BY <2>1 DEF CommandFails
    <2> QED BY <1>1, <1>2, <2>2
  <1>6. CASE Backoff \/ ReadResponse \/ ReceiveTimeout
    BY <1>6 DEF Backoff, recovery_handle_auth, ReadResponse, CompareResponse, ReceiveTimeout
  <1>7. CASE ClientProgram \/ Line
    BY <1>7 DEF ClientProgram, ClientStart, ClientResponds, ClientReadsAck, ClientTimeout,
                Line, LoseUnit, DamageUnit, LoseAnswer, devVars
  <1>8. CASE eos_recovery_enter
    <2> HIDE DEF Whole
    <2>1. dev.pc = "reset" /\ AppFactoryReset
      BY <1>8 DEF eos_recovery_enter
    <2>2. ctl' # ctl => slots' = [s \in Slots |-> Whole("erased")]
      BY <2>1 DEF AppFactoryReset
    <2> QED BY <2>1, <2>2
  <1> QED BY <1>3, <1>4, <1>5, <1>6, <1>7, <1>8 DEF Next, Device

(* During a session flash and the boot control block change only on a      *)
(* provisioned board and only after a client that knows the secret         *)
(* answered the challenge of this session.  The entry carries out the      *)
(* application's factory reset, and restores the defaults only once every  *)
(* slot is erased.                                                         *)
THEOREM AuthorisedChanges == Spec => ChangesAreAuthorised
  <1>1. IInv /\ [Next]_vars =>
          [slots' # slots \/ ctl' # ctl =>
              \/ /\ board.rng /\ board.otp = "secret"
                 /\ dev.challenge > session /\ dev.challenge \in signed
              \/ /\ dev.pc = "reset"
                 /\ ctl' # ctl => \A s \in Slots : slots'[s] = Whole("erased")]_vars
    BY ChangesNeedAuth DEF IInv, AuthInv
  <1> QED BY <1>1, InvariantHolds, PTL DEF Spec, ChangesAreAuthorised

-----------------------------------------------------------------------------
(* The client's run: its invariant                                         *)

\* The run whose report counts: nothing went wrong since the client started, in
\* front of an idle device.
Undisturbed == said.idle /\ trouble = said.trouble /\ Client = "protocol"

\* The next answer is no ACK: the client will give up.
Refused == toCli # <<>> /\ Head(toCli) # ACK

\* Nothing is under way and the client will read no ACK any more.
Unanswered == /\ toDev = <<>> /\ toCli = <<>>
              /\ dev.pc \in {"loop", "reset", "response"}

\* The client's packet is all that is under way; n bytes are the answer to it.
Asked(cmd, k) == /\ toDev = <<Packet(cmd, "A", k)>> /\ toCli = <<>>
                 /\ dev.pc \in {"loop", "reset"}
Acked(n) == DeviceIdle /\ Len(toCli) = n /\ Head(toCli) = ACK

\* The first n chunks of the slot are written, the others are erased, and no entry
\* that could erase them all is to come before the client's next command.
Filled(n) ==
    /\ "A" \in Slots /\ dev.pc # "reset"
    /\ \A k \in 1..NChunks : slots["A"][k] = IF k <= n THEN "sent" ELSE "erased"

\* Where the exchange is, by what the client waits for.
AwaitsChallenge ==
    \/ Asked("auth", 0)
    \/ toDev = <<>> /\ toCli = <<>> /\ dev.pc = "backoff"
    \/ Acked(2) /\ dev.pc = "loop" /\ dev.auth_state = "CHALLENGE_SENT"

AwaitsVerdict ==
    \/ /\ toCli = <<>> /\ dev.auth_state = "CHALLENGE_SENT"
       /\ \/ /\ dev.pc = "loop" /\ Len(toDev) = DigestUnits + 1
             /\ Head(toDev) = Packet("auth", "A", 0)
          \/ dev.pc = "backoff" /\ Len(toDev) = DigestUnits
          \/ /\ dev.pc = "response" /\ toDev # <<>>
             /\ Len(dev.got) + Len(toDev) = DigestUnits
    \/ Acked(1)

AwaitsErased == \/ Asked("erase", 0)
                \/ Acked(1) /\ "erase" \in done /\ Filled(0)

AwaitsReady ==
    /\ cl.off \in 1..NChunks /\ "erase" \in done /\ Filled(cl.off - 1)
    /\ \/ Asked("write", cl.off)
       \/ /\ toDev = <<>> /\ toCli = <<ACK>>
          /\ dev.pc = "chunk" /\ dev.slot = "A" /\ dev.chunk = cl.off /\ dev.got = <<>>

AwaitsWritten ==
    /\ cl.off \in 1..NChunks /\ "erase" \in done
    /\ \/ /\ toDev # <<>> /\ toCli = <<>> /\ Filled(cl.off - 1)
          /\ dev.pc = "chunk" /\ dev.slot = "A" /\ dev.chunk = cl.off
          /\ dev.got \o toDev = Chunk(cl.off)
       \/ Acked(1) /\ "write" \in done /\ Filled(cl.off)

AwaitsVerified ==
    /\ {"erase", "write"} \subseteq done /\ Filled(NChunks)
    /\ Asked("verify", 0) \/ (Acked(1) /\ "verify" \in done)

AwaitsUpload ==
    \/ cl.pc = "erase" /\ AwaitsErased
    \/ cl.pc = "ready" /\ AwaitsReady
    \/ cl.pc = "written" /\ AwaitsWritten
    \/ cl.pc = "verify" /\ AwaitsVerified

AwaitsCommand == cl.pc = cl.goal /\ (Asked(cl.goal, 0) \/ (Acked(Wanted) /\ cl.goal \in done))

OnCourse ==
    \/ cl.pc = "challenge" /\ AwaitsChallenge
    \/ cl.pc = "verdict" /\ AwaitsVerdict
    \/ cl.goal = "upload" /\ AwaitsUpload
    \/ cl.goal # "upload" /\ AwaitsCommand

\* What the report says of the device.
Claim(goal) ==
    IF goal = "upload"
    THEN {"erase", "write", "verify"} \subseteq done /\ Filled(NChunks)
    ELSE goal \in done

RunInv ==
    Undisturbed =>
        /\ cl.pc # "off" => Refused \/ Unanswered \/ OnCourse
        /\ said.verdict = "ok" => DeviceIdle /\ Claim(said.goal)

\* A client that still runs has reported nothing.
Reports == [verdict : {"none", "ok", "failed"}, goal : Goals \cup {"none"},
            idle : BOOLEAN, trouble : Nat]
SaidInv ==
    /\ said \in Reports
    /\ trouble \in Nat /\ said.trouble <= trouble
    /\ cl.pc # "off" => said.verdict = "none"

(* Answers follow each other: a refusal at the head of the line stays.     *)
LEMMA StillRefused ==
    ASSUME toCli \in Seq(AnswerBytes), Refused, NEW s \in Seq(AnswerBytes),
           toCli' = toCli \o s
    PROVE  Refused'
  <1>1. Len(toCli) \in Nat \ {0} /\ Len(s) \in Nat
    BY EmptySeq, LenProperties DEF Refused
  <1>2. /\ toCli' \in Seq(AnswerBytes) /\ Len(toCli') = Len(toCli) + Len(s)
        /\ toCli'[1] = toCli[1]
    <2>1. 1 \in 1..(Len(toCli) + Len(s)) /\ 1 <= Len(toCli)
      BY <1>1
    <2> QED BY <2>1, ConcatProperties
  <1>3. toCli' # <<>>
    BY <1>1, <1>2, EmptySeq
  <1>4. Head(toCli') = toCli'[1] /\ Head(toCli) = toCli[1]
    BY <1>2, <1>3 DEF Refused
  <1> QED BY <1>2, <1>3, <1>4 DEF Refused

(* A line that carries one unit, and one that carries an answer.           *)
LEMMA OneUnit ==
    ASSUME NEW u
    PROVE  <<u>> # <<>> /\ Head(<<u>>) = u /\ Tail(<<u>>) = <<>> /\ Len(<<u>>) = 1
    OBVIOUS

LEMMA FirstAnswer ==
    ASSUME toCli = <<>>
    PROVE  /\ Append(toCli, ACK) = <<ACK>> /\ Append(toCli, NACK) = <<NACK>>
           /\ toCli \o <<ACK>> = <<ACK>> /\ toCli \o <<ACK, Rest>> = <<ACK, Rest>>
           /\ \A c : toCli \o <<ACK, c>> = <<ACK, c>>
  <1>1. Append(<<>>, ACK) = <<ACK>> /\ Append(<<>>, NACK) = <<NACK>>
    OBVIOUS
  <1>2. <<>> \o <<ACK>> = <<ACK>>
    BY AnswerTypes, ConcatEmptySeq
  <1>3. ASSUME NEW c PROVE <<>> \o <<ACK, c>> = <<ACK, c>>
    <2>1. <<ACK, c>> \in Seq({ACK, c})
      OBVIOUS
    <2> QED BY <2>1, ConcatEmptySeq
  <1> QED BY <1>1, <1>2, <1>3

LEMMA NackRefuses ==
    ASSUME toCli' = <<NACK>>
    PROVE  Refused'
  <1>1. NACK # ACK
    BY DEF ACK, NACK
  <1> QED BY <1>1, OneUnit DEF Refused

(* What AUTH does to an empty line.                                        *)
LEMMA AuthOutcome ==
    ASSUME IInv, recovery_handle_auth, toCli = <<>>
    PROVE  \/ Refused'
           \/ /\ dev.auth_state = "NONE"
              /\ dev'.pc = "loop" /\ dev'.auth_state = "CHALLENGE_SENT"
              /\ Len(toCli') = 2 /\ Head(toCli') = ACK
           \/ /\ dev.auth_state = "CHALLENGE_SENT" /\ dev'.auth_state = "CHALLENGE_SENT"
              /\ dev'.pc = "response" /\ dev'.got = <<>> /\ toCli' = <<>>
  <1>1. dev \in DevTypes
    BY DEF IInv, TypeInv
  <1>2. CASE recovery_send_nack
    BY <1>2, FirstAnswer, NackRefuses DEF recovery_send_nack
  <1>3. CASE /\ dev.auth_state = "NONE" /\ SendChallenge /\ board.rng
    <2>1. /\ dev' = [dev EXCEPT !.pc = "loop", !.auth_state = "CHALLENGE_SENT",
                                !.challenge = issued + 1]
          /\ toCli' = toCli \o <<ACK, ChallengeBytes(issued + 1)>>
      BY <1>3 DEF SendChallenge
    <2>2. dev'.pc = "loop" /\ dev'.auth_state = "CHALLENGE_SENT"
      BY <1>1, <2>1 DEF DevTypes
    <2>3. toCli' = <<ACK, ChallengeBytes(issued + 1)>>
      BY <2>1, FirstAnswer
    <2>4. Len(toCli') = 2 /\ Head(toCli') = ACK
      BY <2>3
    <2> QED BY <1>3, <2>2, <2>4
  <1>4. CASE /\ dev.auth_state = "CHALLENGE_SENT"
             /\ dev' = [dev EXCEPT !.pc = "response", !.got = <<>>]
             /\ UNCHANGED toCli
    BY <1>1, <1>4 DEF DevTypes
  <1>5. CASE SendChallenge /\ ~board.rng
    BY <1>2, <1>5 DEF SendChallenge
  <1> QED BY <1>2, <1>3, <1>4, <1>5 DEF recovery_handle_auth

(* Every packet is answered behind the answers before it, or not at all.   *)
LEMMA AuthAnswers ==
    ASSUME IInv, recovery_handle_auth
    PROVE  \E s \in Seq(AnswerBytes) : toCli' = toCli \o s
  <1>1. toCli \in Seq(AnswerBytes) /\ issued \in Nat
    BY DEF IInv, TypeInv
  <1>2. CASE recovery_send_nack
    <2>1. toCli' = toCli \o <<NACK>>
      BY <1>1, <1>2, AnswerTypes, AppendIsConcat DEF recovery_send_nack
    <2>2. <<NACK>> \in Seq(AnswerBytes)
      BY AnswerTypes
    <2> QED BY <2>1, <2>2
  <1>3. CASE UNCHANGED toCli
    BY <1>1, <1>3, EmptySeq, ConcatEmptySeq
  <1>4. CASE toCli' = toCli \o <<ACK, ChallengeBytes(issued + 1)>>
    <2>1. ACK \in AnswerBytes /\ ChallengeBytes(issued + 1) \in AnswerBytes
      BY <1>1, AnswerTypes
    <2>2. <<ACK, ChallengeBytes(issued + 1)>> \in Seq(AnswerBytes)
      <3> HIDE DEF ChallengeBytes
      <3> QED BY <2>1
    <2> QED BY <1>4, <2>2
  <1> QED BY <1>2, <1>3, <1>4 DEF recovery_handle_auth, SendChallenge

LEMMA DispatchAnswers ==
    ASSUME IInv, NEW p, Dispatch(p)
    PROVE  \E s \in Seq(AnswerBytes) : toCli' = toCli \o s
  <1>1. toCli \in Seq(AnswerBytes)
    BY DEF IInv, TypeInv
  <1>2. CASE recovery_send_nack \/ recovery_send_ack
    <2>1. toCli' = toCli \o <<NACK>> \/ toCli' = toCli \o <<ACK>>
      BY <1>1, <1>2, AnswerTypes, AppendIsConcat DEF recovery_send_nack, recovery_send_ack
    <2>2. <<NACK>> \in Seq(AnswerBytes) /\ <<ACK>> \in Seq(AnswerBytes)
      BY AnswerTypes
    <2> QED BY <2>1, <2>2
  <1>3. CASE UNCHANGED toCli
    BY <1>1, <1>3, EmptySeq, ConcatEmptySeq
  <1>4. CASE \/ toCli' = toCli \o <<ACK, Rest>>
             \/ toCli' = toCli \o <<ACK>>
    <2>1. <<ACK>> \in Seq(AnswerBytes) /\ <<ACK, Rest>> \in Seq(AnswerBytes)
      BY AnswerTypes
    <2> QED BY <1>4, <2>1
  <1>5. CASE recovery_handle_auth
    BY <1>5, AuthAnswers
  <1>6. CASE Refuse
    BY <1>2, <1>6 DEF Refuse
  <1>7. CASE recovery_handle_ping \/ recovery_handle_info \/ recovery_handle_boot_log
    BY <1>4, <1>7 DEF recovery_handle_ping, recovery_handle_info, recovery_handle_boot_log, Answer
  <1>8. CASE recovery_handle_erase(p.slot) \/ recovery_handle_verify(p.slot) \/ recovery_handle_boot(p.slot)
    BY <1>4, <1>6, <1>8 DEF recovery_handle_erase, recovery_handle_verify, recovery_handle_boot, Answer
  <1>9. CASE recovery_handle_factory_reset \/ recovery_handle_reset
    BY <1>4, <1>9 DEF recovery_handle_factory_reset, recovery_handle_reset, Answer
  <1>10. CASE recovery_handle_write(p.slot, p.chunk)
    BY <1>2, <1>6, <1>10 DEF recovery_handle_write
  <1> QED BY <1>2, <1>3, <1>5, <1>6, <1>7, <1>8, <1>9, <1>10 DEF Dispatch

(* What the commands of the operator do, asked on an empty line: a refusal,*)
(* or an ACK once the command is carried out.                              *)
LEMMA CommandOutcome ==
    ASSUME IInv, dev.pc = "loop", toCli = <<>>,
           NEW c \in {"ping", "info", "log", "erase", "verify", "boot", "factory", "reset"},
           NEW k, Dispatch(Packet(c, "A", k))
    PROVE  \/ Refused'
           \/ /\ dev'.pc \in {"loop", "reset"} /\ Head(toCli') = ACK
              /\ Len(toCli') = IF c \in {"ping", "info", "log"} THEN 2 ELSE 1
              /\ done' = done \cup {c}
              /\ c = "erase" => "A" \in Slots /\ slots' = [slots EXCEPT !["A"] = Whole("erased")]
              /\ c = "verify" => UNCHANGED slots
              /\ c \in {"erase", "verify"} => dev'.pc = "loop"
  <1>1. dev \in DevTypes
    BY DEF IInv, TypeInv
  <1>2. Packet(c, "A", k).cmd = c /\ Packet(c, "A", k).slot = "A"
    BY DEF Packet
  <1>3. CASE Refuse
    BY <1>3, FirstAnswer, NackRefuses DEF Refuse, recovery_send_nack
  <1>4. Head(<<ACK>>) = ACK /\ Head(<<ACK, Rest>>) = ACK /\ Len(<<ACK>>) = 1 /\ Len(<<ACK, Rest>>) = 2
    OBVIOUS
  <1>5. ASSUME NEW bytes \in {<<ACK>>, <<ACK, Rest>>}, Answer(bytes, c)
        PROVE  toCli' = bytes /\ done' = done \cup {c}
    BY <1>4, <1>5, FirstAnswer DEF Answer
  <1>6. CASE c \in {"ping", "info", "log"} /\ Answer(<<ACK, Rest>>, c) /\ UNCHANGED devVars
    <2>1. toCli' = <<ACK, Rest>> /\ done' = done \cup {c}
      BY <1>5, <1>6
    <2>2. Len(toCli') = 2 /\ Head(toCli') = ACK
      BY <1>4, <2>1
    <2> QED BY <1>6, <2>1, <2>2 DEF devVars
  <1>7. CASE c = "erase" /\ recovery_handle_erase("A") /\ "A" \in Slots
    <2>1. Answer(<<ACK>>, c) /\ UNCHANGED dev /\ slots' = [slots EXCEPT !["A"] = Whole("erased")]
      BY <1>7 DEF recovery_handle_erase
    <2>2. toCli' = <<ACK>> /\ done' = done \cup {c}
      BY <1>5, <2>1
    <2>3. Len(toCli') = 1 /\ Head(toCli') = ACK
      BY <1>4, <2>2
    <2> QED BY <1>7, <2>1, <2>2, <2>3
  <1>8. CASE c = "verify" /\ Answer(<<ACK>>, c) /\ UNCHANGED devVars
    <2>1. toCli' = <<ACK>> /\ done' = done \cup {c}
      BY <1>5, <1>8
    <2>2. Len(toCli') = 1 /\ Head(toCli') = ACK
      BY <1>4, <2>1
    <2> QED BY <1>8, <2>1, <2>2 DEF devVars
  <1>9. CASE /\ c \in {"boot", "reset", "factory"} /\ Answer(<<ACK>>, c)
             /\ dev' = dev \/ dev' = [dev EXCEPT !.pc = "reset"]
    <2>1. toCli' = <<ACK>> /\ done' = done \cup {c}
      BY <1>5, <1>9
    <2>2. Len(toCli') = 1 /\ Head(toCli') = ACK
      BY <1>4, <2>1
    <2>3. dev'.pc \in {"loop", "reset"}
      BY <1>1, <1>9 DEF DevTypes
    <2> QED BY <1>9, <2>1, <2>2, <2>3
  <1>10. CASE c = "erase" /\ recovery_handle_erase("A")
    BY <1>3, <1>7, <1>10 DEF recovery_handle_erase
  <1>11. CASE c = "verify" /\ recovery_handle_verify("A")
    BY <1>3, <1>8, <1>11 DEF recovery_handle_verify
  <1>12. CASE c = "boot" /\ recovery_handle_boot("A")
    BY <1>3, <1>9, <1>12 DEF recovery_handle_boot
  <1>13. CASE c = "reset" /\ recovery_handle_reset
    BY <1>9, <1>13 DEF recovery_handle_reset
  <1>14. CASE c = "factory" /\ recovery_handle_factory_reset
    BY <1>9, <1>14 DEF recovery_handle_factory_reset
  <1>15. CASE \/ c = "ping" /\ recovery_handle_ping
              \/ c = "info" /\ recovery_handle_info
              \/ c = "log" /\ recovery_handle_boot_log
    BY <1>6, <1>15 DEF recovery_handle_ping, recovery_handle_info, recovery_handle_boot_log
  <1> QED BY <1>2, <1>3, <1>10, <1>11, <1>12, <1>13, <1>14, <1>15 DEF Dispatch

LEMMA WriteOutcome ==
    ASSUME IInv, dev.pc = "loop", toCli = <<>>, NEW k, k # 0,
           Dispatch(Packet("write", "A", k))
    PROVE  \/ Refused'
           \/ /\ dev'.pc = "chunk" /\ dev'.slot = "A" /\ dev'.chunk = k /\ dev'.got = <<>>
              /\ toCli' = <<ACK>> /\ UNCHANGED <<slots, done>>
  <1>1. dev \in DevTypes
    BY DEF IInv, TypeInv
  <1>2. /\ Packet("write", "A", k).cmd = "write" /\ Packet("write", "A", k).slot = "A"
        /\ Packet("write", "A", k).chunk = k
    BY DEF Packet
  <1>3. CASE Refuse
    BY <1>3, FirstAnswer, NackRefuses DEF Refuse, recovery_send_nack
  <1>4. CASE /\ dev' = [dev EXCEPT !.pc = "chunk", !.slot = "A", !.chunk = k, !.got = <<>>]
             /\ recovery_send_ack /\ UNCHANGED <<slots, done>>
    <2>1. dev'.pc = "chunk" /\ dev'.slot = "A" /\ dev'.chunk = k /\ dev'.got = <<>>
      BY <1>1, <1>4 DEF DevTypes
    <2> QED BY <1>4, <2>1, FirstAnswer DEF recovery_send_ack
  <1>5. CASE recovery_handle_write("A", k)
    BY <1>3, <1>4, <1>5 DEF recovery_handle_write
  <1> QED BY <1>2, <1>3, <1>5 DEF Dispatch

LEMMA AuthPacketOutcome ==
    ASSUME IInv, dev.pc = "loop", Dispatch(Packet("auth", "A", 0))
    PROVE  \/ recovery_handle_auth
           \/ /\ dev'.pc = "backoff" /\ dev'.auth_state = dev.auth_state
              /\ UNCHANGED toCli
  <1>1. dev \in DevTypes
    BY DEF IInv, TypeInv
  <1>2. Packet("auth", "A", 0).cmd = "auth"
    BY DEF Packet
  <1>3. Allowed("auth")
    BY DEF Allowed, cmd_requires_auth, Protected
  <1>4. CASE dev' = [dev EXCEPT !.pc = "backoff"] /\ UNCHANGED toCli
    BY <1>1, <1>4 DEF DevTypes
  <1> QED BY <1>2, <1>3, <1>4 DEF Dispatch

-----------------------------------------------------------------------------
(* The client's run: steps of the device                                   *)

(* A device that has something to do has no report behind it, and keeps a  *)
(* refusal in front.                                                       *)
LEMMA DeviceRun ==
    ASSUME IInv, RunInv, UNCHANGED <<cl, said, trouble>>, ~DeviceIdle,
           NEW s \in Seq(AnswerBytes), toCli' = toCli \o s,
           cl.pc # "off" /\ (Unanswered \/ OnCourse) => Refused' \/ Unanswered' \/ OnCourse'
    PROVE  RunInv'
  <1>1. toCli \in Seq(AnswerBytes)
    BY DEF IInv, TypeInv
  <1>2. Undisturbed' => Undisturbed
    BY DEF Undisturbed
  <1>3. Refused => Refused'
    BY <1>1, StillRefused
  <1> QED BY <1>2, <1>3 DEF RunInv

(* A packet says what it says.                                             *)
LEMMA ReadingOfPacket ==
    ASSUME NEW c, NEW s, NEW k
    PROVE  Readings(Packet(c, s, k)) = {Packet(c, s, k)}
    BY DEF Readings, IsPacket, Packet

(* The goals a client may have.                                            *)
LEMMA GoalCases ==
    ASSUME IInv, cl.pc # "off", cl.goal # "upload"
    PROVE  cl.goal \in {"ping", "info", "log", "erase", "verify", "boot", "factory", "reset"}
  <1>1. cl.goal \in Goals
    BY ClientFields
  <1>2. Goals \subseteq {"ping", "info", "reset", "factory", "erase", "upload",
                        "verify", "boot", "log"}
    BY RecoveryAssumption
  <1> QED BY <1>1, <1>2

(* The slot and what the handlers leave in it.                             *)
LEMMA SlotErased ==
    ASSUME IInv, "A" \in Slots, slots' = [slots EXCEPT !["A"] = Whole("erased")],
           dev'.pc = "loop"
    PROVE  Filled(0)'
  <1>1. slots'["A"] = Whole("erased")
    BY DEF IInv, TypeInv
  <1>2. \A k \in 1..NChunks : slots'["A"][k] = "erased"
    BY <1>1 DEF Whole
  <1>3. \A k \in 1..NChunks : ~(k <= 0)
    BY RecoveryAssumption
  <1> QED BY <1>2, <1>3 DEF Filled

LEMMA SlotKept ==
    ASSUME NEW n, Filled(n), UNCHANGED slots, dev'.pc # "reset"
    PROVE  Filled(n)'
    BY DEF Filled

(* The command loop takes the packet the client has sent.                  *)
LEMMA CommandLoopRun ==
    ASSUME IInv, RunInv, CommandLoop
    PROVE  RunInv'
  <1>1. /\ dev.pc = "loop" /\ toDev # <<>> /\ toDev' = Tail(toDev)
        /\ UNCHANGED <<cl, said, trouble>>
    BY DEF CommandLoop
  <1>2. PICK p \in Readings(Head(toDev)) : Dispatch(p)
    BY DEF CommandLoop
  <1>3. PICK s \in Seq(AnswerBytes) : toCli' = toCli \o s
    BY <1>2, DispatchAnswers
  <1>4. ~DeviceIdle /\ ~Unanswered
    BY <1>1 DEF DeviceIdle, Unanswered
  <1>5. \A n : ~Acked(n)
    BY <1>4 DEF Acked
  <1>6. SUFFICES ASSUME cl.pc # "off", OnCourse
                 PROVE  Refused' \/ Unanswered' \/ OnCourse'
    BY <1>1, <1>3, <1>4, DeviceRun
  <1>7. ASSUME NEW c, NEW k, Asked(c, k)
        PROVE  toCli = <<>> /\ toDev' = <<>> /\ Dispatch(Packet(c, "A", k))
    <2>1. toDev = <<Packet(c, "A", k)>> /\ toCli = <<>>
      BY <1>7 DEF Asked
    <2>2. Head(toDev) = Packet(c, "A", k) /\ Tail(toDev) = <<>>
      BY <2>1, OneUnit
    <2> QED BY <1>1, <1>2, <2>1, <2>2, ReadingOfPacket
  <1>8. CASE cl.pc = "challenge" /\ AwaitsChallenge
    <2>1. Asked("auth", 0)
      BY <1>1, <1>5, <1>8 DEF AwaitsChallenge
    <2>2. toCli = <<>> /\ toDev' = <<>> /\ Dispatch(Packet("auth", "A", 0))
      BY <1>7, <2>1
    <2>3. CASE dev'.pc = "backoff" /\ UNCHANGED toCli
      BY <1>1, <1>8, <2>2, <2>3 DEF OnCourse, AwaitsChallenge
    <2>4. CASE recovery_handle_auth
      <3>1. CASE /\ dev'.pc = "loop" /\ dev'.auth_state = "CHALLENGE_SENT"
                 /\ Len(toCli') = 2 /\ Head(toCli') = ACK
        BY <1>1, <1>8, <2>2, <3>1 DEF OnCourse, AwaitsChallenge, Acked, DeviceIdle
      <3>2. CASE dev'.pc = "response" /\ toCli' = <<>>
        BY <2>2, <3>2 DEF Unanswered
      <3> QED BY <2>2, <2>4, <3>1, <3>2, AuthOutcome
    <2> QED BY <1>1, <2>2, <2>3, <2>4, AuthPacketOutcome
  <1>9. CASE cl.pc = "verdict" /\ AwaitsVerdict
    <2>1. /\ toCli = <<>> /\ dev.auth_state = "CHALLENGE_SENT"
          /\ Len(toDev) = DigestUnits + 1 /\ Head(toDev) = Packet("auth", "A", 0)
      BY <1>1, <1>5, <1>9 DEF AwaitsVerdict
    <2>2. Dispatch(Packet("auth", "A", 0))
      BY <1>2, <2>1, ReadingOfPacket
    <2>3. Len(toDev') = DigestUnits /\ toDev' # <<>> /\ DigestUnits \in Nat
      <3>1. toDev \in Seq(LineUnits) /\ DigestUnits \in Nat \ {0}
        BY RecoveryAssumption DEF IInv, TypeInv
      <3>2. Len(toDev') = Len(toDev) - 1
        BY <1>1, <3>1, HeadTailProperties
      <3>3. Len(toDev') = DigestUnits
        BY <2>1, <3>1, <3>2
      <3> QED BY <3>1, <3>3, EmptySeq
    <2>4. CASE dev'.pc = "backoff" /\ dev'.auth_state = dev.auth_state /\ UNCHANGED toCli
      BY <1>1, <1>9, <2>1, <2>3, <2>4 DEF OnCourse, AwaitsVerdict
    <2>5. CASE recovery_handle_auth
      <3>1. CASE /\ dev'.auth_state = "CHALLENGE_SENT" /\ dev'.pc = "response"
                 /\ dev'.got = <<>> /\ toCli' = <<>>
        <4>1. Len(dev'.got) + Len(toDev') = DigestUnits
          BY <2>3, <3>1, EmptySeq
        <4> QED BY <1>1, <1>9, <2>3, <3>1, <4>1 DEF OnCourse, AwaitsVerdict
      <3> QED BY <2>1, <2>5, <3>1, AuthOutcome
    <2> QED BY <1>1, <2>2, <2>4, <2>5, AuthPacketOutcome
  <1>10. CASE cl.goal = "upload" /\ cl.pc = "erase" /\ AwaitsErased
    <2>1. Asked("erase", 0)
      BY <1>5, <1>10 DEF AwaitsErased
    <2>2. toCli = <<>> /\ toDev' = <<>> /\ Dispatch(Packet("erase", "A", 0))
      BY <1>7, <2>1
    <2>3. CASE /\ dev'.pc = "loop" /\ Head(toCli') = ACK /\ Len(toCli') = 1
               /\ done' = done \cup {"erase"}
               /\ "A" \in Slots /\ slots' = [slots EXCEPT !["A"] = Whole("erased")]
      <3>1. Filled(0)'
        BY <2>3, SlotErased
      <3>2. Acked(1)'
        BY <2>2, <2>3 DEF Acked, DeviceIdle
      <3> QED BY <1>1, <1>10, <2>3, <3>1, <3>2 DEF OnCourse, AwaitsUpload, AwaitsErased
    <2> QED BY <1>1, <2>2, <2>3, CommandOutcome
  <1>11. CASE cl.goal = "upload" /\ cl.pc = "ready" /\ AwaitsReady
    <2>1. /\ cl.off \in 1..NChunks /\ "erase" \in done /\ Filled(cl.off - 1)
          /\ Asked("write", cl.off)
      BY <1>1, <1>11 DEF AwaitsReady
    <2>2. toCli = <<>> /\ toDev' = <<>> /\ Dispatch(Packet("write", "A", cl.off))
      BY <1>7, <2>1
    <2>3. CASE /\ dev'.pc = "chunk" /\ dev'.slot = "A" /\ dev'.chunk = cl.off
               /\ dev'.got = <<>> /\ toCli' = <<ACK>> /\ UNCHANGED <<slots, done>>
      <3>1. Filled(cl.off - 1)'
        BY <1>1, <2>1, <2>3 DEF Filled
      <3> QED BY <1>1, <1>11, <2>1, <2>2, <2>3, <3>1 DEF OnCourse, AwaitsUpload, AwaitsReady
    <2>4. cl.off # 0
      BY <2>1
    <2> QED BY <1>1, <2>2, <2>3, <2>4, WriteOutcome
  <1>12. CASE cl.goal = "upload" /\ cl.pc = "verify" /\ AwaitsVerified
    <2>1. {"erase", "write"} \subseteq done /\ Filled(NChunks) /\ Asked("verify", 0)
      BY <1>5, <1>12 DEF AwaitsVerified
    <2>2. toCli = <<>> /\ toDev' = <<>> /\ Dispatch(Packet("verify", "A", 0))
      BY <1>7, <2>1
    <2>3. CASE /\ dev'.pc = "loop" /\ Head(toCli') = ACK /\ Len(toCli') = 1
               /\ done' = done \cup {"verify"} /\ UNCHANGED slots
      <3>1. Filled(NChunks)'
        BY <2>1, <2>3, SlotKept
      <3>2. Acked(1)'
        BY <2>2, <2>3 DEF Acked, DeviceIdle
      <3> QED BY <1>1, <1>12, <2>1, <2>3, <3>1, <3>2 DEF OnCourse, AwaitsUpload, AwaitsVerified
    <2> QED BY <1>1, <2>2, <2>3, CommandOutcome
  <1>13. CASE cl.goal # "upload" /\ AwaitsCommand
    <2>1. cl.pc = cl.goal /\ Asked(cl.goal, 0)
      BY <1>5, <1>13 DEF AwaitsCommand
    <2>2. toCli = <<>> /\ toDev' = <<>> /\ Dispatch(Packet(cl.goal, "A", 0))
      BY <1>7, <2>1
    <2>3. cl.goal \in {"ping", "info", "log", "erase", "verify", "boot", "factory", "reset"}
      BY <1>6, <1>13, GoalCases
    <2>4. CASE /\ dev'.pc \in {"loop", "reset"} /\ Head(toCli') = ACK
               /\ Len(toCli') = IF cl.goal \in {"ping", "info", "log"} THEN 2 ELSE 1
               /\ done' = done \cup {cl.goal}
      <3>1. Len(toCli') = Wanted'
        BY <1>1, <2>1, <2>3, <2>4 DEF Wanted
      <3>2. Acked(Wanted)'
        BY <2>2, <2>4, <3>1 DEF Acked, DeviceIdle
      <3> QED BY <1>1, <1>13, <2>1, <2>4, <3>2 DEF OnCourse, AwaitsCommand
    <2> QED BY <1>1, <2>2, <2>3, <2>4, CommandOutcome
  <1>14. ~(cl.pc = "written" /\ AwaitsWritten)
    BY <1>1, <1>5 DEF AwaitsWritten
  <1> QED BY <1>6, <1>8, <1>9, <1>10, <1>11, <1>12, <1>13, <1>14 DEF OnCourse, AwaitsUpload

(* The back-off ends: what AUTH does, on the line as it was.               *)
LEMMA BackoffRun ==
    ASSUME IInv, RunInv, Backoff
    PROVE  RunInv'
  <1>1. /\ dev.pc = "backoff" /\ recovery_handle_auth
        /\ UNCHANGED <<toDev, cl, said, trouble>>
    BY DEF Backoff
  <1>2. PICK s \in Seq(AnswerBytes) : toCli' = toCli \o s
    BY <1>1, AuthAnswers
  <1>3. ~DeviceIdle /\ ~Unanswered
    BY <1>1 DEF DeviceIdle, Unanswered
  <1>4. (\A n : ~Acked(n)) /\ (\A c, k : ~Asked(c, k))
    BY <1>1, <1>3 DEF Acked, Asked
  <1>5. SUFFICES ASSUME cl.pc # "off", OnCourse
                 PROVE  Refused' \/ Unanswered' \/ OnCourse'
    BY <1>1, <1>2, <1>3, DeviceRun
  <1>6. CASE cl.pc = "challenge" /\ AwaitsChallenge
    <2>1. toDev = <<>> /\ toCli = <<>>
      BY <1>4, <1>6 DEF AwaitsChallenge
    <2>2. CASE /\ dev'.pc = "loop" /\ dev'.auth_state = "CHALLENGE_SENT"
               /\ Len(toCli') = 2 /\ Head(toCli') = ACK
      BY <1>1, <1>6, <2>1, <2>2 DEF OnCourse, AwaitsChallenge, Acked, DeviceIdle
    <2>3. CASE dev'.pc = "response" /\ toCli' = <<>>
      BY <1>1, <2>1, <2>3 DEF Unanswered
    <2> QED BY <1>1, <2>1, <2>2, <2>3, AuthOutcome
  <1>7. CASE cl.pc = "verdict" /\ AwaitsVerdict
    <2>1. toCli = <<>> /\ dev.auth_state = "CHALLENGE_SENT" /\ Len(toDev) = DigestUnits
      BY <1>1, <1>4, <1>7 DEF AwaitsVerdict
    <2>2. CASE /\ dev'.auth_state = "CHALLENGE_SENT" /\ dev'.pc = "response"
               /\ dev'.got = <<>> /\ toCli' = <<>>
      <3>1. DigestUnits \in Nat \ {0} /\ Len(<<>>) = 0
        BY RecoveryAssumption, EmptySeq
      <3>2. toDev # <<>>
        BY <2>1, <3>1
      <3>3. Len(dev'.got) + Len(toDev') = DigestUnits
        BY <1>1, <2>1, <2>2, <3>1
      <3> QED BY <1>1, <1>7, <2>2, <3>2, <3>3 DEF OnCourse, AwaitsVerdict
    <2> QED BY <1>1, <2>1, <2>2, AuthOutcome
  <1>8. ~AwaitsUpload /\ ~AwaitsCommand
    BY <1>1, <1>4 DEF AwaitsUpload, AwaitsCommand, AwaitsErased, AwaitsReady, AwaitsWritten,
                      AwaitsVerified
  <1> QED BY <1>5, <1>6, <1>7, <1>8 DEF OnCourse

(* A unit of the digest, or the comparison.                                *)
LEMMA ReadResponseRun ==
    ASSUME IInv, RunInv, ReadResponse
    PROVE  RunInv'
  <1> DEFINE got == Append(dev.got, Head(toDev))
  <1>1. /\ dev.pc = "response" /\ toDev # <<>> /\ toDev' = Tail(toDev)
        /\ UNCHANGED <<cl, said, trouble>>
    BY DEF ReadResponse
  <1>2. \/ /\ Len(got) < DigestUnits /\ dev' = [dev EXCEPT !.got = got]
           /\ UNCHANGED toCli
        \/ /\ ~(Len(got) < DigestUnits) /\ CompareResponse(got)
    BY DEF ReadResponse
  <1>3. /\ dev \in DevTypes /\ toCli \in Seq(AnswerBytes) /\ toDev \in Seq(LineUnits)
        /\ dev.got \in Seq(LineUnits)
    BY DevFields DEF IInv, TypeInv
  <1>4. /\ Len(got) = Len(dev.got) + 1 /\ Len(toDev') = Len(toDev) - 1
        /\ Len(dev.got) \in Nat /\ Len(toDev) \in Nat /\ toDev' \in Seq(LineUnits)
    BY <1>1, <1>3, TakeUnit, AppendProperties, HeadTailProperties, LenProperties
  <1> HIDE DEF got
  <1>5. ~DeviceIdle /\ ~Unanswered
    BY <1>1 DEF DeviceIdle, Unanswered
  <1>6. (\A n : ~Acked(n)) /\ (\A c, k : ~Asked(c, k))
    BY <1>1, <1>5 DEF Acked, Asked
  <1>7. CompareResponse(got) =>
          \/ /\ recovery_send_ack
             /\ dev' = [dev EXCEPT !.pc = "loop", !.auth_state = "AUTHENTICATED",
                                   !.auth_fail_count = 0, !.got = <<>>]
          \/ recovery_send_nack
    BY DEF CompareResponse
  <1>8. PICK s \in Seq(AnswerBytes) : toCli' = toCli \o s
    <2>1. <<>> \in Seq(AnswerBytes) /\ <<NACK>> \in Seq(AnswerBytes) /\ <<ACK>> \in Seq(AnswerBytes)
      BY AnswerTypes, EmptySeq
    <2>2. toCli' = toCli \o <<>> \/ toCli' = toCli \o <<ACK>> \/ toCli' = toCli \o <<NACK>>
      BY <1>2, <1>3, <1>7, AnswerTypes, AppendIsConcat, ConcatEmptySeq
         DEF recovery_send_ack, recovery_send_nack
    <2> QED BY <2>1, <2>2
  <1>9. SUFFICES ASSUME cl.pc # "off", OnCourse
                 PROVE  Refused' \/ Unanswered' \/ OnCourse'
    BY <1>1, <1>5, <1>8, DeviceRun
  <1>10. /\ cl.pc = "verdict" /\ toCli = <<>> /\ dev.auth_state = "CHALLENGE_SENT"
         /\ Len(dev.got) + Len(toDev) = DigestUnits
    BY <1>1, <1>6, <1>9 DEF OnCourse, AwaitsChallenge, AwaitsVerdict, AwaitsUpload, AwaitsCommand,
                            AwaitsErased, AwaitsReady, AwaitsWritten, AwaitsVerified
  <1>11. CASE /\ Len(got) < DigestUnits /\ dev' = [dev EXCEPT !.got = got]
              /\ UNCHANGED toCli
    <2>1. dev'.pc = "response" /\ dev'.auth_state = "CHALLENGE_SENT" /\ dev'.got = got
      BY <1>1, <1>3, <1>10, <1>11 DEF DevTypes
    <2>2. DigestUnits \in Nat
      BY RecoveryAssumption
    <2>3. Len(got) + Len(toDev') = DigestUnits /\ Len(toDev') > 0
      BY <1>4, <1>10, <1>11, <2>2
    <2>4. toDev' # <<>>
      BY <2>3, EmptySeq
    <2> QED BY <1>1, <1>10, <1>11, <2>1, <2>3, <2>4 DEF OnCourse, AwaitsVerdict
  <1>12. CASE /\ ~(Len(got) < DigestUnits) /\ recovery_send_ack
              /\ dev' = [dev EXCEPT !.pc = "loop", !.auth_state = "AUTHENTICATED",
                                    !.auth_fail_count = 0, !.got = <<>>]
    <2>1. dev'.pc = "loop"
      BY <1>3, <1>12 DEF DevTypes
    <2>2. Len(toDev') = 0
      <3>1. DigestUnits \in Nat /\ Len(toDev') \in Nat
        BY <1>4, LenProperties, RecoveryAssumption
      <3> QED BY <1>4, <1>10, <1>12, <3>1
    <2>3. toDev' = <<>>
      BY <1>4, <2>2, EmptySeq
    <2>4. Len(toCli') = 1 /\ Head(toCli') = ACK
      BY <1>10, <1>12, FirstAnswer, OneUnit DEF recovery_send_ack
    <2> QED BY <1>1, <1>10, <2>1, <2>3, <2>4 DEF OnCourse, AwaitsVerdict, Acked, DeviceIdle
  <1>13. CASE recovery_send_nack
    BY <1>10, <1>13, FirstAnswer, NackRefuses DEF recovery_send_nack
  <1> QED BY <1>2, <1>7, <1>11, <1>12, <1>13

(* Nothing came: a client that waits gets no ACK.                          *)
LEMMA ReceiveTimeoutRun ==
    ASSUME IInv, SaidInv, RunInv, ReceiveTimeout
    PROVE  RunInv'
  <1>1. /\ dev.pc \in {"response", "chunk"} /\ toDev = <<>> /\ recovery_send_nack
        /\ FreeOrCharge(~ClientBusy)
        /\ UNCHANGED <<cl, said>>
    BY DEF ReceiveTimeout
  <1>2. SUFFICES ASSUME Undisturbed' PROVE RunInv'
    BY DEF RunInv
  <1>3. trouble' = trouble /\ ~ClientBusy
    BY <1>1, <1>2 DEF Undisturbed, SaidInv, FreeOrCharge, Charge
  <1>4. Undisturbed /\ ~DeviceIdle
    BY <1>1, <1>2, <1>3 DEF Undisturbed, DeviceIdle
  <1>5. cl.pc # "off" => Refused'
    BY <1>1, <1>3, FirstAnswer, NackRefuses DEF ClientBusy, recovery_send_nack
  <1> QED BY <1>1, <1>4, <1>5 DEF RunInv

(* The device comes back from its reset, perhaps without the packet.       *)
LEMMA EnterRun ==
    ASSUME IInv, SaidInv, RunInv, eos_recovery_enter
    PROVE  RunInv'
  <1>0. /\ dev.pc = "reset" /\ dev' = Idle /\ dev'.pc = "loop"
        /\ UNCHANGED <<toCli, cl, done, said>> /\ trouble' \in {trouble, trouble + 1}
    BY DEF eos_recovery_enter, Idle, AppFactoryReset, Charge
  <1>a. CASE trouble' # trouble
    <2>1. said.trouble \in Nat /\ trouble \in Nat /\ said.trouble <= trouble
      BY DEF SaidInv, Reports
    <2>2. trouble' # said'.trouble
      BY <1>0, <1>a, <2>1
    <2> QED BY <2>2 DEF RunInv, Undisturbed
  <1> SUFFICES ASSUME trouble' = trouble PROVE RunInv'
    BY <1>a
  <1>1. /\ dev.pc = "reset" /\ dev' = Idle /\ dev'.pc = "loop"
        /\ UNCHANGED <<toCli, cl, trouble, done, said>>
    BY <1>0
  <1>2. PICK n \in 0..Len(toDev) : toDev' = SubSeq(toDev, n + 1, Len(toDev))
    BY DEF eos_recovery_enter
  <1>3. toDev = <<>> => toDev' = <<>>
    <2> SUFFICES ASSUME toDev = <<>> PROVE toDev' = <<>>
      OBVIOUS
    <2>1. Len(toDev) = 0 /\ n = 0
      BY <1>2, EmptySeq
    <2> QED BY <1>2, <2>1, SubSeqEmpty
  <1>4. ASSUME NEW c, NEW k, Asked(c, k)
        PROVE  Asked(c, k)' \/ Unanswered'
    <2>1. toDev = <<Packet(c, "A", k)>> /\ toCli = <<>>
      BY <1>4 DEF Asked
    <2>2. Len(toDev) = 1
      BY <2>1, OneUnit
    <2>3. CASE n = 0
      <3>1. toDev' = toDev
        <4>1. toDev \in Seq(LineUnits)
          BY DEF IInv, TypeInv
        <4>2. toDev' = SubSeq(toDev, 1, Len(toDev))
          BY <1>2, <2>3
        <4> QED BY <4>1, <4>2, SubSeqFull
      <3> QED BY <1>1, <2>1, <3>1 DEF Asked
    <2>4. CASE n = 1
      <3>1. toDev' = <<>>
        BY <1>2, <2>2, <2>4, SubSeqEmpty
      <3> QED BY <1>1, <2>1, <3>1 DEF Unanswered
    <2> QED BY <1>2, <2>2, <2>3, <2>4
  <1>5. \A m : Acked(m) => Acked(m)'
    BY <1>1, <1>3 DEF Acked, DeviceIdle
  <1>6. \A m : ~Filled(m)
    BY <1>1 DEF Filled
  <1>7. (Refused => Refused') /\ (Unanswered => Unanswered') /\ (DeviceIdle => DeviceIdle')
    BY <1>1, <1>3 DEF Refused, Unanswered, DeviceIdle
  <1>8. ASSUME OnCourse PROVE OnCourse' \/ Unanswered'
    <2>1. CASE cl.pc = "challenge" /\ AwaitsChallenge
      BY <1>1, <1>4, <1>5, <2>1 DEF OnCourse, AwaitsChallenge
    <2>2. CASE cl.pc = "verdict" /\ AwaitsVerdict
      BY <1>1, <1>5, <2>2 DEF OnCourse, AwaitsVerdict
    <2>3. CASE cl.goal = "upload" /\ cl.pc = "erase" /\ AwaitsErased
      BY <1>1, <1>4, <1>5, <1>6, <2>3 DEF OnCourse, AwaitsUpload, AwaitsErased
    <2>4. CASE cl.goal = "upload" /\ cl.pc = "ready" /\ AwaitsReady
      BY <1>1, <1>4, <1>6, <2>4 DEF OnCourse, AwaitsUpload, AwaitsReady
    <2>5. CASE cl.goal = "upload" /\ cl.pc = "written" /\ AwaitsWritten
      BY <1>1, <1>5, <1>6, <2>5 DEF OnCourse, AwaitsUpload, AwaitsWritten
    <2>6. CASE cl.goal = "upload" /\ cl.pc = "verify" /\ AwaitsVerified
      BY <1>1, <1>4, <1>5, <1>6, <2>6 DEF OnCourse, AwaitsUpload, AwaitsVerified
    <2>7. CASE cl.goal # "upload" /\ AwaitsCommand
      BY <1>1, <1>4, <1>5, <2>7 DEF OnCourse, AwaitsCommand, Wanted
    <2> QED BY <1>8, <2>1, <2>2, <2>3, <2>4, <2>5, <2>6, <2>7 DEF OnCourse, AwaitsUpload
  <1>9. Claim(said.goal) => Claim(said.goal)'
    BY <1>1, <1>6 DEF Claim
  <1>10. Undisturbed' => Undisturbed
    BY <1>1 DEF Undisturbed
  <1> QED BY <1>1, <1>7, <1>8, <1>9, <1>10 DEF RunInv

(* A unit of the chunk, or the chunk is programmed.                        *)
LEMMA ChunkProgrammed ==
    ASSUME IInv, "A" \in Slots, NEW k \in 1..NChunks, Filled(k - 1),
           slots' = [slots EXCEPT !["A"][k] = Programmed(@, k, Chunk(k))], dev'.pc = "loop"
    PROVE  Filled(k)'
  <1>0. NChunks \in Nat /\ k \in Nat
    BY RecoveryAssumption
  <1>1. slots \in [Slots -> [1..NChunks -> Marks]] /\ NChunks \in Nat /\ k \in Nat
    BY <1>0 DEF IInv, TypeInv
  <1>2. slots["A"][k] = "erased"
    <2>1. ~(k <= k - 1)
      BY <1>1
    <2> QED BY <2>1 DEF Filled
  <1>3. Programmed(slots["A"][k], k, Chunk(k)) = "sent"
    BY <1>2 DEF Programmed
  <1>4. slots' = [slots EXCEPT !["A"][k] = "sent"]
    BY <1>3
  <1>5. slots'["A"] = [slots["A"] EXCEPT ![k] = "sent"] /\ slots["A"] \in [1..NChunks -> Marks]
    BY <1>1, <1>4
  <1>6. ASSUME NEW j \in 1..NChunks
        PROVE  slots'["A"][j] = IF j <= k THEN "sent" ELSE "erased"
    <2>1. CASE j = k
      BY <1>1, <1>5, <2>1
    <2>2. CASE j # k
      <3>1. slots'["A"][j] = slots["A"][j]
        BY <1>5, <2>2
      <3>2. slots["A"][j] = IF j <= k - 1 THEN "sent" ELSE "erased"
        BY DEF Filled
      <3>3. j <= k - 1 <=> j <= k
        BY <1>1, <2>2
      <3> QED BY <3>1, <3>2, <3>3
    <2> QED BY <2>1, <2>2
  <1> QED BY <1>6 DEF Filled

(* The first unit of the line moves to what was read: together they stay.  *)
LEMMA UnitMoves ==
    ASSUME NEW S, NEW a \in Seq(S), NEW b \in Seq(S), b # <<>>
    PROVE  Append(a, Head(b)) \o Tail(b) = a \o b
  <1> DEFINE x == Append(a, Head(b))
             y == Tail(b)
  <1>1. /\ Head(b) \in S /\ y \in Seq(S) /\ Len(y) = Len(b) - 1
        /\ \A i \in 1..Len(y) : y[i] = b[i + 1]
        /\ Head(b) = b[1]
    BY HeadTailProperties
  <1>2. /\ x \in Seq(S) /\ Len(x) = Len(a) + 1 /\ x[Len(a) + 1] = Head(b)
        /\ \A i \in 1..Len(a) : x[i] = a[i]
    BY <1>1, AppendProperties
  <1>3. /\ Len(a) \in Nat /\ Len(b) \in Nat /\ Len(b) # 0
    BY EmptySeq, LenProperties
  <1> HIDE DEF x, y
  <1>4. /\ x \o y \in Seq(S) /\ Len(x \o y) = Len(x) + Len(y)
        /\ \A i \in 1..Len(x) + Len(y) : (x \o y)[i] = IF i <= Len(x) THEN x[i] ELSE y[i - Len(x)]
    BY <1>1, <1>2, ConcatProperties
  <1>5. /\ a \o b \in Seq(S) /\ Len(a \o b) = Len(a) + Len(b)
        /\ \A i \in 1..Len(a) + Len(b) : (a \o b)[i] = IF i <= Len(a) THEN a[i] ELSE b[i - Len(a)]
    BY ConcatProperties
  <1> DEFINE p == x \o y
             q == a \o b
             m == Len(a)
             n == Len(b)
             u == Len(x)
             v == Len(y)
  <1>6. u = m + 1 /\ v = n - 1 /\ m \in Nat /\ n \in Nat /\ n # 0
    BY <1>1, <1>2, <1>3
  <1>7. Len(p) = Len(q)
    <2>1. Len(p) = u + v /\ Len(q) = m + n
      BY <1>4, <1>5
    <2> HIDE DEF p, q, m, n, u, v
    <2> QED BY <1>6, <2>1
  <1>8. ASSUME NEW i \in 1..Len(p) PROVE p[i] = q[i]
    <2>1. /\ i \in 1..(u + v) /\ p[i] = IF i <= u THEN x[i] ELSE y[i - u]
      BY <1>4
    <2>2. i \in 1..(m + n) /\ q[i] = IF i <= m THEN a[i] ELSE b[i - m]
      BY <1>5, <1>7
    <2>3. CASE i <= m
      <3>1. x[i] = a[i]
        <4>1. i \in 1..m
          <5> HIDE DEF p, q, m, n, u, v
          <5> QED BY <1>6, <2>2, <2>3
        <4> QED BY <1>2, <4>1
      <3>2. i <= u
        <4> HIDE DEF p, q, m, n, u, v
        <4> QED BY <1>6, <2>2, <2>3
      <3> HIDE DEF p, q, m, n, u, v
      <3> QED BY <2>1, <2>2, <2>3, <3>1, <3>2
    <2>4. CASE i = m + 1
      <3>1. x[i] = b[1]
        BY <1>1, <1>2, <2>4
      <3> HIDE DEF p, q, m, n, u, v
      <3>2. i <= u /\ ~(i <= m) /\ i - m = 1
        BY <1>6, <2>4
      <3> QED BY <2>1, <2>2, <3>1, <3>2
    <2>5. CASE i > m + 1
      <3>1. ~(i <= u) /\ ~(i <= m) /\ i - u \in 1..v /\ i - u + 1 = i - m
        <4> HIDE DEF p, q, m, n, u, v
        <4> QED BY <1>6, <2>1, <2>5
      <3>2. y[i - u] = b[i - u + 1]
        BY <1>1, <3>1
      <3> HIDE DEF p, q, m, n, u, v
      <3> QED BY <2>1, <2>2, <3>1, <3>2
    <2>6. i <= m \/ i = m + 1 \/ i > m + 1
      <3> HIDE DEF p, q, m, n, u, v
      <3> QED BY <1>6, <2>2
    <2> QED BY <2>3, <2>4, <2>5, <2>6
  <1> QED BY <1>4, <1>5, <1>7, <1>8, SeqEqual DEF x, y

LEMMA ReadChunkRun ==
    ASSUME IInv, RunInv, ReadChunk
    PROVE  RunInv'
  <1> DEFINE got == Append(dev.got, Head(toDev))
  <1>1. /\ dev.pc = "chunk" /\ toDev # <<>> /\ toDev' = Tail(toDev)
        /\ UNCHANGED <<cl, said, trouble>>
    BY DEF ReadChunk
  <1>2. \/ /\ Len(got) < ChunkUnits /\ dev' = [dev EXCEPT !.got = got]
           /\ UNCHANGED <<slots, toCli, done>>
        \/ /\ ~(Len(got) < ChunkUnits) /\ dev' = [dev EXCEPT !.pc = "loop", !.got = <<>>]
           /\ slots' = [slots EXCEPT ![dev.slot][dev.chunk] = Programmed(@, dev.chunk, got)]
           /\ recovery_send_ack /\ done' = done \cup {"write"}
    BY DEF ReadChunk
  <1>3. /\ dev \in DevTypes /\ toCli \in Seq(AnswerBytes) /\ toDev \in Seq(LineUnits)
        /\ dev.got \in Seq(LineUnits)
    BY DevFields DEF IInv, TypeInv
  <1>4. /\ got \in Seq(LineUnits) /\ toDev' \in Seq(LineUnits)
        /\ got \o toDev' = dev.got \o toDev
    BY <1>1, <1>3, TakeUnit, AppendProperties, UnitMoves
  <1> HIDE DEF got
  <1>5. ~DeviceIdle /\ ~Unanswered
    BY <1>1 DEF DeviceIdle, Unanswered
  <1>6. (\A n : ~Acked(n)) /\ (\A c, k : ~Asked(c, k))
    BY <1>1, <1>5 DEF Acked, Asked
  <1>7. PICK s \in Seq(AnswerBytes) : toCli' = toCli \o s
    <2>1. <<>> \in Seq(AnswerBytes) /\ <<ACK>> \in Seq(AnswerBytes)
      BY AnswerTypes, EmptySeq
    <2>2. toCli' = toCli \o <<>> \/ toCli' = toCli \o <<ACK>>
      BY <1>2, <1>3, AnswerTypes, AppendIsConcat, ConcatEmptySeq DEF recovery_send_ack
    <2> QED BY <2>1, <2>2
  <1>8. SUFFICES ASSUME cl.pc # "off", OnCourse
                 PROVE  OnCourse'
    BY <1>1, <1>5, <1>7, DeviceRun
  <1>9. cl.goal = "upload" /\ cl.pc = "written" /\ AwaitsWritten
    BY <1>1, <1>6, <1>8 DEF OnCourse, AwaitsChallenge, AwaitsVerdict, AwaitsUpload, AwaitsCommand,
                            AwaitsErased, AwaitsReady, AwaitsVerified
  <1>10. /\ cl.off \in 1..NChunks /\ "erase" \in done /\ toCli = <<>> /\ Filled(cl.off - 1)
         /\ dev.slot = "A" /\ dev.chunk = cl.off /\ dev.got \o toDev = Chunk(cl.off)
    BY <1>6, <1>9 DEF AwaitsWritten
  <1>11. /\ Len(got) + Len(toDev') = ChunkUnits
         /\ Len(got) \in Nat /\ Len(toDev') \in Nat /\ ChunkUnits \in Nat
    <2>1. ChunkUnits \in Nat
      BY RecoveryAssumption
    <2>2. Len(Chunk(cl.off)) = ChunkUnits
      BY <2>1 DEF Chunk
    <2>3. Len(got \o toDev') = Len(got) + Len(toDev')
      BY <1>4, ConcatProperties
    <2> QED BY <1>4, <1>10, <2>1, <2>2, <2>3, LenProperties
  <1>12. CASE /\ Len(got) < ChunkUnits /\ dev' = [dev EXCEPT !.got = got]
              /\ UNCHANGED <<slots, toCli, done>>
    <2>1. dev'.pc = "chunk" /\ dev'.slot = "A" /\ dev'.chunk = cl.off /\ dev'.got = got
      BY <1>1, <1>3, <1>10, <1>12 DEF DevTypes
    <2>2. Len(toDev') > 0
      BY <1>11, <1>12
    <2>3. toDev' # <<>>
      BY <2>2, EmptySeq
    <2>4. Filled(cl.off - 1)'
      BY <1>1, <1>10, <1>12, <2>1 DEF Filled
    <2>5. AwaitsWritten'
      BY <1>1, <1>4, <1>10, <1>12, <2>1, <2>3, <2>4 DEF AwaitsWritten, Chunk, DataUnit
    <2> QED BY <1>1, <1>9, <2>5 DEF OnCourse, AwaitsUpload
  <1>13. CASE /\ ~(Len(got) < ChunkUnits) /\ dev' = [dev EXCEPT !.pc = "loop", !.got = <<>>]
              /\ slots' = [slots EXCEPT ![dev.slot][dev.chunk] = Programmed(@, dev.chunk, got)]
              /\ recovery_send_ack /\ done' = done \cup {"write"}
    <2>1. toDev' = <<>>
      <3>1. Len(toDev') = 0
        BY <1>11, <1>13
      <3> QED BY <1>4, <3>1, EmptySeq
    <2>2. got = Chunk(cl.off)
      BY <1>4, <1>10, <2>1, ConcatEmptySeq
    <2>3. "A" \in Slots
      BY <1>10 DEF Filled
    <2>4. Filled(cl.off)'
      <3>1. slots' = [slots EXCEPT !["A"][cl.off] = Programmed(@, cl.off, Chunk(cl.off))]
        BY <1>10, <1>13, <2>2
      <3>2. \A k \in 1..NChunks : Filled(k - 1) /\ k = cl.off => Filled(k)'
        <4>1. dev'.pc = "loop"
          BY <1>3, <1>13 DEF DevTypes
        <4> QED BY <2>3, <3>1, <4>1, ChunkProgrammed
      <3> QED BY <1>1, <1>10, <3>2 DEF Filled
    <2>5. Acked(1)'
      <3>1. dev'.pc = "loop"
        BY <1>3, <1>13 DEF DevTypes
      <3>2. Len(toCli') = 1 /\ Head(toCli') = ACK
        BY <1>10, <1>13, FirstAnswer, OneUnit DEF recovery_send_ack
      <3> QED BY <2>1, <3>1, <3>2 DEF Acked, DeviceIdle
    <2> QED BY <1>1, <1>9, <1>10, <1>13, <2>4, <2>5 DEF OnCourse, AwaitsUpload, AwaitsWritten
  <1> QED BY <1>2, <1>12, <1>13

-----------------------------------------------------------------------------
(* The client's run: steps of the client                                   *)

(* What is sent on an empty line is all it carries.                        *)
LEMMA SentAlone ==
    ASSUME toDev = <<>>, NEW S, NEW units \in Seq(S), Send(units)
    PROVE  toDev' = units
    BY ConcatEmptySeq DEF Send

LEMMA PacketAlone ==
    ASSUME toDev = <<>>, NEW p, Send(<<p>>)
    PROVE  toDev' = <<p>>
  <1>1. <<p>> \in Seq({p})
    OBVIOUS
  <1> QED BY <1>1, SentAlone

(* An exit with anything but "ok" claims nothing.                          *)
LEMMA FailedRun ==
    ASSUME SaidInv, Exit("failed")
    PROVE  RunInv'
  <1>1. /\ said \in Reports
        /\ cl'.pc = "off" /\ said' = [said EXCEPT !.verdict = "failed", !.goal = cl.goal]
    BY DEF Exit, NoClient, SaidInv
  <1>2. said'.verdict = "failed"
    BY <1>1 DEF Reports
  <1> QED BY <1>1, <1>2 DEF RunInv

(* The client starts, in front of an idle device or for nothing.           *)
LEMMA ClientStartRun ==
    ASSUME IInv, ClientStart
    PROVE  RunInv'
  <1>1. /\ toCli' = <<>> /\ UNCHANGED <<dev, slots, trouble>> /\ done' = {}
        /\ said' = NothingSaid(DeviceIdle)
    BY DEF ClientStart, devVars
  <1>2. said'.verdict = "none" /\ said'.idle = DeviceIdle
    BY <1>1 DEF NothingSaid
  <1>3. SUFFICES ASSUME DeviceIdle PROVE OnCourse'
    BY <1>2 DEF RunInv, Undisturbed
  <1>4. PICK goal \in Goals, right \in BOOLEAN :
          /\ cl' = [pc |-> IF NeedsAuth(goal) THEN "challenge" ELSE FirstCommand(goal),
                    goal |-> goal, right |-> right, chal |-> 0, off |-> 0]
          /\ Send(<<Packet(IF NeedsAuth(goal) THEN "auth" ELSE goal, "A", 0)>>)
    BY DEF ClientStart
  <1>5. /\ toDev' = <<Packet(IF NeedsAuth(goal) THEN "auth" ELSE goal, "A", 0)>>
        /\ dev'.pc \in {"loop", "reset"}
    BY <1>1, <1>3, <1>4, PacketAlone DEF DeviceIdle
  <1>6. CASE NeedsAuth(goal)
    <2>1. cl'.pc = "challenge" /\ Asked("auth", 0)'
      BY <1>1, <1>4, <1>5, <1>6 DEF Asked, Packet
    <2> QED BY <2>1 DEF OnCourse, AwaitsChallenge
  <1>7. CASE ~NeedsAuth(goal)
    <2>1. goal # "upload" /\ FirstCommand(goal) = goal
      BY <1>7 DEF NeedsAuth, FirstCommand
    <2>2. cl'.pc = goal /\ cl'.goal = goal /\ Asked(goal, 0)'
      BY <1>1, <1>4, <1>5, <1>7, <2>1 DEF Asked, Packet
    <2> QED BY <2>1, <2>2 DEF OnCourse, AwaitsCommand
  <1> QED BY <1>6, <1>7

(* The client answers the challenge: AUTH again, then the digest.          *)
LEMMA ClientRespondsRun ==
    ASSUME IInv, RunInv, SaidInv, ClientResponds
    PROVE  RunInv'
  <1>1. /\ cl.pc = "challenge" /\ Len(toCli) >= Wanted
        /\ toCli' = SubSeq(toCli, Wanted + 1, Len(toCli))
        /\ UNCHANGED <<dev, slots, trouble, done>>
    BY DEF ClientResponds, devVars
  <1>2. CASE Exit("failed")
    BY <1>2, FailedRun
  <1>3. ASSUME NEW c, toCli[1] = ACK, cl' = [cl EXCEPT !.pc = "verdict", !.chal = c],
               Send((IF Client = "protocol" THEN <<Packet("auth", "A", 0)>> ELSE <<>>)
                    \o Digest(c, cl.right)),
               said' = said
        PROVE  RunInv'
    <2>1. cl'.pc = "verdict" /\ said'.verdict = "none"
      <3>1. cl \in RunningClients
        BY <1>1, ClientFields
      <3> QED BY <1>1, <1>3, <3>1 DEF RunningClients, SaidInv
    <2>2. SUFFICES ASSUME Undisturbed PROVE OnCourse'
      BY <1>1, <1>3, <2>1 DEF RunInv, Undisturbed
    <2>3. Wanted = 2 /\ toCli # <<>> /\ toCli \in Seq(AnswerBytes)
      <3>1. Wanted = 2 /\ toCli \in Seq(AnswerBytes)
        BY <1>1 DEF Wanted, IInv, TypeInv
      <3> QED BY <1>1, <3>1, EmptySeq
    <2>4. ~Refused /\ ~Unanswered
      <3>1. Head(toCli) = ACK
        BY <1>3, <2>3
      <3> QED BY <2>3, <3>1 DEF Refused, Unanswered
    <2>5. AwaitsChallenge
      <3>1. OnCourse
        BY <1>1, <2>2, <2>4 DEF RunInv
      <3>2. cl.goal # "challenge"
        BY <1>1, ClientFields, RecoveryAssumption
      <3> QED BY <1>1, <3>1, <3>2 DEF OnCourse, AwaitsUpload, AwaitsCommand
    <2>6. /\ toDev = <<>> /\ Len(toCli) = 2
          /\ dev.pc = "loop" /\ dev.auth_state = "CHALLENGE_SENT"
      BY <2>3, <2>5 DEF AwaitsChallenge, Asked, Acked, DeviceIdle
    <2>7. toCli' = <<>>
      BY <1>1, <2>3, <2>6, SubSeqEmpty
    <2> DEFINE d == Digest(c, cl.right)
               S == {Packet("auth", "A", 0)} \cup {DigestUnit(c, cl.right, i) : i \in 1..DigestUnits}
    <2>8. /\ d \in Seq(S) /\ Len(d) = DigestUnits /\ <<Packet("auth", "A", 0)>> \in Seq(S)
      <3>1. DigestUnits \in Nat
        BY RecoveryAssumption
      <3>2. d \in [1..DigestUnits -> S]
        BY DEF Digest
      <3>3. d \in Seq(S)
        BY <3>1, <3>2, SeqDef
      <3>4. Len(d) = DigestUnits
        BY <3>1 DEF Digest
      <3>5. Packet("auth", "A", 0) \in S
        OBVIOUS
      <3> HIDE DEF S
      <3> QED BY <3>3, <3>4, <3>5
    <2> HIDE DEF d, S
    <2>9. toDev' = <<Packet("auth", "A", 0)>> \o d
      <3>1. Send(<<Packet("auth", "A", 0)>> \o d)
        BY <1>3, <2>2 DEF Undisturbed, d
      <3>2. <<Packet("auth", "A", 0)>> \o d \in Seq(S)
        BY <2>8, ConcatProperties
      <3> QED BY <2>6, <3>1, <3>2, SentAlone
    <2>10. Len(toDev') = DigestUnits + 1 /\ Head(toDev') = Packet("auth", "A", 0)
      <3>1. DigestUnits \in Nat /\ Len(<<Packet("auth", "A", 0)>>) = 1
        BY RecoveryAssumption
      <3>2. Len(toDev') = 1 + DigestUnits /\ toDev' \in Seq(S)
        BY <2>8, <2>9, <3>1, ConcatProperties
      <3>3. 1 \in 1..(1 + DigestUnits) /\ 1 <= 1
        BY <3>1
      <3>4. toDev'[1] = <<Packet("auth", "A", 0)>>[1]
        BY <2>8, <2>9, <3>1, <3>3, ConcatProperties
      <3>5. toDev' # <<>> /\ Len(toDev') = DigestUnits + 1
        BY <3>1, <3>2, EmptySeq
      <3> QED BY <3>2, <3>4, <3>5
    <2> QED BY <1>1, <2>1, <2>6, <2>7, <2>10 DEF OnCourse, AwaitsVerdict
  <1> QED BY <1>2, <1>3 DEF ClientResponds

(* The client reads an ACK and goes on, or reports success.                *)
LEMMA OnAckRun ==
    ASSUME IInv, SaidInv, Undisturbed, OnCourse, OnAck, cl.pc \notin {"off", "challenge"},
           Head(toCli) = ACK, Len(toCli) >= Wanted,
           toCli' = SubSeq(toCli, Wanted + 1, Len(toCli)),
           UNCHANGED <<dev, slots, trouble, done>>
    PROVE  RunInv'
  <1>1. /\ cl \in RunningClients /\ cl.off \in 0..NChunks /\ NChunks \in Nat
        /\ cl.goal \in {"ping", "info", "log", "erase", "verify", "boot", "factory", "reset", "upload"}
        /\ said \in Reports /\ said.verdict = "none"
    BY ClientFields, GoalCases, RecoveryAssumption DEF SaidInv
  <1>2. toCli # <<>> /\ Wanted \in {1, 2}
    <2>1. Wanted \in {1, 2}
      BY DEF Wanted
    <2> QED BY <2>1, EmptySeq
  <1>3. \A c, k : ~Asked(c, k)
    BY <1>2 DEF Asked
  <1>4. ASSUME Acked(Wanted)
        PROVE  toCli' = <<>> /\ toDev = <<>> /\ dev'.pc \in {"loop", "reset"}
    <2>1. toCli' = <<>>
      BY <1>2, <1>4, SubSeqEmpty DEF Acked
    <2> QED BY <1>4, <2>1 DEF Acked, DeviceIdle
  <1>5. \A n : Filled(n)' <=> Filled(n)
    BY DEF Filled
  <1>6. ASSUME UNCHANGED said, OnCourse' PROVE RunInv'
    BY <1>1, <1>6 DEF RunInv
  <1>7. ASSUME NEW c, NEW k, Acked(Wanted), Send(<<Packet(c, "A", k)>>)
        PROVE  Asked(c, k)'
    BY <1>4, <1>7, PacketAlone DEF Asked, Packet
  <1>8. CASE cl.pc = "verdict"
    <2>1. Wanted = 1 /\ AwaitsVerdict
      BY <1>1, <1>8 DEF Wanted, OnCourse, AwaitsUpload, AwaitsCommand
    <2>2. Acked(Wanted)
      BY <1>2, <2>1 DEF AwaitsVerdict
    <2>3. /\ cl' = [cl EXCEPT !.pc = FirstCommand(cl.goal)]
          /\ Send(<<Packet(FirstCommand(cl.goal), "A", 0)>>) /\ UNCHANGED said
      BY <1>1, <1>8 DEF OnAck, Finished
    <2>4. cl'.pc = FirstCommand(cl.goal) /\ cl'.goal = cl.goal
      BY <1>1, <2>3 DEF RunningClients
    <2>5. Asked(FirstCommand(cl.goal), 0)'
      BY <1>7, <2>2, <2>3
    <2>6. CASE cl.goal = "upload"
      <3>1. cl'.pc = "erase" /\ Asked("erase", 0)'
        BY <2>4, <2>5, <2>6 DEF FirstCommand, Asked
      <3> QED BY <1>6, <2>3, <2>4, <2>6, <3>1 DEF OnCourse, AwaitsUpload, AwaitsErased
    <2>7. CASE cl.goal # "upload"
      <3>1. cl'.pc = cl.goal /\ Asked(cl.goal, 0)'
        BY <2>4, <2>5, <2>7 DEF FirstCommand, Asked
      <3>2. AwaitsCommand'
        BY <2>4, <3>1 DEF AwaitsCommand, Asked
      <3> QED BY <1>6, <2>3, <2>4, <2>7, <3>2 DEF OnCourse
    <2> QED BY <2>6, <2>7
  <1>9. CASE cl.goal = "upload" /\ cl.pc = "erase"
    <2>1. Wanted = 1 /\ AwaitsErased
      BY <1>9 DEF Wanted, OnCourse, AwaitsUpload
    <2>2. Acked(Wanted) /\ "erase" \in done /\ Filled(0)
      BY <1>3, <2>1 DEF AwaitsErased
    <2>3. /\ cl' = [cl EXCEPT !.pc = "ready", !.off = 1]
          /\ Send(<<Packet("write", "A", 1)>>) /\ UNCHANGED said
      BY <1>9 DEF OnAck, Finished
    <2>4. cl'.pc = "ready" /\ cl'.goal = "upload" /\ cl'.off = 1 /\ Asked("write", 1)'
      BY <1>1, <1>7, <1>9, <2>2, <2>3 DEF RunningClients
    <2>5. 1 \in 1..NChunks /\ 1 - 1 = 0
      BY RecoveryAssumption
    <2>6. AwaitsReady'
      BY <1>5, <2>2, <2>4, <2>5 DEF AwaitsReady, Asked, Filled
    <2> QED BY <1>6, <2>3, <2>4, <2>6 DEF OnCourse, AwaitsUpload
  <1>10. CASE cl.goal = "upload" /\ cl.pc = "ready"
    <2>1. Wanted = 1 /\ AwaitsReady
      BY <1>10 DEF Wanted, OnCourse, AwaitsUpload
    <2>2. /\ cl.off \in 1..NChunks /\ "erase" \in done /\ Filled(cl.off - 1)
          /\ toDev = <<>> /\ toCli = <<ACK>>
          /\ dev.pc = "chunk" /\ dev.slot = "A" /\ dev.chunk = cl.off /\ dev.got = <<>>
      BY <1>3, <2>1 DEF AwaitsReady
    <2>3. /\ cl' = [cl EXCEPT !.pc = "written"] /\ Send(Chunk(cl.off)) /\ UNCHANGED said
      BY <1>10 DEF OnAck, Finished
    <2>4. cl'.pc = "written" /\ cl'.goal = "upload" /\ cl'.off = cl.off
      BY <1>1, <1>10, <2>3 DEF RunningClients
    <2>5. toCli' = <<>>
      <3>1. Len(toCli) = 1
        BY <2>2, OneUnit
      <3> QED BY <2>1, <3>1, SubSeqEmpty
    <2>6. Chunk(cl.off) \in Seq(LineUnits) /\ toDev' = Chunk(cl.off)
      BY <1>1, <2>2, <2>3, ChunkIsUnits, SentAlone
    <2>7. toDev' # <<>> /\ dev'.got \o toDev' = Chunk(cl.off)
      <3>1. ChunkUnits \in Nat \ {0}
        BY RecoveryAssumption
      <3>2. Len(Chunk(cl.off)) = ChunkUnits
        BY <3>1 DEF Chunk
      <3>3. toDev' # <<>>
        BY <2>6, <3>1, <3>2, EmptySeq
      <3> QED BY <2>2, <2>6, <3>3, ConcatEmptySeq
    <2>8. Filled(cl.off - 1)'
      BY <2>2, <2>4 DEF Filled
    <2>9. AwaitsWritten'
      BY <2>2, <2>4, <2>5, <2>7, <2>8 DEF AwaitsWritten, Chunk, DataUnit
    <2> QED BY <1>6, <2>3, <2>4, <2>9 DEF OnCourse, AwaitsUpload
  <1>11. CASE cl.goal = "upload" /\ cl.pc = "written"
    <2>1. Wanted = 1 /\ AwaitsWritten
      BY <1>11 DEF Wanted, OnCourse, AwaitsUpload
    <2>2. /\ cl.off \in 1..NChunks /\ "erase" \in done /\ "write" \in done
          /\ Acked(Wanted) /\ Filled(cl.off)
      BY <1>2, <2>1 DEF AwaitsWritten
    <2>3. CASE cl.off < NChunks
      <3>1. /\ cl' = [cl EXCEPT !.pc = "ready", !.off = @ + 1]
            /\ Send(<<Packet("write", "A", cl.off + 1)>>) /\ UNCHANGED said
        BY <1>1, <1>11, <2>3 DEF OnAck, Finished
      <3>2. cl'.pc = "ready" /\ cl'.goal = "upload" /\ cl'.off = cl.off + 1
        BY <1>1, <1>11, <3>1 DEF RunningClients
      <3>3. cl.off + 1 \in 1..NChunks /\ (cl.off + 1) - 1 = cl.off
        BY <1>1, <2>2, <2>3
      <3>4. PICK k \in 1..NChunks : k = cl.off + 1
        BY <3>3
      <3>5. cl'.off = k /\ k - 1 = cl.off /\ Send(<<Packet("write", "A", k)>>)
        BY <3>1, <3>2, <3>3, <3>4
      <3>6. Asked("write", k)' /\ Filled(k - 1)'
        BY <1>5, <1>7, <2>2, <3>5
      <3>7. AwaitsReady'
        BY <2>2, <3>5, <3>6 DEF AwaitsReady, Asked, Filled
      <3> QED BY <1>6, <3>1, <3>2, <3>7 DEF OnCourse, AwaitsUpload
    <2>4. CASE cl.off = NChunks
      <3>1. /\ cl' = [cl EXCEPT !.pc = "verify"]
            /\ Send(<<Packet("verify", "A", 0)>>) /\ UNCHANGED said
        BY <1>1, <1>11, <2>4 DEF OnAck, Finished
      <3>2. cl'.pc = "verify" /\ cl'.goal = "upload" /\ Asked("verify", 0)'
        BY <1>1, <1>7, <1>11, <2>2, <3>1 DEF RunningClients
      <3>3. AwaitsVerified'
        BY <1>5, <2>2, <2>4, <3>2 DEF AwaitsVerified
      <3> QED BY <1>6, <3>1, <3>2, <3>3 DEF OnCourse, AwaitsUpload
    <2> QED BY <1>1, <2>2, <2>3, <2>4
  <1>12. ASSUME Exit("ok"), UNCHANGED toDev
         PROVE  cl'.pc = "off" /\ said'.verdict = "ok" /\ said'.goal = cl.goal
    BY <1>1, <1>12 DEF Exit, NoClient, Reports
  <1>13. CASE cl.goal = "upload" /\ cl.pc = "verify"
    <2>1. Wanted = 1 /\ AwaitsVerified
      BY <1>13 DEF Wanted, OnCourse, AwaitsUpload
    <2>2. /\ {"erase", "write"} \subseteq done /\ Filled(NChunks) /\ "verify" \in done
          /\ Acked(Wanted)
      BY <1>3, <2>1 DEF AwaitsVerified
    <2>3. Exit("ok") /\ UNCHANGED toDev
      BY <1>13 DEF OnAck, Finished
    <2>4. DeviceIdle'
      BY <1>4, <2>2, <2>3 DEF DeviceIdle
    <2>5. said'.goal = "upload" /\ cl'.pc = "off"
      BY <1>12, <1>13, <2>3
    <2>6. Claim(said.goal)'
      BY <1>5, <2>2, <2>5 DEF Claim
    <2> QED BY <2>4, <2>5, <2>6 DEF RunInv
  <1>14. CASE cl.goal # "upload" /\ cl.pc = cl.goal
    <2>1. AwaitsCommand
      BY <1>1, <1>14 DEF OnCourse
    <2>2. Acked(Wanted) /\ cl.goal \in done
      BY <1>3, <2>1 DEF AwaitsCommand
    <2>3. Exit("ok") /\ UNCHANGED toDev
      BY <1>1, <1>14 DEF OnAck, Finished
    <2>4. DeviceIdle'
      BY <1>4, <2>2, <2>3 DEF DeviceIdle
    <2>5. said'.goal = cl.goal /\ cl'.pc = "off"
      BY <1>12, <2>3
    <2>6. Claim(said.goal)'
      BY <1>14, <2>2, <2>5 DEF Claim
    <2> QED BY <2>4, <2>5, <2>6 DEF RunInv
  <1> QED BY <1>8, <1>9, <1>10, <1>11, <1>13, <1>14 DEF OnCourse, AwaitsUpload, AwaitsCommand

LEMMA ClientReadsAckRun ==
    ASSUME IInv, SaidInv, RunInv, ClientReadsAck
    PROVE  RunInv'
  <1>1. /\ cl.pc \notin {"off", "challenge"} /\ Len(toCli) >= Wanted
        /\ toCli' = SubSeq(toCli, Wanted + 1, Len(toCli))
        /\ UNCHANGED <<dev, slots, trouble, done>>
    BY DEF ClientReadsAck, devVars
  <1>2. CASE Exit("failed")
    BY <1>2, FailedRun
  <1>3. CASE Head(toCli) = ACK /\ OnAck
    <2>1. toCli # <<>>
      <3>1. Wanted \in {1, 2}
        BY DEF Wanted
      <3> QED BY <1>1, <3>1, EmptySeq
    <2>2. ~Refused /\ ~Unanswered
      BY <1>3, <2>1 DEF Refused, Unanswered
    <2>3. CASE Undisturbed
      <3>1. OnCourse
        BY <1>1, <2>2, <2>3 DEF RunInv
      <3> QED BY <1>1, <1>3, <2>3, <3>1, OnAckRun
    <2>4. CASE ~Undisturbed
      <3>1. said'.idle = said.idle /\ said'.trouble = said.trouble
        BY <1>3 DEF OnAck, Exit, SaidInv, Reports
      <3> QED BY <1>1, <2>4, <3>1 DEF Undisturbed, RunInv
    <2> QED BY <2>3, <2>4
  <1> QED BY <1>2, <1>3 DEF ClientReadsAck

-----------------------------------------------------------------------------
(* The client's run: the theorem                                           *)

(* Trouble is counted up, and a report keeps what its client found.        *)
LEMMA SaidStep ==
    ASSUME IInv, SaidInv, [Next]_vars
    PROVE  SaidInv'
  <1>1. said \in Reports /\ trouble \in Nat /\ said.trouble <= trouble
        /\ (cl.pc # "off" => said.verdict = "none")
    BY DEF SaidInv
  <1>2. ASSUME said' = said, trouble' \in {trouble, trouble + 1},
               cl'.pc # "off" => cl.pc # "off"
        PROVE  SaidInv'
    <2>1. said.trouble \in Nat
      BY <1>1 DEF Reports
    <2>2. trouble' \in Nat /\ said.trouble <= trouble'
      BY <1>1, <1>2, <2>1
    <2> QED BY <1>1, <1>2, <2>2 DEF SaidInv
  <1>3. ASSUME NEW v \in {"ok", "failed"}, Exit(v), cl.pc # "off",
               trouble' \in {trouble, trouble + 1}
        PROVE  SaidInv'
    <2>1. cl.goal \in Goals
      BY <1>3, ClientFields
    <2>2. said' \in Reports /\ said'.trouble = said.trouble
      BY <1>1, <1>3, <2>1 DEF Exit, Reports
    <2>3. cl'.pc = "off"
      BY <1>3 DEF Exit, NoClient
    <2>4. said.trouble \in Nat
      BY <1>1 DEF Reports
    <2>5. trouble' \in Nat /\ said.trouble <= trouble'
      BY <1>1, <1>3, <2>4
    <2> QED BY <2>2, <2>3, <2>5 DEF SaidInv
  <1>4. CASE ClientStart
    <2>1. trouble' = trouble /\ said' = NothingSaid(DeviceIdle)
      BY <1>4 DEF ClientStart
    <2>2. DeviceIdle \in BOOLEAN
      BY DEF DeviceIdle
    <2>3. /\ said'.trouble = trouble /\ said'.verdict = "none"
          /\ said' \in Reports
      BY <1>1, <2>1, <2>2 DEF NothingSaid, Reports
    <2>4. trouble <= trouble
      BY <1>1
    <2> QED BY <1>1, <2>1, <2>3, <2>4 DEF SaidInv
  <1>5. CASE Device \/ eos_recovery_enter
    <2>1. CASE Device
      BY <1>2, <2>1 DEF Device, CommandLoop, Backoff, ReadResponse, ReadChunk,
                        ReceiveTimeout, FreeOrCharge, Charge
    <2>2. CASE eos_recovery_enter
      <3>1. said' = said /\ cl' = cl
        BY <2>2 DEF eos_recovery_enter
      <3>2. trouble' \in {trouble, trouble + 1}
        BY <2>2 DEF eos_recovery_enter, AppFactoryReset, Charge
      <3> QED BY <1>2, <3>1, <3>2
    <2> QED BY <1>5, <2>1, <2>2
  <1>6. CASE FlashError \/ Line
    BY <1>2, <1>6 DEF FlashError, Line, LoseUnit, DamageUnit, LoseAnswer, Charge
  <1>7. CASE ClientResponds
    <2>1. cl.pc = "challenge" /\ UNCHANGED trouble
      BY <1>7 DEF ClientResponds
    <2>2. UNCHANGED said \/ Exit("failed")
      BY <1>7 DEF ClientResponds
    <2> QED BY <1>2, <1>3, <2>1, <2>2
  <1>8. CASE ClientReadsAck
    <2>1. cl.pc # "off" /\ UNCHANGED trouble
      BY <1>8 DEF ClientReadsAck
    <2>2. UNCHANGED said \/ Exit("failed") \/ Exit("ok")
      BY <1>8 DEF ClientReadsAck, OnAck
    <2> QED BY <1>2, <1>3, <2>1, <2>2
  <1>9. CASE ClientTimeout
    BY <1>3, <1>9 DEF ClientTimeout, FreeOrCharge, Charge
  <1>10. CASE UNCHANGED vars
    BY <1>2, <1>10 DEF vars
  <1> QED BY <1>4, <1>5, <1>6, <1>7, <1>8, <1>9, <1>10 DEF Next, ClientProgram

LEMMA RunStep ==
    ASSUME IInv, SaidInv, RunInv, [Next]_vars
    PROVE  RunInv'
  <1>1. CASE CommandLoop
    BY <1>1, CommandLoopRun
  <1>2. CASE Backoff
    BY <1>2, BackoffRun
  <1>3. CASE ReadResponse
    BY <1>3, ReadResponseRun
  <1>4. CASE ReadChunk
    BY <1>4, ReadChunkRun
  <1>5. CASE ReceiveTimeout
    BY <1>5, ReceiveTimeoutRun
  <1>6. CASE eos_recovery_enter
    BY <1>6, EnterRun
  <1>7. CASE FlashError \/ Line
    <2>1. trouble' = trouble + 1 /\ said' = said
      BY <1>7 DEF FlashError, Line, LoseUnit, DamageUnit, LoseAnswer, Charge
    <2>2. said.trouble \in Nat /\ trouble \in Nat /\ said.trouble <= trouble
      BY DEF SaidInv, Reports
    <2>3. trouble' # said'.trouble
      BY <2>1, <2>2
    <2> QED BY <2>3 DEF RunInv, Undisturbed
  <1>8. CASE ClientStart
    BY <1>8, ClientStartRun
  <1>9. CASE ClientResponds
    BY <1>9, ClientRespondsRun
  <1>10. CASE ClientReadsAck
    BY <1>10, ClientReadsAckRun
  <1>11. CASE ClientTimeout
    BY <1>11, FailedRun DEF ClientTimeout
  <1>12. CASE UNCHANGED vars
    <2>1. UNCHANGED <<dev, slots, toDev, toCli, cl, trouble, done, said>>
      BY <1>12 DEF vars, devVars
    <2>2. (Undisturbed' <=> Undisturbed) /\ (Refused' <=> Refused) /\ (Unanswered' <=> Unanswered)
      BY <2>1 DEF Undisturbed, Refused, Unanswered
    <2>3. OnCourse' <=> OnCourse
      BY <2>1 DEF OnCourse, AwaitsChallenge, AwaitsVerdict, AwaitsUpload, AwaitsCommand, AwaitsErased,
                  AwaitsReady, AwaitsWritten, AwaitsVerified, Asked, Acked, Filled, DeviceIdle,
                  Wanted, Packet, Chunk, DataUnit
    <2>4. (DeviceIdle' <=> DeviceIdle) /\ (Claim(said.goal)' <=> Claim(said.goal))
      BY <2>1 DEF DeviceIdle, Claim, Filled
    <2> QED BY <2>1, <2>2, <2>3, <2>4 DEF RunInv
  <1> QED BY <1>1, <1>2, <1>3, <1>4, <1>5, <1>6, <1>7, <1>8, <1>9, <1>10, <1>11, <1>12
          DEF Next, Device, ClientProgram

(* A client that found the device idle and reports success is right, for   *)
(* every sub-command, image size and number of runs: recovery_handle_*()   *)
(* say ACK only for what they did, and no ACK is taken for another's.      *)
THEOREM SuccessTold == Spec => []SuccessIsTrue
  <1>1. Init => SaidInv /\ RunInv
    <2> SUFFICES ASSUME Init PROVE SaidInv /\ RunInv
      OBVIOUS
    <2>1. said = NothingSaid(TRUE) /\ trouble = 0 /\ cl = NoClient
      BY DEF Init
    <2>2. /\ said \in Reports /\ said.verdict = "none" /\ said.trouble = 0
          /\ cl.pc = "off"
      BY <2>1 DEF NothingSaid, Reports, NoClient
    <2>3. trouble \in Nat /\ said.trouble <= trouble
      <3>1. trouble = 0 /\ said.trouble = 0
        BY <2>1, <2>2
      <3> QED BY <3>1
    <2>4. SaidInv
      BY <2>2, <2>3 DEF SaidInv
    <2>5. RunInv
      BY <2>2 DEF RunInv
    <2> QED BY <2>4, <2>5
  <1>2. IInv /\ SaidInv /\ RunInv /\ [Next]_vars => SaidInv' /\ RunInv'
    BY SaidStep, RunStep
  <1>3. IInv /\ SaidInv /\ RunInv => SuccessIsTrue
    <2> SUFFICES ASSUME IInv, RunInv,
                        said.verdict = "ok", said.idle, trouble = said.trouble, Client = "protocol"
                 PROVE  IF said.goal = "upload"
                        THEN /\ {"erase", "write", "verify"} \subseteq done
                             /\ "A" \in Slots => slots["A"] = Whole("sent")
                        ELSE said.goal \in done
      BY DEF SuccessIsTrue
    <2>1. Claim(said.goal)
      BY DEF RunInv, Undisturbed
    <2>2. CASE said.goal = "upload"
      <3>1. {"erase", "write", "verify"} \subseteq done /\ Filled(NChunks)
        BY <2>1, <2>2 DEF Claim
      <3>2. "A" \in Slots /\ slots["A"] \in [1..NChunks -> Marks]
        BY <3>1 DEF Filled, IInv, TypeInv
      <3>3. \A k \in 1..NChunks : k <= NChunks
        BY RecoveryAssumption
      <3>4. \A k \in 1..NChunks : slots["A"][k] = "sent"
        BY <3>1, <3>3 DEF Filled
      <3>5. slots["A"] = Whole("sent")
        BY <3>2, <3>4 DEF Whole
      <3> QED BY <2>2, <3>1, <3>5
    <2>3. CASE said.goal # "upload"
      BY <2>1, <2>3 DEF Claim
    <2> QED BY <2>2, <2>3
  <1> QED BY <1>1, <1>2, <1>3, InvariantHolds, PTL DEF Spec

=============================================================================
