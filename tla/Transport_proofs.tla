-------------------------- MODULE Transport_proofs --------------------------
(***************************************************************************)
(* Proofs about a firmware transfer, for any files, lengths of header,     *)
(* slot and blocks, and any amount of trouble on the line; for what        *)
(* depends on block numbers, less of it than there are numbers.            *)
(***************************************************************************)
EXTENDS Transport, SequenceTheorems, FiniteSetTheorems, FunctionTheorems, TLAPS

-----------------------------------------------------------------------------
(* The update context                                                      *)

Contexts ==
  [state : States, hdr_buf : Seq(Nat), payload_written : Nat, tlv_written : Nat,
   total_received : Nat, flash : Seq(Nat)]

(* What each state of the context says of its counters.  The header is in  *)
(* hdr_buf until it is accepted; from then on the flash holds all that was *)
(* taken.                                                                  *)
HeaderInv(c) ==
  /\ Len(c.hdr_buf) < HdrLen /\ c.flash = <<>>
  /\ c.payload_written = 0 /\ c.tlv_written = 0
  /\ c.total_received = Len(c.hdr_buf)

BodyInv(c) ==
  /\ ParseHeader(file) = "EOS_OK"
  /\ Len(c.hdr_buf) = HdrLen
  /\ Len(c.flash) = HdrLen + c.payload_written + c.tlv_written
  /\ c.total_received = Len(c.flash)
  /\ c.state = "PAYLOAD" => c.payload_written < file.image_size /\ c.tlv_written = 0
  /\ c.state = "TLV" => c.payload_written = file.image_size /\ c.tlv_written < file.tlv_len
  /\ c.state = "VERIFY" => c.payload_written = file.image_size /\ c.tlv_written = file.tlv_len

ContextInv(c) ==
  /\ c \in Contexts
  /\ Len(c.hdr_buf) <= HdrLen /\ Len(c.flash) <= SlotSize
  /\ c.payload_written <= file.image_size /\ c.tlv_written <= file.tlv_len
  /\ c.state = "HEADER" => HeaderInv(c)
  /\ c.state \in {"PAYLOAD", "TLV", "VERIFY"} => BodyInv(c)

Open(c) == c.state \in {"HEADER", "PAYLOAD", "TLV", "VERIFY"}

Prefix(c) == Ascending(c.hdr_buf) /\ Ascending(c.flash)

(* What was taken is the file so far, and the data go on with it.          *)
Continues(c, data) ==
  /\ Prefix(c)
  /\ \A k \in 1..Len(data) : data[k] = Unit(c.total_received + k)

(* What the receive functions return.                                      *)
Errors ==
  {"EOS_ERR_NO_IMAGE", "EOS_ERR_FULL", "EOS_ERR_INVALID", "EOS_ERR_FLASH",
   "EOS_ERR_GENERIC", "EOS_ERR_TIMEOUT"}

(* How one call cuts its data, as lengths.                                 *)
LEMMA Cuts ==
  ASSUME file \in File, NEW c, ContextInv(c), c.state \in {"HEADER", "PAYLOAD", "TLV"},
         NEW n \in Nat, n # 0
  PROVE  LET hdr == HeaderUnits(c, n)
             payload == PayloadUnits(file, c, n)
             tlv == TlvUnits(file, c, n)
         IN  /\ hdr \in Nat /\ payload \in Nat /\ tlv \in Nat
             /\ hdr + payload + tlv <= n
             /\ Len(c.hdr_buf) + hdr <= HdrLen
             /\ c.payload_written + payload <= file.image_size
             /\ c.tlv_written + tlv <= file.tlv_len
             /\ c.state # "HEADER" => hdr = 0
             /\ HeaderEnds(c, n) => Len(c.hdr_buf) + hdr = HdrLen
             /\ (c.state = "HEADER" /\ ~HeaderEnds(c, n)) =>
                   hdr = n /\ Len(c.hdr_buf) + hdr < HdrLen
             /\ ~Accepted(file, c, n) => payload = 0 /\ tlv = 0
             /\ Accepted(file, c, n) =>
                   /\ payload < n - hdr => c.payload_written + payload = file.image_size
                   /\ payload + tlv < n - hdr => c.tlv_written + tlv = file.tlv_len
                   /\ tlv > 0 => c.payload_written + payload = file.image_size
  <1> DEFINE hdr == HeaderUnits(c, n)
             payload == PayloadUnits(file, c, n)
             tlv == TlvUnits(file, c, n)
  <1>1. /\ file.image_size \in Nat /\ file.tlv_len \in Nat /\ HdrLen \in Nat /\ n \in Nat
        /\ Len(c.hdr_buf) \in Nat /\ Len(c.hdr_buf) <= HdrLen
        /\ c.payload_written \in 0..file.image_size /\ c.tlv_written \in 0..file.tlv_len
    BY FileAssumption, LengthAssumption, LenProperties DEF ContextInv, Contexts
  <1>2. /\ hdr \in 0..n /\ Len(c.hdr_buf) + hdr <= HdrLen
        /\ c.state # "HEADER" => hdr = 0
        /\ HeaderEnds(c, n) => Len(c.hdr_buf) + hdr = HdrLen
        /\ (c.state = "HEADER" /\ ~HeaderEnds(c, n)) =>
                   hdr = n /\ Len(c.hdr_buf) + hdr < HdrLen
    <2>1. CASE c.state = "HEADER"
      <3>1. hdr = IF n < HdrLen - Len(c.hdr_buf) THEN n ELSE HdrLen - Len(c.hdr_buf)
        BY <2>1 DEF HeaderUnits, Lesser
      <3>2. HeaderEnds(c, n) <=> n >= HdrLen - Len(c.hdr_buf)
        BY <2>1 DEF HeaderEnds
      <3> HIDE DEF hdr
      <3>3. CASE n < HdrLen - Len(c.hdr_buf)
        <4>1. ~HeaderEnds(c, n) /\ hdr = n
          BY <1>1, <3>1, <3>2, <3>3
        <4> QED BY <1>1, <2>1, <3>3, <4>1
      <3>4. CASE n >= HdrLen - Len(c.hdr_buf)
        <4>1. HeaderEnds(c, n)
          BY <3>2, <3>4
        <4>2. hdr = HdrLen - Len(c.hdr_buf)
          <5>1. HdrLen - Len(c.hdr_buf) \in Int
            BY <1>1
          <5>2. ~(n < HdrLen - Len(c.hdr_buf))
            BY <5>1, <3>4
          <5> QED BY <3>1, <5>2
        <4> QED BY <1>1, <2>1, <3>4, <4>1, <4>2
      <3> QED BY <1>1, <3>3, <3>4
    <2>2. CASE c.state # "HEADER"
      BY <1>1, <2>2 DEF HeaderUnits, HeaderEnds
    <2> QED BY <2>1, <2>2
  <1>3. payload = IF Accepted(file, c, n)
                  THEN Lesser(n - hdr, file.image_size - c.payload_written) ELSE 0
    BY DEF PayloadUnits
  <1>4. tlv = IF Accepted(file, c, n)
              THEN Lesser(n - hdr - payload, file.tlv_len - c.tlv_written) ELSE 0
    BY DEF TlvUnits
  <1> HIDE DEF hdr, payload, tlv
  <1>5. /\ payload \in 0..(n - hdr)
        /\ c.payload_written + payload <= file.image_size
        /\ ~Accepted(file, c, n) => payload = 0
        /\ Accepted(file, c, n) /\ payload < n - hdr
              => c.payload_written + payload = file.image_size
    BY <1>1, <1>2, <1>3 DEF Lesser
  <1>6. /\ tlv \in 0..(n - hdr - payload)
        /\ c.tlv_written + tlv <= file.tlv_len
        /\ ~Accepted(file, c, n) => tlv = 0
        /\ Accepted(file, c, n) /\ payload + tlv < n - hdr
              => c.tlv_written + tlv = file.tlv_len
    BY <1>1, <1>2, <1>4, <1>5 DEF Lesser
  <1> QED BY <1>2, <1>5, <1>6 DEF hdr, payload, tlv

(* Sequences that continue the file.                                       *)
LEMMA AscendingConcat ==
  ASSUME NEW s \in Seq(Nat), NEW t \in Seq(Nat), Ascending(s),
         \A k \in 1..Len(t) : t[k] = Unit(Len(s) + k)
  PROVE  Ascending(s \o t)
  <1>1. /\ s \o t \in Seq(Nat) /\ Len(s \o t) = Len(s) + Len(t)
        /\ Len(s) \in Nat /\ Len(t) \in Nat
        /\ \A i \in 1..Len(s) + Len(t) :
              (s \o t)[i] = IF i <= Len(s) THEN s[i] ELSE t[i - Len(s)]
    BY ConcatProperties, LenProperties
  <1>2. ASSUME NEW i \in 1..Len(s \o t)
        PROVE  (s \o t)[i] = Unit(i)
    <2>1. CASE i <= Len(s)
      BY <1>1, <2>1 DEF Ascending
    <2>2. CASE ~(i <= Len(s))
      <3>1. i - Len(s) \in 1..Len(t) /\ Len(s) + (i - Len(s)) = i
        BY <1>1, <2>2
      <3>2. t[i - Len(s)] = Unit(Len(s) + (i - Len(s)))
        BY <3>1
      <3> QED BY <1>1, <2>2, <3>1, <3>2
    <2> QED BY <2>1, <2>2
  <1> QED BY <1>1, <1>2 DEF Ascending

LEMMA Piece ==
  ASSUME NEW data \in Seq(Nat), NEW m \in Nat, NEW n \in Nat, m <= n, n <= Len(data)
  PROVE  /\ SubSeq(data, m + 1, n) \in Seq(Nat)
         /\ Len(SubSeq(data, m + 1, n)) = n - m
         /\ \A k \in 1..(n - m) : SubSeq(data, m + 1, n)[k] = data[m + k]
  <1>1. \A i \in (m + 1)..n : data[i] \in Nat
    BY ElementOfSeq, LenProperties
  <1>2. m + 1 \in Int /\ n \in Int
    OBVIOUS
  <1> DEFINE p == SubSeq(data, m + 1, n)
  <1>3. /\ p \in Seq(Nat)
        /\ Len(p) = IF m + 1 <= n THEN n - (m + 1) + 1 ELSE 0
        /\ \A i \in 1..(n - (m + 1) + 1) : p[i] = data[m + 1 + i - 1]
    BY <1>1, <1>2, SubSeqProperties
  <1> HIDE DEF p
  <1>4. n - (m + 1) + 1 = n - m
    OBVIOUS
  <1>5. \A i \in 1..(n - m) : m + 1 + i - 1 = m + i
    OBVIOUS
  <1>6. \A i \in 1..(n - m) : p[i] = data[m + i]
    BY <1>3, <1>4, <1>5
  <1>7. Len(p) = n - m
    BY <1>3
  <1> QED BY <1>3, <1>6, <1>7 DEF p

(* Arithmetic of the lengths of a call.                                    *)
LEMMA Sums ==
  /\ \A x, y, z \in Nat : x + (y + z) = x + y + z /\ x + y \in Nat /\ x + (y + z) \in Nat
  /\ \A x, y, z \in Nat : ~(x + y < z) /\ x + y <= z => x + y = z
  /\ \A x, y, z, m \in Nat : x + y <= m /\ z <= y => x + z <= m
  OBVIOUS

(* A call appends to the context what it takes of its data.                *)
LEMMA WrittenContext ==
  ASSUME file \in File, NEW c, ContextInv(c), c.state \in {"HEADER", "PAYLOAD", "TLV"},
         NEW data \in Seq(Nat), Len(data) # 0, NEW failing
  PROVE  LET n == Len(data)
             d == Written(file, c, data, failing)
         IN  /\ ContextInv(d)
             /\ Continues(c, data) => Prefix(d)
             /\ Len(d.flash) <= c.total_received + n
             /\ ~TlvError(file, c, n, failing) =>
                  Open(d) /\ d.total_received = c.total_received + UnitsTaken(file, c, n)
  <1> DEFINE n == Len(data)
             d == Written(file, c, data, failing)
             hdr == HeaderUnits(c, n)
             payload == PayloadUnits(file, c, n)
             tlv == TlvUnits(file, c, n)
             pay == IF PayloadError(file, c, n, failing) THEN 0 ELSE payload
             tl == IF TlvError(file, c, n, failing) THEN 0 ELSE tlv
             buf == c.hdr_buf \o SubSeq(data, 1, hdr)
             rest == SubSeq(data, hdr + 1, hdr + pay + tl)
             bad == TlvError(file, c, n, failing)
             acc == Accepted(file, c, n)
             ends == HeaderEnds(c, n)
             bl == Len(c.hdr_buf)
             fl == Len(c.flash)
             dbl == Len(d.hdr_buf)
             dfl == Len(d.flash)
             pw == c.payload_written
             tw == c.tlv_written
             tr == c.total_received
             isz == file.image_size
             tsz == file.tlv_len
  <1>1. /\ isz \in Nat /\ tsz \in Nat /\ HdrLen \in Nat /\ SlotSize \in Nat
        /\ HdrLen # 0
        /\ bl \in Nat /\ fl \in Nat
        /\ pw \in Nat /\ tw \in Nat /\ tr \in Nat
        /\ n \in Nat /\ n # 0
    BY FileAssumption, LengthAssumption, LenProperties DEF ContextInv, Contexts
  <1>0. /\ c.hdr_buf \in Seq(Nat) /\ c.flash \in Seq(Nat) /\ data \in Seq(Nat)
    BY DEF ContextInv, Contexts
  <1>22. Continues(c, data) =>
           /\ Ascending(c.hdr_buf) /\ Ascending(c.flash)
           /\ \A k \in 1..n : data[k] = Unit(tr + k)
    BY DEF Prefix, Continues
  <1>2. /\ hdr \in Nat /\ payload \in Nat /\ tlv \in Nat
        /\ hdr + payload + tlv <= n
        /\ bl + hdr <= HdrLen
        /\ pw + payload <= isz
        /\ tw + tlv <= tsz
        /\ c.state # "HEADER" => hdr = 0
        /\ ends => bl + hdr = HdrLen
        /\ (c.state = "HEADER" /\ ~ends) => hdr = n /\ bl + hdr < HdrLen
        /\ ~acc => payload = 0 /\ tlv = 0
        /\ acc =>
              /\ payload < n - hdr => pw + payload = isz
              /\ payload + tlv < n - hdr => tw + tlv = tsz
    BY <1>1, Cuts
  <1>3. /\ pay \in Nat /\ pay <= payload /\ tl \in Nat /\ tl <= tlv
        /\ ~bad => pay = payload /\ tl = tlv
    BY <1>2 DEF TlvError
  <1>20. /\ hdr \in Nat /\ payload \in Nat /\ tlv \in Nat /\ pay \in Nat /\ tl \in Nat
         /\ hdr + payload + tlv <= n /\ pay <= payload /\ tl <= tlv
         /\ bl + hdr <= HdrLen
         /\ pw + payload <= isz
         /\ tw + tlv <= tsz
    BY <1>2, <1>3
  <1>4. d = [state |-> IF bad THEN "ERROR" ELSE NextState(file, c, n),
             hdr_buf |-> buf,
             payload_written |-> pw + pay,
             tlv_written |-> tw + tl,
             total_received |-> IF bad THEN tr
                                ELSE tr + UnitsTaken(file, c, n),
             flash |-> IF ends
                       THEN IF HeaderError(file, c, n, failing) THEN <<>> ELSE buf \o rest
                       ELSE c.flash \o rest]
    BY DEF Written, Counted
  <1>5. UnitsTaken(file, c, n) = hdr + payload + tlv
    BY DEF UnitsTaken
  <1>6. /\ ends => c.state = "HEADER"
        /\ acc <=> (c.state \in {"PAYLOAD", "TLV"} \/ (ends /\ ParseHeader(file) = "EOS_OK"))
        /\ HeaderError(file, c, n, failing) => bad
        /\ ends /\ ~HeaderError(file, c, n, failing) => acc
    BY DEF HeaderEnds, Accepted, HeaderError, TlvError, PayloadError
  <1>7. NextState(file, c, n) =
          IF ~acc THEN "HEADER"
          ELSE IF pw + payload < isz THEN "PAYLOAD"
          ELSE IF tw + tlv < tsz THEN "TLV" ELSE "VERIFY"
    BY DEF NextState
  <1>8. /\ c.state = "HEADER" => c.flash = <<>> /\ fl = 0 /\ pw = 0
              /\ tw = 0 /\ tr = bl
        /\ c.state # "HEADER" =>
              /\ ParseHeader(file) = "EOS_OK" /\ bl = HdrLen
              /\ fl = HdrLen + pw + tw
              /\ tr = fl
              /\ c.state = "PAYLOAD" => tw = 0
              /\ c.state = "TLV" => pw = isz
    BY EmptySeq DEF ContextInv, HeaderInv, BodyInv
  <1>9. ParseHeader(file) = "EOS_OK" =>
           /\ HdrLen + isz + tsz <= SlotSize
           /\ isz # 0
    BY <1>1 DEF ParseHeader, ContainerLen
  <1> HIDE DEF n, d, hdr, payload, tlv, pay, tl, bad, acc, ends, bl, fl, dbl, dfl,
               pw, tw, tr, isz, tsz
  <1>10. /\ buf \in Seq(Nat) /\ Len(buf) = bl + hdr
         /\ Continues(c, data) => Ascending(buf)
    <2> DEFINE p == SubSeq(data, 0 + 1, hdr)
    <2>1. /\ p \in Seq(Nat) /\ Len(p) = hdr - 0
          /\ \A k \in 1..(hdr - 0) : p[k] = data[0 + k]
      <3>1. hdr \in Nat /\ 0 \in Nat /\ 0 <= hdr /\ hdr <= Len(data)
        BY <1>1, <1>2 DEF n
      <3> QED BY <1>0, <3>1, Piece
    <2>2. buf = c.hdr_buf \o p
      OBVIOUS
    <2> HIDE DEF p
    <2>3. ASSUME Continues(c, data)
          PROVE  \A k \in 1..Len(p) : p[k] = Unit(bl + k)
      <3> SUFFICES ASSUME NEW k \in 1..Len(p) PROVE p[k] = Unit(bl + k)
        OBVIOUS
      <3>1. k \in 1..n /\ k \in 1..(hdr - 0) /\ 0 + k = k /\ hdr # 0
        BY <1>1, <1>2, <2>1
      <3>2. tr = bl
        BY <1>2, <1>8, <3>1
      <3> QED BY <1>22, <2>1, <2>3, <3>1, <3>2
    <2>4. Len(p) = hdr
      BY <1>2, <2>1
    <2> HIDE DEF buf
    <2>5. Continues(c, data) => Ascending(buf)
      BY <1>0, <1>22, <2>1, <2>2, <2>3, AscendingConcat DEF bl
    <2> QED BY <1>0, <2>1, <2>2, <2>4, <2>5, ConcatProperties DEF bl
  <1>11. /\ rest \in Seq(Nat) /\ Len(rest) = pay + tl
         /\ Continues(c, data) =>
               \A k \in 1..(pay + tl) : rest[k] = Unit(tr + hdr + k)
    <2> DEFINE end == hdr + pay + tl
    <2>1. end \in Nat /\ hdr <= end /\ end <= n /\ end - hdr = pay + tl
      BY <1>1, <1>20
    <2>5. rest = SubSeq(data, hdr + 1, end)
      OBVIOUS
    <2> HIDE DEF rest, end
    <2>2. /\ rest \in Seq(Nat) /\ Len(rest) = end - hdr
          /\ \A k \in 1..(end - hdr) : rest[k] = data[hdr + k]
      <3>1. hdr \in Nat /\ end \in Nat /\ hdr <= end /\ end <= Len(data)
        BY <1>20, <2>1 DEF n
      <3> QED BY <1>0, <2>5, <3>1, Piece
    <2>4. ASSUME Continues(c, data), NEW k \in 1..(pay + tl)
          PROVE  rest[k] = Unit(tr + hdr + k)
      <3>1. /\ hdr + k \in 1..n /\ tr + (hdr + k) = tr + hdr + k
            /\ k \in 1..(end - hdr)
        BY <1>1, <1>20, <2>1
      <3>2. data[hdr + k] = Unit(tr + (hdr + k))
        BY <1>22, <2>4, <3>1
      <3> QED BY <2>2, <3>1, <3>2
    <2> QED BY <2>1, <2>2, <2>4
  <1> HIDE DEF buf, rest
  <1>12. /\ d.flash \in Seq(Nat)
         /\ Continues(c, data) => Ascending(d.flash)
         /\ ends /\ ~HeaderError(file, c, n, failing) => dfl = HdrLen + pay + tl
         /\ ends /\ HeaderError(file, c, n, failing) => dfl = 0
         /\ ~ends => dfl = fl + pay + tl
    <2>1. CASE ends /\ HeaderError(file, c, n, failing)
      <3>1. d.flash = <<>>
        BY <1>4, <2>1
      <3>2. <<>> \in Seq(Nat) /\ Len(<<>>) = 0
        BY EmptySeq
      <3> QED BY <2>1, <3>1, <3>2 DEF Ascending, dfl
    <2>2. CASE ends /\ ~HeaderError(file, c, n, failing)
      <3>1. d.flash = buf \o rest
        BY <1>4, <2>2
      <3>2. tr + hdr = Len(buf) /\ Len(buf) = HdrLen
        BY <1>1, <1>2, <1>6, <1>8, <1>10, <2>2
      <3>3. Continues(c, data) => Ascending(buf \o rest)
        <4> SUFFICES ASSUME Continues(c, data) PROVE Ascending(buf \o rest)
          OBVIOUS
        <4>1. \A k \in 1..Len(rest) : rest[k] = Unit(Len(buf) + k)
          BY <1>11, <3>2
        <4> QED BY <1>10, <1>11, <4>1, AscendingConcat
      <3>4. buf \o rest \in Seq(Nat) /\ Len(buf \o rest) = Len(buf) + Len(rest)
        BY <1>10, <1>11, ConcatProperties
      <3>5. dfl = HdrLen + pay + tl
        <4>1. dfl = HdrLen + (pay + tl)
          BY <1>11, <3>1, <3>2, <3>4 DEF dfl
        <4> QED BY <1>1, <1>20, <4>1, Sums
      <3> QED BY <2>2, <3>1, <3>3, <3>4, <3>5
    <2>3. CASE ~ends
      <3>1. d.flash = c.flash \o rest
        BY <1>4, <2>3
      <3>2. ASSUME Continues(c, data)
            PROVE  \A k \in 1..Len(rest) : rest[k] = Unit(fl + k)
        <4>1. CASE c.state = "HEADER"
          <5>1. ~acc /\ pay + tl = 0
            BY <1>2, <1>3, <1>6, <2>3, <4>1
          <5> QED BY <1>11, <3>2, <5>1
        <4>2. CASE c.state # "HEADER"
          <5>1. tr + hdr = fl
            BY <1>1, <1>2, <1>8, <4>2
          <5> QED BY <1>11, <3>2, <5>1
        <4> QED BY <4>1, <4>2
      <3>3. c.flash \o rest \in Seq(Nat) /\ Len(c.flash \o rest) = fl + Len(rest)
        BY <1>0, <1>11, ConcatProperties DEF fl
      <3>5. Continues(c, data) => Ascending(c.flash \o rest)
        BY <1>0, <1>11, <1>22, <3>2, AscendingConcat DEF fl
      <3>4. dfl = fl + pay + tl
        <4>1. dfl = fl + (pay + tl)
          BY <1>11, <3>1, <3>3 DEF dfl
        <4> QED BY <1>1, <1>20, <4>1, Sums
      <3> QED BY <2>3, <3>1, <3>3, <3>4, <3>5
    <2> QED BY <2>1, <2>2, <2>3

  <1>13. /\ d.hdr_buf = buf
         /\ d.payload_written = pw + pay /\ d.tlv_written = tw + tl
         /\ bad => d.state = "ERROR" /\ d.total_received = tr
         /\ ~bad => /\ d.state = NextState(file, c, n)
                    /\ d.total_received = tr + (hdr + payload + tlv)
    BY <1>4, <1>5
  <1>21. dbl = bl + hdr
    BY <1>10, <1>13 DEF dbl
  <1>14. dfl <= SlotSize /\ dfl <= tr + n
    <2>1. CASE ends /\ HeaderError(file, c, n, failing)
      BY <1>1, <1>12, <2>1
    <2>2. CASE ends /\ ~HeaderError(file, c, n, failing)
      <3>1. /\ ParseHeader(file) = "EOS_OK" /\ pw = 0 /\ tw = 0
            /\ tr + hdr = HdrLen
        BY <1>1, <1>2, <1>6, <1>8, <2>2
      <3>2. HdrLen + isz + tsz <= SlotSize
        BY <1>9, <3>1
      <3>3. dfl = HdrLen + pay + tl
        BY <1>12, <2>2
      <3> QED BY <1>1, <1>20, <3>1, <3>2, <3>3
    <2>3. CASE ~ends /\ c.state = "HEADER"
      <3>1. ~acc /\ pay = 0 /\ tl = 0
        BY <1>2, <1>3, <1>6, <2>3
      <3> QED BY <1>1, <1>8, <1>12, <2>3, <3>1
    <2>4. CASE ~ends /\ c.state # "HEADER"
      <3>1. /\ ParseHeader(file) = "EOS_OK"
            /\ fl = HdrLen + pw + tw
            /\ tr = fl /\ dfl = fl + pay + tl
        BY <1>8, <1>12, <2>4
      <3>2. HdrLen + isz + tsz <= SlotSize
        BY <1>9, <3>1
      <3>3. /\ tr = HdrLen + pw + tw
            /\ dfl = HdrLen + pw + tw + pay + tl
        BY <3>1
      <3> QED BY <1>1, <1>20, <3>2, <3>3
    <2> QED BY <2>1, <2>2, <2>3, <2>4
  <1>15. d \in Contexts
    <2>1. d.state \in States
      BY <1>7, <1>13 DEF States
    <2>2. /\ d.payload_written \in Nat /\ d.tlv_written \in Nat /\ d.total_received \in Nat
      <3>1. d.payload_written = pw + pay /\ d.tlv_written = tw + tl
        BY <1>13
      <3>2. \/ d.total_received = tr
            \/ d.total_received = tr + (hdr + payload + tlv)
        BY <1>13
      <3>3. hdr + payload + tlv \in Nat
        BY <1>20
      <3> QED BY <1>1, <1>20, <3>1, <3>2, <3>3, Sums
    <2>3. d = [state |-> d.state, hdr_buf |-> d.hdr_buf, payload_written |-> d.payload_written,
               tlv_written |-> d.tlv_written, total_received |-> d.total_received,
               flash |-> d.flash]
      BY <1>4
    <2> QED BY <1>10, <1>12, <1>13, <2>1, <2>2, <2>3 DEF Contexts
  <1>16. ~bad => Open(d) /\ (d.state = "HEADER" => HeaderInv(d))
                         /\ (d.state # "HEADER" => BodyInv(d))
    <2> SUFFICES ASSUME ~bad
                 PROVE  Open(d) /\ (d.state = "HEADER" => HeaderInv(d))
                                /\ (d.state # "HEADER" => BodyInv(d))
      OBVIOUS
    <2>0. /\ pay = payload /\ tl = tlv /\ d.state = NextState(file, c, n)
          /\ d.total_received = tr + (hdr + payload + tlv)
          /\ ~HeaderError(file, c, n, failing)
      BY <1>3, <1>6, <1>13
    <2>1. CASE ~acc
      <3>1. /\ d.state = "HEADER" /\ c.state = "HEADER" /\ ~ends
            /\ payload = 0 /\ tlv = 0 /\ hdr = n
        BY <1>2, <1>6, <1>7, <2>0, <2>1
      <3>2. dbl = tr + hdr /\ dbl < HdrLen
        BY <1>1, <1>2, <1>8, <1>21, <3>1
      <3>3. /\ dfl = 0 /\ d.payload_written = 0 /\ d.tlv_written = 0
            /\ d.total_received = dbl
        <4>1. /\ pw = 0 /\ tw = 0 /\ fl = 0
              /\ d.payload_written = pw + pay /\ d.tlv_written = tw + tl
              /\ dfl = fl + pay + tl
          BY <1>8, <1>12, <1>13, <3>1
        <4> QED BY <1>1, <1>20, <2>0, <3>1, <3>2, <4>1
      <3>4. d.flash = <<>>
        BY <1>12, <3>3, EmptySeq DEF dfl
      <3> QED BY <3>1, <3>2, <3>3, <3>4 DEF Open, HeaderInv, dbl
    <2>2. CASE acc
      <3>1. /\ ParseHeader(file) = "EOS_OK" /\ dbl = HdrLen
            /\ tr + hdr = HdrLen + pw + tw
        <4>1. CASE c.state = "HEADER"
          <5>1. /\ ends /\ ParseHeader(file) = "EOS_OK" /\ pw = 0
                /\ tw = 0 /\ tr = bl
            BY <1>6, <1>8, <2>2, <4>1
          <5>2. bl + hdr = HdrLen /\ dbl = bl + hdr
            BY <1>2, <1>21, <5>1
          <5> QED BY <1>1, <1>20, <5>1, <5>2
        <4>2. CASE c.state # "HEADER"
          <5>1. /\ ParseHeader(file) = "EOS_OK" /\ bl = HdrLen
                /\ fl = HdrLen + pw + tw
                /\ tr = fl
            BY <1>8, <4>2
          <5>2. hdr = 0 /\ dbl = bl + hdr
            BY <1>2, <1>21, <4>2
          <5> QED BY <1>1, <1>20, <5>1, <5>2
        <4> QED BY <4>1, <4>2
      <3>2. dfl = HdrLen + d.payload_written + d.tlv_written
        <4>0. d.payload_written = pw + pay /\ d.tlv_written = tw + tl
          BY <1>13
        <4>1. CASE ends
          <5>1. dfl = HdrLen + pay + tl /\ pw = 0 /\ tw = 0
            BY <1>6, <1>8, <1>12, <2>0, <4>1
          <5> QED BY <1>1, <1>20, <4>0, <5>1
        <4>2. CASE ~ends
          <5>1. /\ dfl = fl + pay + tl
                /\ fl = HdrLen + pw + tw
            BY <1>6, <1>8, <1>12, <2>2, <4>2
          <5>2. HdrLen + isz + tsz <= SlotSize
            BY <1>9, <3>1
          <5> QED BY <1>1, <1>20, <4>0, <5>1, <5>2
        <4> QED BY <4>1, <4>2
      <3>3. d.total_received = dfl
        <4>1. d.payload_written = pw + pay /\ d.tlv_written = tw + tl
          BY <1>13
        <4>2. HdrLen + isz + tsz <= SlotSize
          BY <1>9, <3>1
        <4>3. tr + (hdr + payload + tlv)
                = HdrLen + (pw + payload) + (tw + tlv)
          BY <1>1, <1>20, <3>1, <4>2
        <4> QED BY <2>0, <3>2, <4>1, <4>3
      <3>4. /\ d.state \in {"PAYLOAD", "TLV", "VERIFY"}
            /\ d.state = "PAYLOAD" => pw + payload < isz
            /\ d.state # "PAYLOAD" => ~(pw + payload < isz)
            /\ d.state = "TLV" => tw + tlv < tsz
            /\ d.state = "VERIFY" => ~(tw + tlv < tsz)
        BY <1>7, <2>0, <2>2
      <3>5. d.state = "PAYLOAD" => tw + tlv = 0
        <4> SUFFICES ASSUME d.state = "PAYLOAD" PROVE tw = 0 /\ tlv = 0
          BY <1>1, <1>2
        <4>1. pw + payload < isz
          BY <3>4
        <4>2. payload = n - hdr /\ tlv = 0
          BY <1>1, <1>2, <2>2, <4>1
        <4>3. pw < isz
          BY <1>1, <1>2, <4>1
        <4> QED BY <1>1, <1>8, <4>2, <4>3
      <3>6. /\ d.state # "PAYLOAD" => pw + payload = isz
            /\ d.state = "VERIFY" => tw + tlv = tsz
        <4>1. ~(pw + payload < isz)
                 => pw + payload = isz
          BY <1>1, <1>20, Sums
        <4>2. ~(tw + tlv < tsz) => tw + tlv = tsz
          BY <1>1, <1>20, Sums
        <4> QED BY <3>4, <4>1, <4>2
      <3> QED BY <1>13, <2>0, <3>1, <3>2, <3>3, <3>4, <3>5, <3>6
             DEF Open, BodyInv, dbl, dfl, isz, tsz
    <2> QED BY <2>1, <2>2
  <1>17. ContextInv(d)
    <2>1. /\ d.payload_written <= isz /\ d.tlv_written <= tsz
          /\ dbl <= HdrLen
      <3>1. /\ d.payload_written = pw + pay /\ d.tlv_written = tw + tl
            /\ dbl = bl + hdr
        BY <1>13, <1>21
      <3> QED BY <1>1, <1>20, <3>1, Sums
    <2> QED BY <1>13, <1>14, <1>15, <1>16, <2>1 DEF ContextInv, dbl, dfl, isz, tsz
  <1>18. Continues(c, data) => Prefix(d)
    BY <1>10, <1>12, <1>13 DEF Prefix
  <1>19. ~bad => Open(d) /\ d.total_received = tr + UnitsTaken(file, c, n)
    BY <1>5, <1>13, <1>16
  <1> QED BY <1>14, <1>17, <1>18, <1>19 DEF n, d, bad, dfl, tr

(* eos_fw_update_write() on any context that has not failed: what it gets  *)
(* is appended in order, never past the slot, and a success has taken all. *)
LEMMA WriteStep ==
  ASSUME file \in File, NEW c, ContextInv(c), Open(c), NEW data \in Seq(Nat), NEW failing
  PROVE  LET w == eos_fw_update_write(file, c, data, failing)
         IN  /\ ContextInv(w.ctx)
             /\ Continues(c, data) => Prefix(w.ctx)
             /\ w.ctx.flash = c.flash \/ Len(w.ctx.flash) <= c.total_received + Len(data)
             /\ w.rc = "EOS_OK" =>
                  Open(w.ctx) /\ w.ctx.total_received = c.total_received + Len(data)
             /\ w.rc \in Errors \cup {"EOS_OK"}
  <1> DEFINE w == eos_fw_update_write(file, c, data, failing)
             n == Len(data)
  <1>0. n \in Nat
    BY LenProperties
  <1>1. CASE Closed(c, n)
    <2>1. w.ctx = c /\ w.rc = "EOS_ERR_INVALID"
      BY <1>1 DEF eos_fw_update_write
    <2> QED BY <2>1 DEF Errors, Continues
  <1>2. CASE ~Closed(c, n)
    <2>1. n # 0 /\ c.state \in {"HEADER", "PAYLOAD", "TLV"}
      BY <1>2 DEF Closed, Open
    <2>2. w.ctx = Written(file, c, data, failing) /\ w.rc = WriteResult(file, c, n, failing)
      BY <1>2 DEF eos_fw_update_write
    <2>3. /\ ContextInv(w.ctx)
          /\ Continues(c, data) => Prefix(w.ctx)
          /\ Len(w.ctx.flash) <= c.total_received + n
          /\ ~TlvError(file, c, n, failing) =>
               Open(w.ctx) /\ w.ctx.total_received = c.total_received + UnitsTaken(file, c, n)
      BY <2>1, <2>2, WrittenContext
    <2>4. UnitsTaken(file, c, n) \in Nat /\ UnitsTaken(file, c, n) <= n
      BY <1>0, <2>1, Cuts DEF UnitsTaken
    <2>5. /\ w.rc \in Errors \cup {"EOS_OK"}
          /\ w.rc = "EOS_OK" => ~TlvError(file, c, n, failing) /\ ~(UnitsTaken(file, c, n) < n)
      BY <2>2 DEF WriteResult, ParseHeader, Errors
    <2>6. w.rc = "EOS_OK" => UnitsTaken(file, c, n) = n
      BY <1>0, <2>4, <2>5
    <2> HIDE DEF w, n
    <2> QED BY <2>3, <2>5, <2>6 DEF w, n
  <1> QED BY <1>1, <1>2

(* eos_fw_update_bytes_wanted(): nothing is wanted exactly when the        *)
(* container is complete, otherwise what is missing of header or container.*)
LEMMA WantedUnits ==
  ASSUME file \in File, NEW c, ContextInv(c), Open(c)
  PROVE  LET wanted == eos_fw_update_bytes_wanted(file, c)
         IN  /\ wanted \in Nat
             /\ wanted = 0 <=> c.state = "VERIFY"
             /\ c.state = "HEADER" => c.total_received + wanted = HdrLen
             /\ c.state # "HEADER" => c.total_received + wanted = ContainerLen(file)
             /\ c.state = "VERIFY" => Len(c.flash) = ContainerLen(file)
  <1> DEFINE wanted == eos_fw_update_bytes_wanted(file, c)
             bl == Len(c.hdr_buf)
             fl == Len(c.flash)
             pw == c.payload_written
             tw == c.tlv_written
             tr == c.total_received
             isz == file.image_size
             tsz == file.tlv_len
  <1>1. /\ isz \in Nat /\ tsz \in Nat /\ HdrLen \in Nat /\ bl \in Nat /\ fl \in Nat
        /\ pw \in Nat /\ tw \in Nat /\ tr \in Nat
        /\ pw <= isz /\ tw <= tsz
    BY FileAssumption, LengthAssumption, LenProperties DEF ContextInv, Contexts
  <1>2. /\ c.state = "HEADER" => wanted = HdrLen - bl
        /\ c.state = "PAYLOAD" => wanted = (isz - pw) + (tsz - tw)
        /\ c.state = "TLV" => wanted = tsz - tw
        /\ c.state = "VERIFY" => wanted = 0
    BY DEF eos_fw_update_bytes_wanted
  <1>3. c.state = "HEADER" => bl < HdrLen /\ tr = bl
    BY DEF ContextInv, HeaderInv
  <1>4. c.state \in {"PAYLOAD", "TLV", "VERIFY"} =>
           /\ tr = fl /\ fl = HdrLen + pw + tw
           /\ c.state = "PAYLOAD" => pw < isz /\ tw = 0
           /\ c.state = "TLV" => pw = isz /\ tw < tsz
           /\ c.state = "VERIFY" => pw = isz /\ tw = tsz
    BY DEF ContextInv, BodyInv
  <1>5. ContainerLen(file) = HdrLen + isz + tsz
    BY DEF ContainerLen
  <1> HIDE DEF wanted, bl, fl, pw, tw, tr, isz, tsz
  <1>6. CASE c.state = "HEADER"
    <2>1. wanted \in Nat /\ wanted # 0 /\ tr + wanted = HdrLen
      BY <1>1, <1>2, <1>3, <1>6
    <2> QED BY <1>6, <2>1 DEF wanted, tr
  <1>7. CASE c.state = "PAYLOAD"
    <2>1. wanted \in Nat /\ wanted # 0 /\ tr + wanted = ContainerLen(file)
      BY <1>1, <1>2, <1>4, <1>5, <1>7
    <2> QED BY <1>7, <2>1 DEF wanted, tr
  <1>8. CASE c.state = "TLV"
    <2>1. wanted \in Nat /\ wanted # 0 /\ tr + wanted = ContainerLen(file)
      BY <1>1, <1>2, <1>4, <1>5, <1>8
    <2> QED BY <1>8, <2>1 DEF wanted, tr
  <1>9. CASE c.state = "VERIFY"
    <2>1. wanted = 0 /\ tr + wanted = ContainerLen(file) /\ fl = ContainerLen(file)
      BY <1>1, <1>2, <1>4, <1>5, <1>9
    <2> QED BY <1>9, <2>1 DEF wanted, tr, fl
  <1> QED BY <1>6, <1>7, <1>8, <1>9 DEF Open

(* A pass of write_container_bytes() has delivered what it used, in order. *)
PassInv(p, data) ==
  /\ ContextInv(p.ctx)
  /\ Continues(ctx, data) => Prefix(p.ctx)
  /\ p.used \in Nat /\ p.used <= Len(data)
  /\ p.ctx.flash = ctx.flash \/ Len(p.ctx.flash) <= ctx.total_received + Len(data)
  /\ p.rc \in Errors \cup {"EOS_OK"}
  /\ p.rc = "EOS_OK" => Open(p.ctx) /\ p.ctx.total_received = ctx.total_received + p.used

LEMMA PassStep ==
  ASSUME file \in File, ctx.total_received \in Nat, NEW data \in Seq(Nat),
         NEW p, PassInv(p, data), NEW failing
  PROVE  LET q == ContainerPass(p, data, failing)
         IN  /\ PassInv(q, data)
             /\ q.rc = "EOS_OK" => \/ q.used = Len(data)
                                   \/ q.ctx.state = "VERIFY"
                                   \/ p.ctx.state = "HEADER" /\ q.ctx.state # "HEADER"
  <1> DEFINE q == ContainerPass(p, data, failing)
             wanted == eos_fw_update_bytes_wanted(file, p.ctx)
             n == Lesser(Len(data) - p.used, wanted)
             piece == SubSeq(data, p.used + 1, p.used + n)
             w == eos_fw_update_write(file, p.ctx, piece, failing)
             dl == Len(data)
             us == p.used
             tr == ctx.total_received
             ptr == p.ctx.total_received
             wtr == w.ctx.total_received
             pl == Len(piece)
             wfl == Len(w.ctx.flash)
  <1>1. q = IF p.rc # "EOS_OK" \/ n = 0 THEN p
            ELSE [ctx |-> w.ctx, used |-> p.used + n, rc |-> w.rc]
    BY DEF ContainerPass
  <1>2. CASE p.rc # "EOS_OK"
    <2>1. q = p
      BY <1>1, <1>2
    <2> QED BY <1>2, <2>1
  <1>3. CASE p.rc = "EOS_OK"
    <2>1. /\ dl \in Nat /\ us \in Nat /\ us <= dl /\ tr \in Nat /\ ptr = tr + us
          /\ ContextInv(p.ctx) /\ Open(p.ctx)
      BY <1>3, LenProperties DEF PassInv
    <2>2. /\ wanted \in Nat
          /\ wanted = 0 <=> p.ctx.state = "VERIFY"
          /\ p.ctx.state = "HEADER" => ptr + wanted = HdrLen
          /\ p.ctx.state # "HEADER" => ptr + wanted = ContainerLen(file)
      BY <2>1, WantedUnits
    <2>3. n = IF dl - us < wanted THEN dl - us ELSE wanted
      BY DEF Lesser
    <2> HIDE DEF q, wanted, n, dl, us, tr, ptr, wtr, pl, wfl
    <2>4. /\ n \in Nat /\ us + n \in Nat /\ us <= us + n /\ us + n <= dl /\ us + n - us = n
          /\ n = dl - us \/ n = wanted
      <3>1. CASE dl - us < wanted
        <4>1. n = dl - us
          BY <2>3, <3>1
        <4> QED BY <2>1, <4>1
      <3>2. CASE ~(dl - us < wanted)
        <4>1. n = wanted
          BY <2>3, <3>2
        <4> QED BY <2>1, <2>2, <3>2, <4>1
      <3> QED BY <3>1, <3>2
    <2>5. CASE n = 0
      <3>1. q = p
        BY <1>1, <2>5
      <3>2. us = dl \/ p.ctx.state = "VERIFY"
        BY <2>1, <2>2, <2>4, <2>5
      <3> QED BY <3>1, <3>2 DEF q, us, dl
    <2>6. CASE n # 0
      <3>1. q = [ctx |-> w.ctx, used |-> p.used + n, rc |-> w.rc]
        BY <1>1, <1>3, <2>6
      <3>2. /\ piece \in Seq(Nat) /\ pl = n
            /\ \A k \in 1..n : piece[k] = data[us + k]
        <4> DEFINE e == us + n
        <4>1. piece = SubSeq(data, us + 1, e)
          BY DEF us
        <4>2. data \in Seq(Nat) /\ e \in Nat /\ us \in Nat /\ us <= e /\ e <= Len(data) /\ e - us = n
          BY <2>1, <2>4 DEF dl
        <4> HIDE DEF e, piece
        <4> QED BY <4>1, <4>2, Piece DEF pl
      <3> HIDE DEF piece
      <3>3. Continues(ctx, data) => Continues(p.ctx, piece)
        <4> SUFFICES ASSUME Continues(ctx, data), NEW k \in 1..n
                     PROVE  piece[k] = Unit(ptr + k)
          BY <3>2 DEF Continues, PassInv, pl, ptr
        <4>1. us + k \in 1..dl /\ tr + (us + k) = ptr + k
          BY <2>1, <2>4
        <4>2. data[us + k] = Unit(tr + (us + k))
          BY <4>1 DEF Continues, tr, dl
        <4> QED BY <3>2, <4>1, <4>2
      <3>4. /\ ContextInv(w.ctx)
            /\ Continues(p.ctx, piece) => Prefix(w.ctx)
            /\ w.ctx.flash = p.ctx.flash \/ wfl <= ptr + pl
            /\ w.rc = "EOS_OK" => Open(w.ctx) /\ wtr = ptr + pl
            /\ w.rc \in Errors \cup {"EOS_OK"}
        BY <2>1, <3>2, WriteStep DEF ptr, pl, wfl, wtr
      <3> HIDE DEF w
      <3>5. w.ctx.flash = p.ctx.flash \/ wfl <= tr + dl
        <4>1. ptr + pl <= tr + dl
          BY <2>1, <2>4, <3>2
        <4>2. wfl \in Nat
          BY <3>4, LenProperties DEF ContextInv, Contexts, wfl
        <4>3. wfl <= ptr + pl => wfl <= tr + dl
          BY <2>1, <2>4, <3>2, <4>1, <4>2
        <4> QED BY <3>4, <4>3
      <3>6. w.rc = "EOS_OK" => wtr = tr + (us + n)
        BY <2>1, <2>4, <3>2, <3>4
      <3>7. PassInv(q, data)
        <4>1. q.ctx = w.ctx /\ q.used = us + n /\ q.rc = w.rc
          BY <3>1 DEF us
        <4>2. w.ctx.flash = ctx.flash \/ wfl <= tr + dl
          BY <3>5 DEF PassInv, wfl, tr, dl
        <4> QED BY <2>4, <3>3, <3>4, <3>6, <4>1, <4>2 DEF PassInv, wfl, tr, dl, wtr
      <3>8. ASSUME w.rc = "EOS_OK"
            PROVE  \/ us + n = dl \/ w.ctx.state = "VERIFY"
                   \/ p.ctx.state = "HEADER" /\ w.ctx.state # "HEADER"
        <4>0. Open(w.ctx) /\ wtr = ptr + n
          BY <3>2, <3>4, <3>8
        <4> DEFINE more == eos_fw_update_bytes_wanted(file, w.ctx)
        <4>1. /\ more \in Nat
              /\ more = 0 <=> w.ctx.state = "VERIFY"
              /\ w.ctx.state = "HEADER" => wtr + more = HdrLen
              /\ w.ctx.state # "HEADER" => wtr + more = ContainerLen(file)
          BY <3>4, <4>0, WantedUnits DEF wtr
        <4>2. HdrLen \in Nat /\ ContainerLen(file) \in Nat /\ HdrLen <= ContainerLen(file)
          <5>1. file.image_size \in Nat /\ file.tlv_len \in Nat /\ HdrLen \in Nat
            BY FileAssumption, LengthAssumption
          <5> QED BY <5>1 DEF ContainerLen
        <4> HIDE DEF more
        <4>3. CASE n = dl - us
          BY <2>1, <4>3
        <4>4. CASE n = wanted /\ p.ctx.state = "HEADER"
          <5>1. wtr = HdrLen
            BY <2>2, <4>0, <4>4
          <5>2. w.ctx.state = "HEADER" => more = 0
            BY <4>1, <4>2, <5>1
          <5> QED BY <4>1, <4>4, <5>2
        <4>5. CASE n = wanted /\ p.ctx.state # "HEADER"
          <5>1. wtr = ContainerLen(file)
            BY <2>2, <4>0, <4>5
          <5>2. more = 0
            BY <4>1, <4>2, <5>1
          <5> QED BY <4>1, <5>2
        <4> QED BY <2>4, <4>3, <4>4, <4>5
      <3> QED BY <3>1, <3>7, <3>8 DEF q, us, dl
    <2> QED BY <2>5, <2>6
  <1> QED BY <1>2, <1>3

(* write_container_bytes() delivers all its data, or completes the         *)
(* container, or fails.                                                    *)
LEMMA ContainerBytes ==
  ASSUME file \in File, ContextInv(ctx), Open(ctx), NEW data \in Seq(Nat), NEW failing,
         NEW w \in write_container_bytes(data, failing)
  PROVE  /\ PassInv(w, data)
         /\ w.rc = "EOS_OK" => w.used = Len(data) \/ w.ctx.state = "VERIFY"
  <1> DEFINE p == ContainerPass(NoPass, data, failing)
             q == ContainerPass(p, data, failing)
  <1>1. w = q
    BY DEF write_container_bytes
  <1>2. ctx.total_received \in Nat /\ Len(data) \in Nat
    BY LenProperties DEF ContextInv, Contexts
  <1>3. PassInv(NoPass, data)
    <2>1. ctx.total_received = ctx.total_received + 0
      BY <1>2
    <2> QED BY <1>2, <2>1 DEF PassInv, NoPass, Continues
  <1>4. /\ PassInv(p, data)
        /\ p.rc = "EOS_OK" => \/ p.used = Len(data) \/ p.ctx.state = "VERIFY"
                              \/ p.ctx.state # "HEADER"
    BY <1>2, <1>3, PassStep
  <1> HIDE DEF p
  <1>5. /\ PassInv(q, data)
        /\ q.rc = "EOS_OK" => \/ q.used = Len(data) \/ q.ctx.state = "VERIFY"
                              \/ p.ctx.state = "HEADER"
    BY <1>2, <1>4, PassStep
  <1>6. p.ctx.state = "HEADER" /\ q.rc = "EOS_OK" => q.used = Len(data) \/ q.ctx.state = "VERIFY"
    <2> SUFFICES ASSUME p.ctx.state = "HEADER", q.rc = "EOS_OK"
                 PROVE  q.used = Len(data) \/ q.ctx.state = "VERIFY"
      OBVIOUS
    <2> DEFINE wanted == eos_fw_update_bytes_wanted(file, p.ctx)
               n == Lesser(Len(data) - p.used, wanted)
    <2>1. CASE p.rc # "EOS_OK"
      BY <2>1 DEF ContainerPass
    <2>2. CASE p.rc = "EOS_OK"
      <3>1. p.used = Len(data) /\ ContextInv(p.ctx) /\ Open(p.ctx)
        BY <1>4, <2>2 DEF PassInv
      <3>2. wanted \in Nat
        BY <3>1, WantedUnits
      <3> HIDE DEF wanted
      <3>3. n = 0
        BY <1>2, <3>1, <3>2 DEF Lesser
      <3>4. q = p
        BY <3>3 DEF ContainerPass, wanted
      <3> QED BY <3>1, <3>4
    <2> QED BY <2>1, <2>2
  <1> HIDE DEF q
  <1> QED BY <1>1, <1>5, <1>6

-----------------------------------------------------------------------------
(* The transfer, whatever the line does                                    *)

Phases == {"start", "zero", "data", "eot", "done"}

Frames ==
  [kind : {"SOH", "STX", "EOT", "CAN", "noise", "LEN", "DATA"}, blk : Nat,
   data : Seq(Nat), intact : BOOLEAN]

Senders == [phase : Phases, off : Nat, n : Nat, blk : Nat]

Receivers ==
  [expected_blk : Nat, first_block : BOOLEAN, file_size : Nat, total_received : Nat,
   rc : Errors \cup {"EOS_OK", Running}]

Answers == {"C", "ACK", "NAK", "CAN"}

SenderInv ==
  /\ proto \in Protocols /\ file \in File
  /\ snd \in Senders /\ toRcv \in Seq(Frames)
  /\ proto = "raw" => snd.off <= file.len

(* The context is sound, it is open as long as the receive function runs,  *)
(* and complete when that returns a success.                               *)
ReceiverInv ==
  /\ toSnd \in Seq(Answers)
  /\ rcv \in Receivers /\ rcv.expected_blk < BlkMod
  /\ trouble \in 0..MaxTrouble /\ spoilt \in BOOLEAN
  /\ ContextInv(ctx)
  /\ rcv.rc = Running => Open(ctx)
  /\ rcv.rc = "EOS_OK" => ctx.state = "VERIFY"

BaseInv == SenderInv /\ ReceiverInv

(* A context of the file is one in the next state, too.                    *)
LEMMA SameContext ==
  ASSUME NEW c, ContextInv(c), file' = file, ctx' = c
  PROVE  ContextInv(ctx)'
  BY DEF ContextInv, HeaderInv, BodyInv, ParseHeader, ContainerLen

LEMMA BaseInit == Init => BaseInv
  <1> SUFFICES ASSUME Init PROVE BaseInv
    OBVIOUS
  <1>1. /\ proto \in Protocols /\ file \in File /\ trouble = 0 /\ spoilt = FALSE
        /\ toRcv = <<>>
    BY DEF Init
  <1>2. <<>> \in Seq(Frames) /\ <<>> \in Seq(Nat)
    BY EmptySeq
  <1>3. toSnd \in Seq(Answers)
    <2>1. toSnd = <<>> \/ toSnd = <<"C">>
      BY DEF Init
    <2>2. <<>> \in Seq(Answers)
      BY EmptySeq
    <2>3. <<"C">> \in Seq(Answers)
      BY DEF Answers
    <2> QED BY <2>1, <2>2, <2>3
  <1>4. snd \in Senders /\ snd.off = 0
    BY DEF Init, Senders, Phases
  <1>5. rcv \in Receivers /\ rcv.rc = Running /\ rcv.expected_blk \in {0, 1}
    BY DEF Init, Receivers, Running
  <1>6. ctx = [state |-> "HEADER", hdr_buf |-> <<>>, payload_written |-> 0,
               tlv_written |-> 0, total_received |-> 0, flash |-> <<>>]
    BY DEF Init, eos_fw_update_begin, NoContext
  <1>7. /\ HdrLen \in Nat /\ HdrLen # 0 /\ SlotSize \in Nat
        /\ file.image_size \in Nat /\ file.tlv_len \in Nat /\ file.len \in Nat
    BY <1>1, FileAssumption, LengthAssumption
  <1>8. ContextInv(ctx) /\ Open(ctx)
    <2>1. Len(<<>>) = 0 /\ 0 < HdrLen /\ 0 <= HdrLen /\ 0 <= SlotSize
          /\ 0 <= file.image_size /\ 0 <= file.tlv_len
      BY <1>7, EmptySeq
    <2> QED BY <1>2, <1>6, <2>1 DEF ContextInv, Contexts, HeaderInv, Open, States
  <1>9. rcv.expected_blk < BlkMod /\ trouble \in 0..MaxTrouble /\ snd.off <= file.len
    BY <1>1, <1>4, <1>5, <1>7, LineAssumption
  <1> QED BY <1>1, <1>2, <1>3, <1>4, <1>5, <1>8, <1>9 DEF BaseInv, SenderInv, ReceiverInv, Running

(* What the receiver does with a frame: it refuses it, gives up, or        *)
(* delivers its data.                                                      *)
LEMMA AnswersTyped ==
  ASSUME toSnd \in Seq(Answers), NEW a \in Answers
  PROVE  /\ toSnd \o <<a>> \in Seq(Answers) /\ <<a>> \in Seq(Answers)
         /\ toSnd \o <<>> = toSnd /\ <<>> \in Seq(Answers)
  <1>1. <<a>> \in Seq(Answers)
    OBVIOUS
  <1>2. <<>> \in Seq(Answers)
    BY EmptySeq
  <1> QED BY <1>1, <1>2, ConcatProperties, ConcatEmptySeq

LEMMA RefuseInv ==
  ASSUME BaseInv, file' = file, NEW a \in Answers, Refuse(a)
  PROVE  ReceiverInv'
  <1>1. toSnd' \in Seq(Answers)
    BY AnswersTyped DEF BaseInv, ReceiverInv, Refuse, Answer
  <1>2. ContextInv(ctx)'
    BY SameContext DEF BaseInv, ReceiverInv, Refuse
  <1> QED BY <1>1, <1>2 DEF BaseInv, ReceiverInv, Refuse, Open

LEMMA GiveUpInv ==
  ASSUME BaseInv, file' = file, NEW a \in Seq(Answers), NEW rc \in Errors \cup {"EOS_OK"},
         rc = "EOS_OK" => ctx.state = "VERIFY", GiveUp(a, rc)
  PROVE  ReceiverInv'
  <1>1. toSnd' \in Seq(Answers)
    BY ConcatProperties DEF BaseInv, ReceiverInv, GiveUp, Answer
  <1>2. ContextInv(ctx)'
    BY SameContext DEF BaseInv, ReceiverInv, GiveUp
  <1>3. rcv' \in Receivers /\ rcv'.rc = rc /\ rcv'.expected_blk = rcv.expected_blk
    BY DEF BaseInv, ReceiverInv, GiveUp, Return, Receivers
  <1>4. rc # Running
    BY DEF Errors, Running
  <1>5. UNCHANGED <<ctx, trouble, spoilt>>
    BY DEF GiveUp
  <1> QED BY <1>1, <1>2, <1>3, <1>4, <1>5 DEF BaseInv, ReceiverInv

LEMMA FlashReportedTyped ==
  ASSUME BaseInv, NEW failing, NEW rc, FlashReported(failing, rc)
  PROVE  trouble' \in 0..MaxTrouble /\ spoilt' \in BOOLEAN /\ trouble <= trouble'
  <1>1. trouble \in 0..MaxTrouble /\ spoilt \in BOOLEAN /\ MaxTrouble \in Nat
    BY LineAssumption DEF BaseInv, ReceiverInv
  <1>2. CASE UNCHANGED <<trouble, spoilt>>
    BY <1>1, <1>2
  <1>3. CASE trouble < MaxTrouble /\ trouble' = trouble + 1 /\ spoilt' = TRUE
    BY <1>1, <1>3
  <1> QED BY <1>2, <1>3 DEF FlashReported

(* What a delivery does to context and receiver.                           *)
LEMMA Delivery ==
  ASSUME BaseInv, rcv.rc = Running, NEW data \in Seq(Nat), Deliver(data)
  PROVE  \E w : /\ PassInv(w, data) /\ ctx' = w.ctx
                /\ trouble' \in 0..MaxTrouble /\ spoilt' \in BOOLEAN /\ trouble <= trouble'
                /\ \/ /\ w.rc = "EOS_OK" /\ Answer(<<"ACK">>)
                      /\ w.used = Len(data) \/ w.ctx.state = "VERIFY"
                      /\ rcv' = [rcv EXCEPT !.expected_blk = (@ + 1) % BlkMod,
                                            !.total_received = @ + Len(data)]
                   \/ /\ w.rc \in Errors /\ Answer(<<"CAN">>)
                      /\ rcv' = [rcv EXCEPT !.rc = w.rc]
  <1>0. PICK failing \in FlashOutcome : \E w \in write_container_bytes(data, failing) :
          /\ FlashReported(failing, w.rc)
          /\ ctx' = w.ctx
          /\ IF w.rc = "EOS_OK"
             THEN /\ Answer(<<"ACK">>)
                  /\ rcv' = [rcv EXCEPT !.expected_blk = (@ + 1) % BlkMod,
                                        !.total_received = @ + Len(data)]
             ELSE Answer(<<"CAN">>) /\ Return(w.rc)
    BY Zenon DEF Deliver
  <1>1. PICK w \in write_container_bytes(data, failing) :
          /\ FlashReported(failing, w.rc)
          /\ ctx' = w.ctx
          /\ IF w.rc = "EOS_OK"
             THEN /\ Answer(<<"ACK">>)
                  /\ rcv' = [rcv EXCEPT !.expected_blk = (@ + 1) % BlkMod,
                                        !.total_received = @ + Len(data)]
             ELSE Answer(<<"CAN">>) /\ Return(w.rc)
    BY <1>0
  <1>2. /\ PassInv(w, data)
        /\ w.rc = "EOS_OK" => w.used = Len(data) \/ w.ctx.state = "VERIFY"
    BY <1>1, ContainerBytes DEF BaseInv, SenderInv, ReceiverInv
  <1>3. trouble' \in 0..MaxTrouble /\ spoilt' \in BOOLEAN /\ trouble <= trouble'
    BY <1>1, FlashReportedTyped
  <1>4. w.rc \in Errors \cup {"EOS_OK"}
    BY <1>2 DEF PassInv
  <1>5. w.rc # "EOS_OK" => w.rc \in Errors /\ Answer(<<"CAN">>) /\ rcv' = [rcv EXCEPT !.rc = w.rc]
    BY <1>1, <1>4 DEF Return
  <1> QED BY <1>1, <1>2, <1>3, <1>4, <1>5

LEMMA Remainder ==
  ASSUME NEW x \in Nat
  PROVE  x % BlkMod \in Nat /\ x % BlkMod < BlkMod
  BY LineAssumption

LEMMA DeliverInv ==
  ASSUME BaseInv, file' = file, rcv.rc = Running, NEW data \in Seq(Nat), Deliver(data)
  PROVE  ReceiverInv'
  <1>1. PICK w :
          /\ PassInv(w, data) /\ ctx' = w.ctx
          /\ trouble' \in 0..MaxTrouble /\ spoilt' \in BOOLEAN /\ trouble <= trouble'
          /\ \/ /\ w.rc = "EOS_OK" /\ Answer(<<"ACK">>)
                /\ w.used = Len(data) \/ w.ctx.state = "VERIFY"
                /\ rcv' = [rcv EXCEPT !.expected_blk = (@ + 1) % BlkMod,
                                      !.total_received = @ + Len(data)]
             \/ /\ w.rc \in Errors /\ Answer(<<"CAN">>)
                /\ rcv' = [rcv EXCEPT !.rc = w.rc]
    BY Delivery
  <1>2. ContextInv(ctx)'
    BY <1>1, SameContext DEF PassInv
  <1>3. toSnd' \in Seq(Answers)
    BY <1>1, AnswersTyped DEF Answer, BaseInv, ReceiverInv, Answers
  <1>4. CASE /\ w.rc = "EOS_OK"
             /\ rcv' = [rcv EXCEPT !.expected_blk = (@ + 1) % BlkMod,
                                   !.total_received = @ + Len(data)]
    <2>1. rcv.expected_blk + 1 \in Nat /\ rcv.total_received + Len(data) \in Nat
      BY LenProperties DEF BaseInv, ReceiverInv, Receivers
    <2>2. rcv' \in Receivers /\ rcv'.expected_blk < BlkMod /\ rcv'.rc = Running
      BY <1>4, <2>1, Remainder DEF BaseInv, ReceiverInv, Receivers
    <2>3. Open(ctx)'
      BY <1>1, <1>4 DEF PassInv, Open
    <2> QED BY <1>1, <1>2, <1>3, <2>2, <2>3 DEF ReceiverInv, Running
  <1>5. CASE w.rc \in Errors /\ rcv' = [rcv EXCEPT !.rc = w.rc]
    <2>1. rcv' \in Receivers /\ rcv'.rc = w.rc /\ rcv'.expected_blk = rcv.expected_blk
      BY <1>5 DEF BaseInv, ReceiverInv, Receivers
    <2>2. w.rc # Running /\ w.rc # "EOS_OK"
      BY <1>5 DEF Errors, Running
    <2> QED BY <1>1, <1>2, <1>3, <2>1, <2>2 DEF ReceiverInv, BaseInv
  <1> QED BY <1>1, <1>4, <1>5

LEMMA EndedInv ==
  ASSUME BaseInv, file' = file, rcv.rc = Running, NEW a \in Seq(Answers), Ended(a)
  PROVE  ReceiverInv'
  <1>1. CASE GiveUp(a, EotResult(Wanted))
    <2>1. Wanted = 0 => ctx.state = "VERIFY"
      BY WantedUnits DEF Wanted, BaseInv, SenderInv, ReceiverInv
    <2>2. /\ EotResult(Wanted) \in Errors \cup {"EOS_OK"}
          /\ EotResult(Wanted) = "EOS_OK" => ctx.state = "VERIFY"
      BY <2>1 DEF EotResult, Errors
    <2> QED BY <1>1, <2>2, GiveUpInv
  <1>2. CASE GiveUp(<<>>, "EOS_ERR_GENERIC")
    <2>1. <<>> \in Seq(Answers) /\ "EOS_ERR_GENERIC" \in Errors \cup {"EOS_OK"}
      BY EmptySeq DEF Errors
    <2> QED BY <1>2, <2>1, GiveUpInv
  <1>3. CASE UNCHANGED <<toSnd, rcv, ctx, trouble, spoilt>>
    <2>1. ContextInv(ctx)'
      BY <1>3, SameContext DEF BaseInv, ReceiverInv
    <2> QED BY <1>3, <2>1 DEF BaseInv, ReceiverInv, Open
  <1> QED BY <1>1, <1>2, <1>3 DEF Ended

LEMMA HeadFrame ==
  ASSUME BaseInv, toRcv # <<>>
  PROVE  fr \in Frames /\ fr.data \in Seq(Nat) /\ Tail(toRcv) \in Seq(Frames)
  <1>1. fr \in Frames /\ Tail(toRcv) \in Seq(Frames)
    BY HeadTailProperties DEF BaseInv, SenderInv, fr
  <1>2. fr.data \in Seq(Nat)
    BY <1>1 DEF Frames
  <1> QED BY <1>1, <1>2

LEMMA XmodemInv ==
  ASSUME BaseInv, xmodem_receive
  PROVE  BaseInv'
  <1>1. /\ rcv.rc = Running /\ toRcv # <<>> /\ toRcv' = Tail(toRcv)
        /\ UNCHANGED <<proto, file, snd>>
    BY DEF xmodem_receive, Receiving, Take
  <1>2. SenderInv'
    BY <1>1, HeadFrame DEF BaseInv, SenderInv
  <1>3. /\ <<"ACK">> \in Seq(Answers) /\ <<"CAN">> \in Seq(Answers) /\ "NAK" \in Answers
        /\ "EOS_ERR_INVALID" \in Errors \cup {"EOS_OK"}
    BY DEF Answers, Errors
  <1>4. CASE Ended(<<"ACK">>)
    BY <1>1, <1>2, <1>3, <1>4, EndedInv DEF BaseInv
  <1>5. CASE Refuse("NAK")
    BY <1>1, <1>2, <1>3, <1>5, RefuseInv DEF BaseInv
  <1>6. CASE GiveUp(<<"CAN">>, "EOS_ERR_INVALID")
    BY <1>1, <1>2, <1>3, <1>6, GiveUpInv DEF BaseInv
  <1>7. CASE Deliver(fr.data)
    BY <1>1, <1>2, <1>7, HeadFrame, DeliverInv DEF BaseInv
  <1> QED BY <1>4, <1>5, <1>6, <1>7 DEF xmodem_receive

LEMMA FirstUnits ==
  ASSUME NEW data \in Seq(Nat), NEW m \in Int, m <= Len(data)
  PROVE  SubSeq(data, 1, m) \in Seq(Nat)
  <1>1. \A i \in 1..m : data[i] \in Nat
    BY ElementOfSeq, LenProperties
  <1> QED BY <1>1, SubSeqProperties

LEMMA YmodemInv ==
  ASSUME BaseInv, ymodem_receive
  PROVE  BaseInv'
  <1>1. /\ rcv.rc = Running /\ toRcv # <<>> /\ toRcv' = Tail(toRcv)
        /\ UNCHANGED <<proto, file, snd>>
    BY DEF ymodem_receive, Receiving, Take
  <1>2. SenderInv'
    BY <1>1, HeadFrame DEF BaseInv, SenderInv
  <1>3. /\ <<"ACK">> \in Seq(Answers) /\ <<"CAN">> \in Seq(Answers)
        /\ <<"ACK", "C">> \in Seq(Answers) /\ "NAK" \in Answers /\ "ACK" \in Answers
        /\ "EOS_ERR_INVALID" \in Errors \cup {"EOS_OK"}
    BY DEF Answers, Errors
  <1>4. CASE Ended(IF rcv.first_block THEN <<"ACK">> ELSE <<"ACK", "C">>)
    BY <1>1, <1>2, <1>3, <1>4, EndedInv DEF BaseInv
  <1>5. CASE Refuse("NAK") \/ Refuse("ACK")
    BY <1>1, <1>2, <1>3, <1>5, RefuseInv DEF BaseInv
  <1>6. CASE GiveUp(<<"CAN">>, "EOS_ERR_INVALID")
    BY <1>1, <1>2, <1>3, <1>6, GiveUpInv DEF BaseInv
  <1>7. CASE Deliver(SubSeq(fr.data, 1, FileLen))
    <2>1. fr.data \in Seq(Nat) /\ rcv.file_size \in Nat /\ rcv.total_received \in Nat
      BY <1>1, HeadFrame DEF BaseInv, ReceiverInv, Receivers
    <2> DEFINE dl == Len(fr.data)
               rest == rcv.file_size - rcv.total_received
    <2>2. dl \in Nat /\ rest \in Int /\ FileLen = IF dl < rest THEN dl ELSE rest
      BY <2>1, LenProperties DEF FileLen, Lesser
    <2> HIDE DEF dl, rest
    <2>3. FileLen \in Int /\ FileLen <= dl
      BY <2>2
    <2>4. SubSeq(fr.data, 1, FileLen) \in Seq(Nat)
      BY <2>1, <2>3, FirstUnits DEF dl
    <2> QED BY <1>1, <1>2, <1>7, <2>4, DeliverInv DEF BaseInv
  <1>8. CASE /\ rcv' = [rcv EXCEPT !.first_block = FALSE, !.expected_blk = 1,
                           !.file_size = file.declared]
             /\ Answer(<<"ACK", "C">>)
             /\ UNCHANGED <<ctx, trouble, spoilt>>
    <2>1. file.declared \in Nat
      BY FileAssumption DEF BaseInv, SenderInv
    <2>2. rcv' \in Receivers /\ rcv'.rc = rcv.rc /\ rcv'.expected_blk = 1
      BY <1>8, <2>1 DEF BaseInv, ReceiverInv, Receivers
    <2>6. 1 < BlkMod
      BY LineAssumption
    <2>3. toSnd' \in Seq(Answers)
      BY <1>3, <1>8, ConcatProperties DEF Answer, BaseInv, ReceiverInv
    <2>4. ContextInv(ctx)'
      BY <1>1, <1>8, SameContext DEF BaseInv, ReceiverInv
    <2>5. ReceiverInv'
      BY <1>8, <2>2, <2>3, <2>4, <2>6 DEF BaseInv, ReceiverInv, Open
    <2> QED BY <1>2, <2>5 DEF BaseInv
  <1> QED BY <1>4, <1>5, <1>6, <1>7, <1>8 DEF ymodem_receive, BlockZero, DataBlock

LEMMA RawInv ==
  ASSUME BaseInv, uart_raw_receive
  PROVE  BaseInv'
  <1>1. /\ rcv.rc = Running /\ toRcv # <<>> /\ toRcv' = Tail(toRcv)
        /\ UNCHANGED <<proto, file, snd>>
    BY DEF uart_raw_receive, Receiving, Take
  <1>2. SenderInv'
    BY <1>1, HeadFrame DEF BaseInv, SenderInv
  <1>3. /\ <<"ACK">> \in Seq(Answers) /\ <<"NAK">> \in Seq(Answers) /\ "NAK" \in Answers
        /\ "EOS_ERR_FULL" \in Errors \cup {"EOS_OK"} /\ "ACK" \in Answers
    BY DEF Answers, Errors
  <1>4. CASE GiveUp(<<"NAK">>, "EOS_ERR_FULL")
    BY <1>1, <1>2, <1>3, <1>4, GiveUpInv DEF BaseInv
  <1>5. CASE /\ rcv' = [rcv EXCEPT !.file_size = file.len]
             /\ UNCHANGED <<toSnd, ctx, trouble, spoilt>>
    <2>1. file.len \in Nat
      BY FileAssumption DEF BaseInv, SenderInv
    <2>2. rcv' \in Receivers /\ rcv'.rc = rcv.rc /\ rcv'.expected_blk = rcv.expected_blk
      BY <1>5, <2>1 DEF BaseInv, ReceiverInv, Receivers
    <2>3. ContextInv(ctx)'
      BY <1>1, <1>5, SameContext DEF BaseInv, ReceiverInv
    <2>4. ReceiverInv'
      BY <1>5, <2>2, <2>3 DEF BaseInv, ReceiverInv, Open
    <2> QED BY <1>2, <2>4 DEF BaseInv
  <1>6. CASE RawChunk
    <2>1. PICK failing \in FlashOutcome :
            LET w == eos_fw_update_write(file, ctx, fr.data, failing)
                whole == eos_fw_update_bytes_wanted(file, w.ctx) = 0
            IN  /\ FlashReported(failing, w.rc)
                /\ ctx' = w.ctx
                /\ \/ w.rc # "EOS_OK" /\ Answer(<<"NAK">>) /\ Return(w.rc)
                   \/ /\ w.rc = "EOS_OK" /\ ~RawDone
                      /\ rcv' = [rcv EXCEPT !.total_received = @ + Len(fr.data)]
                      /\ UNCHANGED toSnd
                   \/ /\ w.rc = "EOS_OK" /\ RawDone
                      /\ Answer(IF whole THEN <<"ACK">> ELSE <<"NAK">>)
                      /\ Return(IF whole THEN "EOS_OK" ELSE "EOS_ERR_INVALID")
      BY <1>6, Zenon DEF RawChunk
    <2> DEFINE w == eos_fw_update_write(file, ctx, fr.data, failing)
               whole == eos_fw_update_bytes_wanted(file, w.ctx) = 0
    <2>2. fr.data \in Seq(Nat) /\ file \in File /\ ContextInv(ctx) /\ Open(ctx)
      BY <1>1, HeadFrame DEF BaseInv, SenderInv, ReceiverInv
    <2>3. /\ ContextInv(w.ctx)
          /\ w.rc = "EOS_OK" => Open(w.ctx)
          /\ w.rc \in Errors \cup {"EOS_OK"}
      BY <2>2, WriteStep
    <2>4. w.rc = "EOS_OK" /\ whole => w.ctx.state = "VERIFY"
      BY <2>2, <2>3, WantedUnits
    <2>5. /\ FlashReported(failing, w.rc)
          /\ ctx' = w.ctx
          /\ \/ w.rc # "EOS_OK" /\ Answer(<<"NAK">>) /\ Return(w.rc)
             \/ /\ w.rc = "EOS_OK" /\ ~RawDone
                /\ rcv' = [rcv EXCEPT !.total_received = @ + Len(fr.data)]
                /\ UNCHANGED toSnd
             \/ /\ w.rc = "EOS_OK" /\ RawDone
                /\ Answer(IF whole THEN <<"ACK">> ELSE <<"NAK">>)
                /\ Return(IF whole THEN "EOS_OK" ELSE "EOS_ERR_INVALID")
      BY <2>1
    <2> HIDE DEF w, whole
    <2>6. trouble' \in 0..MaxTrouble /\ spoilt' \in BOOLEAN
      BY <2>5, FlashReportedTyped
    <2>7. ContextInv(ctx)'
      BY <1>1, <2>3, <2>5, SameContext
    <2>8. toSnd' \in Seq(Answers)
      BY <1>3, <2>5, AnswersTyped DEF Answer, BaseInv, ReceiverInv
    <2>9. CASE w.rc # "EOS_OK" /\ Return(w.rc)
      <3>1. rcv' \in Receivers /\ rcv'.rc = w.rc /\ rcv'.expected_blk = rcv.expected_blk
        BY <2>3, <2>9 DEF Return, BaseInv, ReceiverInv, Receivers
      <3>2. w.rc # Running
        BY <2>3 DEF Errors, Running
      <3>3. ReceiverInv'
        BY <2>6, <2>7, <2>8, <2>9, <3>1, <3>2 DEF BaseInv, ReceiverInv
      <3> QED BY <1>2, <3>3 DEF BaseInv
    <2>10. CASE /\ w.rc = "EOS_OK"
                /\ rcv' = [rcv EXCEPT !.total_received = @ + Len(fr.data)]
      <3>1. rcv.total_received + Len(fr.data) \in Nat
        BY <2>2, LenProperties DEF BaseInv, ReceiverInv, Receivers
      <3>2. rcv' \in Receivers /\ rcv'.rc = Running /\ rcv'.expected_blk = rcv.expected_blk
        BY <1>1, <2>10, <3>1 DEF BaseInv, ReceiverInv, Receivers
      <3>3. Open(ctx)'
        BY <2>3, <2>5, <2>10 DEF Open
      <3>4. ReceiverInv'
        BY <2>6, <2>7, <2>8, <3>2, <3>3 DEF BaseInv, ReceiverInv, Running
      <3> QED BY <1>2, <3>4 DEF BaseInv
    <2>11. CASE w.rc = "EOS_OK" /\ Return(IF whole THEN "EOS_OK" ELSE "EOS_ERR_INVALID")
      <3> DEFINE rc == IF whole THEN "EOS_OK" ELSE "EOS_ERR_INVALID"
      <3>1. rc \in Errors \cup {"EOS_OK"} /\ rc # Running /\ (rc = "EOS_OK" => whole)
        BY DEF Errors, Running
      <3>2. rcv' \in Receivers /\ rcv'.rc = rc /\ rcv'.expected_blk = rcv.expected_blk
        BY <2>11, <3>1 DEF Return, BaseInv, ReceiverInv, Receivers
      <3> HIDE DEF rc
      <3>3. ReceiverInv'
        BY <2>4, <2>5, <2>6, <2>7, <2>8, <2>11, <3>1, <3>2 DEF BaseInv, ReceiverInv
      <3> QED BY <1>2, <3>3 DEF BaseInv
    <2> QED BY <2>5, <2>9, <2>10, <2>11
  <1> QED BY <1>4, <1>5, <1>6 DEF uart_raw_receive, RawLength

(* The frames that a sender sends.                                         *)
LEMMA UnitTyped ==
  ASSUME file \in File, NEW k \in Nat
  PROVE  Unit(k) \in Nat
  BY DEF Unit, Pad

LEMMA FrameData ==
  ASSUME file \in File, NEW off \in Nat, NEW n \in Nat
  PROVE  /\ [k \in 1..n |-> Unit(off + k)] \in Seq(Nat)
         /\ Len([k \in 1..n |-> Unit(off + k)]) = n
  <1> DEFINE f == [k \in 1..n |-> Unit(off + k)]
  <1>1. \A k \in 1..n : Unit(off + k) \in Nat
    BY UnitTyped
  <1>2. f \in [1..n -> Nat]
    BY <1>1
  <1>3. f \in Seq(Nat)
    BY <1>2, SeqDef
  <1>4. DOMAIN f = 1..Len(f) /\ DOMAIN f = 1..n /\ Len(f) \in Nat
    BY <1>2, <1>3, LenProperties
  <1> HIDE DEF f
  <1>5. Len(f) = n
    <2> DEFINE m == Len(f)
    <2>1. m \in Nat /\ 1..m = 1..n
      BY <1>4
    <2> HIDE DEF m
    <2>2. ~(m < n)
      <3> SUFFICES ASSUME m < n PROVE FALSE
        OBVIOUS
      <3>1. n \in 1..n /\ n \notin 1..m
        BY <2>1
      <3> QED BY <2>1, <3>1
    <2>3. ~(n < m)
      <3> SUFFICES ASSUME n < m PROVE FALSE
        OBVIOUS
      <3>1. m \in 1..m /\ m \notin 1..n
        BY <2>1
      <3> QED BY <2>1, <3>1
    <2>4. m = n
      BY <2>1, <2>2, <2>3
    <2> QED BY <2>4 DEF m
  <1> QED BY <1>3, <1>5 DEF f

LEMMA FrameTyped ==
  ASSUME file \in File, NEW s \in Senders, s.phase \in {"zero", "data", "eot"}
  PROVE  FrameOf(s) \in Frames
  <1>1. s.off \in Nat /\ s.n \in Nat /\ s.blk \in Nat
    BY DEF Senders
  <1>2. <<>> \in Seq(Nat)
    BY EmptySeq
  <1>3. CASE s.phase = "zero"
    BY <1>2, <1>3 DEF FrameOf, Frame, Frames
  <1>4. CASE s.phase = "eot"
    BY <1>2, <1>4 DEF FrameOf, Frame, Frames
  <1>5. CASE s.phase = "data"
    <2> DEFINE d == [k \in 1..s.n |-> Unit(s.off + k)]
    <2>1. d \in Seq(Nat)
      BY <1>1, FrameData
    <2>2. FrameOf(s) = Frame(IF s.n = BigBlock THEN "STX" ELSE "SOH", s.blk, d)
      BY <1>5 DEF FrameOf
    <2> HIDE DEF d
    <2> QED BY <1>1, <2>1, <2>2 DEF Frame, Frames
  <1> QED BY <1>3, <1>4, <1>5

LEMMA SendTyped ==
  ASSUME BaseInv, NEW s \in Senders, s.phase # "start", Send(s)
  PROVE  snd' \in Senders /\ toRcv' \in Seq(Frames)
  <1>1. CASE s.phase = "done"
    BY <1>1 DEF Send, BaseInv, SenderInv
  <1>2. CASE s.phase # "done"
    <2>1. s.phase \in {"zero", "data", "eot"}
      BY <1>2 DEF Senders, Phases
    <2>2. FrameOf(s) \in Frames
      BY <2>1, FrameTyped DEF BaseInv, SenderInv
    <2> QED BY <1>2, <2>2, AppendProperties DEF Send, BaseInv, SenderInv
  <1> QED BY <1>1, <1>2

LEMMA NextSendTyped ==
  ASSUME BaseInv, proto # "raw", snd.phase # "done", NEW s \in NextSend
  PROVE  s \in Senders /\ s.phase # "start"
  <1>1. /\ Blocks \subseteq Nat /\ snd.off + snd.n \in Nat
        /\ (snd.blk + 1) % BlkMod \in Nat
    <2>1. snd.off \in Nat /\ snd.n \in Nat /\ snd.blk \in Nat
      BY DEF BaseInv, SenderInv, Senders
    <2>2. Blocks \subseteq Nat
      BY LineAssumption DEF Blocks
    <2> DEFINE next == snd.blk + 1
    <2>3. next \in Nat /\ snd.off + snd.n \in Nat
      BY <2>1
    <2> HIDE DEF next
    <2>4. next % BlkMod \in Nat
      BY <2>3, Remainder
    <2> QED BY <2>2, <2>3, <2>4 DEF next
  <1>2. \A off, blk \in Nat : \A t \in DataOrEot(off, blk) : t \in Senders /\ t.phase # "start"
    <2> SUFFICES ASSUME NEW off \in Nat, NEW blk \in Nat, NEW t \in DataOrEot(off, blk)
                 PROVE  t \in Senders /\ t.phase # "start"
      OBVIOUS
    <2>1. CASE off < file.len
      <3>1. PICK m \in Blocks : t = [phase |-> "data", off |-> off, n |-> m, blk |-> blk]
        BY <2>1 DEF DataOrEot
      <3>2. m \in Nat
        BY <1>1
      <3> QED BY <3>1, <3>2 DEF Senders, Phases
    <2>2. CASE ~(off < file.len)
      BY <2>2 DEF DataOrEot, Senders, Phases
    <2> QED BY <2>1, <2>2
  <1>3. CASE snd.phase = "start"
    <2>1. proto \in {"xmodem", "ymodem"}
      BY LineAssumption DEF BaseInv, SenderInv
    <2>2. CASE proto = "xmodem"
      BY <1>2, <1>3, <2>2 DEF NextSend
    <2>3. CASE proto = "ymodem"
      BY <1>3, <2>3 DEF NextSend, BaseInv, SenderInv, Senders, Phases
    <2> QED BY <2>1, <2>2, <2>3
  <1>4. CASE snd.phase = "zero"
    BY <1>2, <1>4 DEF NextSend
  <1>5. CASE snd.phase = "data"
    BY <1>1, <1>2, <1>5 DEF NextSend
  <1>6. CASE snd.phase = "eot"
    BY <1>6 DEF NextSend, BaseInv, SenderInv, Senders, Phases
  <1> QED BY <1>3, <1>4, <1>5, <1>6 DEF BaseInv, SenderInv, Senders, Phases

(* The steps that do not touch receiver and context.                       *)
LEMMA ReceiverIdle ==
  ASSUME BaseInv, UNCHANGED <<file, rcv, ctx>>, toSnd' \in Seq(Answers),
         trouble' \in 0..MaxTrouble, spoilt' \in BOOLEAN
  PROVE  ReceiverInv'
  <1>1. ContextInv(ctx)'
    BY SameContext DEF BaseInv, ReceiverInv
  <1> QED BY <1>1 DEF BaseInv, ReceiverInv, Open

LEMMA AnswerTaken ==
  ASSUME BaseInv, toSnd # <<>>
  PROVE  Tail(toSnd) \in Seq(Answers) /\ Head(toSnd) \in Answers
  BY HeadTailProperties DEF BaseInv, ReceiverInv

LEMMA SenderReadsInv ==
  ASSUME BaseInv, SenderReads
  PROVE  BaseInv'
  <1>1. /\ snd.phase # "done" /\ proto # "raw" /\ toSnd # <<>> /\ toSnd' = Tail(toSnd)
        /\ UNCHANGED <<proto, file, rcv, ctx, trouble, spoilt>>
    BY DEF SenderReads, Sending
  <1>2. toSnd' \in Seq(Answers)
    BY <1>1, AnswerTaken
  <1>3. ReceiverInv'
    BY <1>1, <1>2, ReceiverIdle DEF BaseInv, ReceiverInv
  <1>4. snd' \in Senders /\ toRcv' \in Seq(Frames)
    <2>0. snd \in Senders
      BY DEF BaseInv, SenderInv
    <2>1. CASE \E s \in NextSend : Send(s)
      BY <1>1, <2>1, NextSendTyped, SendTyped
    <2>2. CASE snd.phase # "start" /\ Send(snd)
      BY <2>0, <2>2, SendTyped
    <2>3. CASE Send([snd EXCEPT !.phase = "done"])
      <3>1. /\ [snd EXCEPT !.phase = "done"] \in Senders
            /\ [snd EXCEPT !.phase = "done"].phase # "start"
        BY <2>0 DEF Senders, Phases
      <3> QED BY <2>3, <3>1, SendTyped
    <2>4. CASE UNCHANGED <<snd, toRcv>>
      BY <2>4 DEF BaseInv, SenderInv
    <2> QED BY <2>1, <2>2, <2>3, <2>4 DEF SenderReads
  <1> QED BY <1>1, <1>3, <1>4 DEF BaseInv, SenderInv

LEMMA RawSendInv ==
  ASSUME BaseInv, RawSend
  PROVE  BaseInv'
  <1>1. UNCHANGED <<proto, file, toSnd, rcv, ctx, trouble, spoilt>>
    BY DEF RawSend
  <1>2. ReceiverInv'
    BY <1>1, ReceiverIdle DEF BaseInv, ReceiverInv
  <1>3. /\ snd \in Senders /\ snd.off \in Nat /\ file.len \in Nat /\ snd.off <= file.len
        /\ Chunk \in Nat /\ file \in File
    <2>1. proto = "raw"
      BY DEF RawSend
    <2>2. snd \in Senders /\ snd.off <= file.len /\ file \in File
      BY <2>1 DEF BaseInv, SenderInv
    <2>3. snd.off \in Nat /\ file.len \in Nat
      BY <2>2, FileAssumption DEF Senders
    <2> QED BY <2>2, <2>3, LineAssumption
  <1>4. CASE snd.phase = "start"
    <2>1. toRcv' = <<Frame("LEN", 0, <<>>)>> /\ snd' = [snd EXCEPT !.phase = "data"]
      BY <1>4 DEF RawSend
    <2>2. <<>> \in Seq(Nat)
      BY EmptySeq
    <2>3. Frame("LEN", 0, <<>>) \in Frames
      BY <2>2 DEF Frame, Frames
    <2>4. <<Frame("LEN", 0, <<>>)>> \in Seq(Frames)
      BY <2>3
    <2>5. snd' \in Senders /\ snd'.off = snd.off
      BY <1>3, <2>1 DEF Senders, Phases
    <2> QED BY <1>1, <1>2, <1>3, <2>1, <2>4, <2>5 DEF BaseInv, SenderInv
  <1>5. CASE snd.phase # "start"
    <2> DEFINE n == Lesser(Chunk, file.len - snd.off)
               d == [k \in 1..n |-> snd.off + k]
               off == snd.off
               len == file.len
    <2>1. /\ toRcv' = <<Frame("DATA", 0, d)>>
          /\ snd' = [snd EXCEPT !.off = @ + n,
                                !.phase = IF snd.off + n = file.len THEN "done" ELSE "data"]
      BY <1>5 DEF RawSend
    <2>2. n = IF Chunk < len - off THEN Chunk ELSE len - off
      BY DEF Lesser
    <2> HIDE DEF n, off, len
    <2>3. n \in Nat /\ off + n <= len /\ off \in Nat /\ off + n \in Nat
      <3>1. off \in Nat /\ len \in Nat /\ off <= len
        BY <1>3 DEF off, len
      <3> QED BY <1>3, <2>2, <3>1
    <2>4. d \in Seq(Nat)
      <3>1. d \in [1..n -> Nat]
        BY <2>3 DEF off
      <3> HIDE DEF d
      <3> QED BY <2>3, <3>1, SeqDef
    <2> HIDE DEF d
    <2>5. Frame("DATA", 0, d) \in Frames
      BY <2>4 DEF Frame, Frames
    <2>6. <<Frame("DATA", 0, d)>> \in Seq(Frames)
      BY <2>5
    <2>7. snd' \in Senders /\ snd'.off = off + n
      BY <1>3, <2>1, <2>3 DEF Senders, Phases, off
    <2>8. snd'.off <= file'.len
      BY <1>1, <2>3, <2>7 DEF len
    <2> QED BY <1>1, <1>2, <1>3, <2>1, <2>6, <2>7, <2>8 DEF BaseInv, SenderInv
  <1> QED BY <1>4, <1>5

(* An early end, the line, and the sender giving up.                       *)
LEMMA TimeoutInv ==
  ASSUME BaseInv, ReceiveTimeout, trouble' \in 0..MaxTrouble, spoilt' \in BOOLEAN
  PROVE  BaseInv'
  <1>1. /\ UNCHANGED <<proto, file, snd, toRcv, ctx>>
        /\ rcv' = [rcv EXCEPT !.rc = "EOS_ERR_TIMEOUT"]
        /\ toSnd' = toSnd \o <<"NAK">> \/ toSnd' = toSnd \o <<>>
    BY DEF ReceiveTimeout, Return, Answer
  <1>2. toSnd' \in Seq(Answers)
    BY <1>1, AnswersTyped DEF Answers, BaseInv, ReceiverInv
  <1>3. ContextInv(ctx)'
    BY <1>1, SameContext DEF BaseInv, ReceiverInv
  <1>4. /\ rcv' \in Receivers /\ rcv'.rc = "EOS_ERR_TIMEOUT"
        /\ rcv'.expected_blk = rcv.expected_blk
    BY <1>1 DEF BaseInv, ReceiverInv, Receivers, Errors
  <1>5. ReceiverInv'
    BY <1>2, <1>3, <1>4 DEF BaseInv, ReceiverInv, Running
  <1> QED BY <1>1, <1>5 DEF BaseInv, SenderInv

LEMMA AbortInv ==
  ASSUME BaseInv, TransportUpdateFails
  PROVE  BaseInv'
  <1>1. /\ rcv.rc \notin {Running, "EOS_OK"}
        /\ UNCHANGED <<proto, file, snd, toRcv, toSnd, rcv, trouble, spoilt>>
        /\ ctx' = eos_fw_update_abort(ctx)
    BY DEF TransportUpdateFails
  <1> DEFINE c == eos_fw_update_abort(ctx)
  <1>2. c = [state |-> "IDLE", hdr_buf |-> <<>>, payload_written |-> 0, tlv_written |-> 0,
             total_received |-> 0, flash |-> ctx.flash]
    BY DEF eos_fw_update_abort, NoContext
  <1>3. /\ ctx.flash \in Seq(Nat) /\ Len(ctx.flash) <= SlotSize /\ file \in File
    BY DEF BaseInv, SenderInv, ReceiverInv, ContextInv, Contexts
  <1>4. <<>> \in Seq(Nat) /\ Len(<<>>) = 0
    BY EmptySeq
  <1>5. 0 <= HdrLen /\ 0 <= file.image_size /\ 0 <= file.tlv_len
    BY <1>3, FileAssumption, LengthAssumption
  <1>6. ContextInv(c)
    BY <1>2, <1>3, <1>4, <1>5 DEF ContextInv, Contexts, States
  <1> HIDE DEF c
  <1>7. ContextInv(ctx)'
    BY <1>1, <1>6, SameContext DEF c
  <1>8. ReceiverInv'
    BY <1>1, <1>7 DEF BaseInv, ReceiverInv
  <1> QED BY <1>1, <1>8 DEF BaseInv, SenderInv

LEMMA LineFaultInv ==
  ASSUME BaseInv,
         DamageFrame \/ LoseFrame \/ LoseAnswer \/ EarlyTimeout \/ SenderStops
  PROVE  BaseInv'
  <1>1. /\ trouble < MaxTrouble /\ trouble' = trouble + 1
        /\ UNCHANGED <<proto, file, rcv, ctx>>
    BY DEF DamageFrame, LoseFrame, LoseAnswer, EarlyTimeout, SenderStops, Trouble
  <1>2. trouble' \in 0..MaxTrouble
    BY <1>1, LineAssumption DEF BaseInv, ReceiverInv
  <1>3. spoilt' \in BOOLEAN
    BY DEF DamageFrame, LoseFrame, LoseAnswer, EarlyTimeout, SenderStops, BaseInv, ReceiverInv
  <1>4. toSnd' \in Seq(Answers)
    BY AnswerTaken DEF DamageFrame, LoseFrame, LoseAnswer, EarlyTimeout, SenderStops,
       BaseInv, ReceiverInv
  <1>5. ReceiverInv'
    BY <1>1, <1>2, <1>3, <1>4, ReceiverIdle
  <1>6. snd \in Senders /\ toRcv \in Seq(Frames)
    BY DEF BaseInv, SenderInv
  <1>7. /\ Frame("noise", 0, <<>>) \in Frames /\ Frame("CAN", 0, <<>>) \in Frames
    <2>1. <<>> \in Seq(Nat)
      BY EmptySeq
    <2> QED BY <2>1 DEF Frame, Frames
  <1>8. /\ snd' \in Senders /\ snd'.off = snd.off
        /\ toRcv' \in Seq(Frames)
    <2>1. CASE DamageFrame
      <3>1. toRcv # <<>> /\ UNCHANGED snd /\ toRcv' = [toRcv EXCEPT ![1].intact = FALSE]
        BY <2>1 DEF DamageFrame
      <3>2. 1 \in 1..Len(toRcv)
        BY <1>6, <3>1, EmptySeq
      <3> DEFINE g == [toRcv[1] EXCEPT !.intact = FALSE]
      <3>3. toRcv[1] \in Frames
        BY <1>6, <3>2, ElementOfSeq
      <3>4. g \in Frames
        BY <3>3 DEF Frames
      <3>5. toRcv' = [toRcv EXCEPT ![1] = g]
        BY <3>1
      <3> HIDE DEF g
      <3>6. [toRcv EXCEPT ![1] = g] \in Seq(Frames)
        BY ONLY <1>6, <3>2, <3>4, ExceptSeq
      <3> QED BY <1>6, <3>1, <3>5, <3>6
    <2>2. CASE LoseFrame
      <3>1. /\ toRcv # <<>> /\ UNCHANGED snd
            /\ toRcv' = Tail(toRcv) \/ toRcv' = <<Frame("noise", 0, <<>>)>> \o Tail(toRcv)
        BY <2>2 DEF LoseFrame
      <3>2. Tail(toRcv) \in Seq(Frames) /\ <<Frame("noise", 0, <<>>)>> \in Seq(Frames)
        BY <1>6, <1>7, <3>1, HeadTailProperties
      <3> QED BY <1>6, <3>1, <3>2, ConcatProperties
    <2>3. CASE LoseAnswer
      BY <1>6, <2>3 DEF LoseAnswer
    <2>4. CASE EarlyTimeout
      <3>1. snd.phase # "start" /\ Send(snd)
        BY <2>4 DEF EarlyTimeout
      <3> QED BY <1>6, <3>1, SendTyped DEF Send
    <2>5. CASE SenderStops
      <3>1. /\ snd' = [snd EXCEPT !.phase = "done"]
            /\ toRcv' = toRcv \/ toRcv' = Append(toRcv, Frame("CAN", 0, <<>>))
        BY <2>5 DEF SenderStops
      <3>2. snd' \in Senders /\ snd'.off = snd.off
        BY <1>6, <3>1 DEF Senders, Phases
      <3> QED BY <1>6, <1>7, <3>1, <3>2, AppendProperties
    <2> QED BY <2>1, <2>2, <2>3, <2>4, <2>5
  <1> QED BY <1>1, <1>5, <1>8 DEF BaseInv, SenderInv

LEMMA BaseStep == BaseInv /\ [Next]_vars => BaseInv'
  <1> SUFFICES ASSUME BaseInv, [Next]_vars PROVE BaseInv'
    OBVIOUS
  <1>1. CASE SenderSilent
    BY <1>1, TimeoutInv DEF SenderSilent, BaseInv, ReceiverInv
  <1>2. CASE SenderSlow
    <2>1. trouble' \in 0..MaxTrouble /\ spoilt' \in BOOLEAN
      BY <1>2, LineAssumption DEF SenderSlow, BaseInv, ReceiverInv
    <2> QED BY <1>2, <2>1, TimeoutInv DEF SenderSlow
  <1>3. CASE SenderTimeout
    <2>1. /\ snd.phase # "start" /\ Send(snd) /\ snd \in Senders
          /\ UNCHANGED <<proto, file, toSnd, rcv, ctx, trouble, spoilt>>
      BY <1>3 DEF SenderTimeout, BaseInv, SenderInv
    <2>2. snd' \in Senders /\ toRcv' \in Seq(Frames) /\ snd' = snd
      BY <2>1, SendTyped DEF Send
    <2>3. ReceiverInv'
      BY <2>1, ReceiverIdle DEF BaseInv, ReceiverInv
    <2> QED BY <2>1, <2>2, <2>3 DEF BaseInv, SenderInv
  <1>4. CASE UNCHANGED vars
    <2>1. ContextInv(ctx)'
      BY <1>4, SameContext DEF vars, BaseInv, ReceiverInv
    <2> QED BY <1>4, <2>1 DEF vars, BaseInv, SenderInv, ReceiverInv, Open
  <1> QED BY <1>1, <1>2, <1>3, <1>4, XmodemInv, YmodemInv, RawInv, AbortInv, SenderReadsInv,
             RawSendInv, LineFaultInv DEF Next, Receiver, Sender, Line

(* The invariant of a transfer, whatever the line does and however often.  *)
THEOREM TransferInvariant == Spec => []BaseInv
  BY BaseInit, BaseStep, PTL DEF Spec

(* eos_fw_update_write() and write_container_bytes(): no data, however cut *)
(* or repeated and whatever lengths the header declares, are written past  *)
(* the end of the slot.                                                    *)
THEOREM NothingBeyondSlot == Spec => []WithinSlot
  <1>1. BaseInv => WithinSlot
    BY DEF BaseInv, ReceiverInv, ContextInv, WithinSlot
  <1> QED BY <1>1, TransferInvariant, PTL

(* A receive function that returns EOS_OK has brought the whole container, *)
(* whatever was lost, repeated or declared on the way.                     *)
THEOREM SuccessBringsAll == Spec => []SuccessIsWhole
  <1>1. BaseInv => SuccessIsWhole
    <2> SUFFICES ASSUME BaseInv, rcv.rc = "EOS_OK"
                 PROVE  ctx.state = "VERIFY" /\ Len(ctx.flash) = ContainerLen(file)
      BY DEF SuccessIsWhole
    <2>1. ctx.state = "VERIFY" /\ ContextInv(ctx) /\ file \in File /\ Open(ctx)
      BY DEF BaseInv, SenderInv, ReceiverInv, Open
    <2> QED BY <2>1, WantedUnits
  <1> QED BY <1>1, TransferInvariant, PTL

-----------------------------------------------------------------------------
(* Block numbers                                                           *)

(* The block protocols count blocks modulo BlkMod.  Count them without it: *)
(* S is the block that the sender has outstanding, E the one that the      *)
(* receiver expects, N[i] the number of the i-th frame under way (an end   *)
(* of transmission and a cancellation are numbered like blocks).           *)
(* Frames are sent in order and every number up to S follows a lower one.  *)
Numbers(S, E, N) ==
  /\ S \in Int /\ E \in Nat /\ E <= S + 1
  /\ N \in Seq(Int)
  /\ \A i \in 1..Len(N) : E - 1 <= N[i] /\ N[i] <= S
  /\ \A i, j \in 1..Len(N) : i <= j => N[i] <= N[j] /\ N[j] - N[i] <= j - i
  /\ N # <<>> => N[Len(N)] = S
  /\ \A i \in 1..Len(N) : \A m \in Int :
        N[i] <= m /\ m <= S => \E j \in i..Len(N) : N[j] = m

(* A frame leaves the queue; the receiver may have taken it.               *)
LEMMA NumbersTail ==
  ASSUME NEW S, NEW E, NEW N, Numbers(S, E, N), N # <<>>, NEW F \in {E, E + 1},
         F = E + 1 => N[1] = E
  PROVE  Numbers(S, F, Tail(N))
  <1> DEFINE len == Len(N)
             T == Tail(N)
             tl == Len(T)
  <1>1. /\ S \in Int /\ E \in Nat /\ E <= S + 1 /\ N \in Seq(Int)
        /\ \A i \in 1..len : E - 1 <= N[i] /\ N[i] <= S
        /\ \A i, j \in 1..len : i <= j => N[i] <= N[j] /\ N[j] - N[i] <= j - i
        /\ N[len] = S
        /\ \A i \in 1..len : \A m \in Int :
              N[i] <= m /\ m <= S => \E j \in i..len : N[j] = m
    BY DEF Numbers
  <1>2. /\ len \in Nat /\ len # 0 /\ tl = len - 1 /\ T \in Seq(Int)
        /\ \A i \in 1..tl : T[i] = N[i + 1]
        /\ \A i \in 1..len : N[i] \in Int
    <2>1. N \in Seq(Int) /\ N # <<>>
      BY <1>1
    <2>2. len \in Nat /\ len # 0 /\ T \in Seq(Int) /\ \A i \in 1..len : N[i] \in Int
      BY <2>1, LenProperties, EmptySeq, HeadTailProperties, ElementOfSeq
    <2>3. tl = len - 1 /\ \A i \in 1..tl : T[i] = N[i + 1]
      BY <2>1, HeadTailProperties
    <2> QED BY <2>2, <2>3
  <1>3. T # <<>> => tl # 0
    BY <1>2, EmptySeq
  <1> HIDE DEF len, T, tl
  <1>4. F \in Nat /\ F <= S + 1 /\ (F = E \/ (F = E + 1 /\ N[1] = E))
    <2>1. 1 \in 1..len
      BY <1>2
    <2>2. N[1] <= S
      BY <1>1, <2>1
    <2>3. F = E \/ F = E + 1
      BY <1>1
    <2>4. F = E + 1 => N[1] = E
      OBVIOUS
    <2>5. S \in Int /\ E \in Nat /\ E <= S + 1
      BY <1>1
    <2>6. CASE F = E
      BY <2>5, <2>6
    <2>7. CASE F = E + 1
      <3> DEFINE a == N[1]
      <3>1. a = E /\ a <= S
        BY <2>2, <2>4, <2>7
      <3> HIDE DEF a
      <3>2. F \in Nat /\ F <= S + 1
        BY <2>5, <2>7, <3>1
      <3> QED BY <2>7, <3>1, <3>2 DEF a
    <2> QED BY <2>3, <2>6, <2>7
  <1>5. ASSUME NEW i \in 1..tl PROVE F - 1 <= T[i] /\ T[i] <= S
    <2>1. i + 1 \in 1..len /\ 1 \in 1..len /\ 1 <= i + 1 /\ T[i] = N[i + 1]
      BY <1>2
    <2> DEFINE a == N[1]
               b == N[i + 1]
    <2>2. a <= b /\ E - 1 <= b /\ b <= S /\ a \in Int /\ b \in Int
      BY <1>1, <1>2, <2>1
    <2>3. T[i] = b /\ (F = E \/ (F = E + 1 /\ a = E)) /\ E \in Nat
      BY <1>1, <1>4, <2>1
    <2> HIDE DEF a, b
    <2> QED BY <2>2, <2>3
  <1>6. ASSUME NEW i \in 1..tl, NEW j \in 1..tl, i <= j
        PROVE  T[i] <= T[j] /\ T[j] - T[i] <= j - i
    <2>1. i + 1 \in 1..len /\ j + 1 \in 1..len /\ i + 1 <= j + 1
          /\ T[i] = N[i + 1] /\ T[j] = N[j + 1] /\ (j + 1) - (i + 1) = j - i
      BY <1>2, <1>6
    <2> QED BY <1>1, <2>1
  <1>7. T # <<>> => T[tl] = S
    <2> SUFFICES ASSUME tl # 0 PROVE T[tl] = S
      BY <1>3
    <2>1. tl \in 1..tl /\ tl + 1 = len
      BY <1>2
    <2> QED BY <1>1, <1>2, <2>1
  <1>8. ASSUME NEW i \in 1..tl, NEW m \in Int, T[i] <= m, m <= S
        PROVE  \E j \in i..tl : T[j] = m
    <2>1. i + 1 \in 1..len /\ T[i] = N[i + 1]
      BY <1>2
    <2>2. PICK j \in (i + 1)..len : N[j] = m
      BY <1>1, <1>8, <2>1
    <2>3. j - 1 \in i..tl /\ j - 1 \in 1..tl /\ (j - 1) + 1 = j
      BY <1>2
    <2>4. T[j - 1] = N[j]
      BY <1>2, <2>3
    <2> QED BY <2>2, <2>3, <2>4
  <1> QED BY <1>1, <1>2, <1>4, <1>5, <1>6, <1>7, <1>8 DEF Numbers, tl, T

(* A frame is sent: the outstanding one again, or the next.                *)
LEMMA NumbersAppend ==
  ASSUME NEW S, NEW E, NEW N, Numbers(S, E, N), NEW R \in {S, S + 1}
  PROVE  Numbers(R, E, Append(N, R))
  <1> DEFINE len == Len(N)
             T == Append(N, R)
             tl == Len(T)
  <1>1. /\ S \in Int /\ E \in Nat /\ E <= S + 1 /\ N \in Seq(Int)
        /\ \A i \in 1..len : E - 1 <= N[i] /\ N[i] <= S
        /\ \A i, j \in 1..len : i <= j => N[i] <= N[j] /\ N[j] - N[i] <= j - i
        /\ N # <<>> => N[len] = S
        /\ \A i \in 1..len : \A m \in Int :
              N[i] <= m /\ m <= S => \E j \in i..len : N[j] = m
    BY DEF Numbers
  <1>2. R \in Int /\ S <= R /\ R <= S + 1 /\ E <= R + 1
    BY <1>1
  <1>3. /\ len \in Nat /\ tl = len + 1 /\ T \in Seq(Int)
        /\ \A i \in 1..len : T[i] = N[i]
        /\ T[len + 1] = R
        /\ \A i \in 1..len : N[i] \in Int
        /\ len # 0 => N # <<>>
        /\ T # <<>>
    <2>1. N \in Seq(Int) /\ R \in Int
      BY <1>1, <1>2
    <2>2. len \in Nat /\ (\A i \in 1..len : N[i] \in Int) /\ (len # 0 => N # <<>>)
      BY <2>1, LenProperties, ElementOfSeq, EmptySeq
    <2> QED BY <2>1, <2>2, AppendProperties
  <1> HIDE DEF len, T, tl
  <1>4. \A i \in 1..tl : i \in 1..len \/ i = len + 1
    BY <1>3
  <1>5. ASSUME NEW i \in 1..tl PROVE E - 1 <= T[i] /\ T[i] <= R
    <2>1. CASE i \in 1..len
      <3> DEFINE a == N[i]
      <3>1. E - 1 <= a /\ a <= S /\ a \in Int /\ T[i] = a
        BY <1>1, <1>3, <2>1
      <3>2. S \in Int /\ E \in Nat
        BY <1>1
      <3> HIDE DEF a
      <3> QED BY <1>2, <3>1, <3>2
    <2>2. CASE i = len + 1
      <3>1. T[i] = R /\ S \in Int /\ E \in Nat
        BY <1>1, <1>3, <2>2
      <3> QED BY <1>2, <3>1
    <2> QED BY <1>4, <2>1, <2>2
  <1>6. ASSUME NEW i \in 1..tl, NEW j \in 1..tl, i <= j
        PROVE  T[i] <= T[j] /\ T[j] - T[i] <= j - i
    <2>1. CASE j \in 1..len
      <3>1. i \in 1..len
        BY <1>3, <1>6, <2>1
      <3> QED BY <1>1, <1>3, <1>6, <2>1, <3>1
    <2>2. CASE j = len + 1 /\ i \in 1..len
      <3>1. len \in 1..len /\ i <= len /\ len # 0
        BY <1>3, <2>2
      <3> DEFINE a == N[i]
      <3>2. N[len] = S /\ a <= N[len] /\ N[len] - a <= len - i /\ a \in Int /\ S \in Int
        BY <1>1, <1>3, <2>2, <3>1
      <3>3. T[i] = a /\ T[j] = R /\ j = len + 1 /\ len \in Nat
        BY <1>3, <2>2
      <3> HIDE DEF a
      <3>4. a <= R /\ R - a <= (len + 1) - i
        BY <1>2, <3>2, <3>3
      <3> QED BY <3>3, <3>4
    <2>3. CASE j = len + 1 /\ i = len + 1
      <3>1. T[i] = R /\ T[j] = R /\ j - i = 0
        BY <1>3, <2>3
      <3> QED BY <1>2, <3>1
    <2> QED BY <1>4, <2>1, <2>2, <2>3
  <1>7. T[tl] = R
    BY <1>3
  <1>8. ASSUME NEW i \in 1..tl, NEW m \in Int, T[i] <= m, m <= R
        PROVE  \E j \in i..tl : T[j] = m
    <2>1. CASE i \in 1..len /\ m <= S
      <3>1. PICK j \in i..len : N[j] = m
        BY <1>1, <1>3, <1>8, <2>1
      <3>2. j \in i..tl /\ j \in 1..len
        BY <1>3
      <3> QED BY <1>3, <3>1, <3>2
    <2>2. CASE ~(m <= S)
      <3>1. m = R
        BY <1>1, <1>2, <1>8, <2>2
      <3>2. tl \in i..tl
        BY <1>3
      <3> QED BY <1>7, <3>1, <3>2
    <2>3. CASE i = len + 1
      <3>1. m = R
        BY <1>2, <1>3, <1>8, <2>3
      <3>2. tl \in i..tl
        BY <1>3
      <3> QED BY <1>7, <3>1, <3>2
    <2> QED BY <1>4, <2>1, <2>2, <2>3
  <1> QED BY <1>1, <1>2, <1>3, <1>5, <1>6, <1>7, <1>8 DEF Numbers, tl, T

(* Remainders of block numbers.                                            *)
LEMMA Division ==
  ASSUME NEW a \in Int
  PROVE  /\ a % BlkMod \in Nat /\ a % BlkMod < BlkMod
         /\ a \div BlkMod \in Int
         /\ a = BlkMod * (a \div BlkMod) + (a % BlkMod)
  <1>1. BlkMod \in Nat /\ BlkMod > 0
    BY LineAssumption
  <1>2. a % BlkMod = a - BlkMod * (a \div BlkMod)
    BY LineAssumption
  <1>3. a % BlkMod \in Nat /\ a % BlkMod < BlkMod /\ a \div BlkMod \in Int
    BY LineAssumption
  <1> DEFINE q == a \div BlkMod
             r == a % BlkMod
  <1>4. q \in Int /\ r \in Nat /\ r = a - BlkMod * q /\ BlkMod * q \in Int
    BY <1>1, <1>2, <1>3
  <1> HIDE DEF q, r
  <1>5. a = BlkMod * q + r
    BY <1>4
  <1> QED BY <1>3, <1>5, Zenon DEF q, r

LEMMA RemainderOf ==
  ASSUME NEW a \in Int, NEW q \in Int, NEW r \in Int, 0 <= r, r < BlkMod,
         a = BlkMod * q + r
  PROVE  a % BlkMod = r
  BY LineAssumption

LEMMA Multiples ==
  ASSUME NEW p \in Int, NEW q \in Int, p < q
  PROVE  BlkMod * p + BlkMod <= BlkMod * q
  <1>1. q - p \in Int /\ q - p >= 1 /\ BlkMod \in Nat
    BY LineAssumption
  <1>2. BlkMod * (q - p) >= BlkMod
    BY <1>1
  <1>3. BlkMod * q = BlkMod * p + BlkMod * (q - p)
    BY <1>1
  <1> QED BY <1>1, <1>2, <1>3

(* No two of BlkMod consecutive numbers have the same remainder.           *)
LEMMA SameRemainder ==
  ASSUME NEW a \in Int, NEW b \in Int, a <= b, b < a + BlkMod,
         a % BlkMod = b % BlkMod
  PROVE  a = b
  <1> DEFINE p == a \div BlkMod
             q == b \div BlkMod
             r == a % BlkMod
             bp == BlkMod * p
             bq == BlkMod * q
  <1>1. /\ BlkMod \in Nat /\ BlkMod > 0 /\ p \in Int /\ q \in Int /\ r \in Nat
        /\ a = bp + r /\ b = bq + r /\ bp \in Int /\ bq \in Int
    BY LineAssumption, Division
  <1>2. /\ p < q => bp + BlkMod <= bq
        /\ q < p => bq + BlkMod <= bp
    BY <1>1, Multiples
  <1> HIDE DEF r, bp, bq
  <1>3. ~(p < q) /\ ~(q < p)
    BY <1>1, <1>2
  <1>4. p = q
    <2> HIDE DEF p, q
    <2> QED BY <1>1, <1>3
  <1> QED BY <1>1, <1>4 DEF bp, bq

(* The neighbours of a block number, as sender and receiver compute them.  *)
LEMMA NextRemainder ==
  ASSUME NEW a \in Int
  PROVE  ((a % BlkMod) + 1) % BlkMod = (a + 1) % BlkMod
  <1> DEFINE q == a \div BlkMod
             r == a % BlkMod
  <1>1. /\ BlkMod \in Nat /\ BlkMod > 1 /\ q \in Int /\ r \in Nat /\ r < BlkMod
        /\ a = BlkMod * q + r
    BY LineAssumption, Division
  <1> HIDE DEF q, r
  <1>2. CASE r + 1 < BlkMod
    <2>1. a + 1 = BlkMod * q + (r + 1) /\ r + 1 = BlkMod * 0 + (r + 1)
      BY <1>1
    <2>2. (a + 1) % BlkMod = r + 1
      BY <1>1, <1>2, <2>1, RemainderOf
    <2>3. (r + 1) % BlkMod = r + 1
      BY <1>1, <1>2, <2>1, RemainderOf
    <2> QED BY <2>2, <2>3 DEF r
  <1>3. CASE r + 1 = BlkMod
    <2>1. BlkMod * (q + 1) = BlkMod * q + BlkMod
      BY <1>1
    <2>2. a + 1 = BlkMod * (q + 1) + 0 /\ r + 1 = BlkMod * 1 + 0
      BY <1>1, <1>3, <2>1
    <2>3. (a + 1) % BlkMod = 0
      BY <1>1, <2>2, RemainderOf
    <2>4. (r + 1) % BlkMod = 0
      BY <1>1, <2>2, RemainderOf
    <2> QED BY <2>3, <2>4 DEF r
  <1> QED BY <1>1, <1>2, <1>3

LEMMA PreviousRemainder ==
  ASSUME NEW a \in Int
  PROVE  ((a % BlkMod) - 1) % BlkMod = (a - 1) % BlkMod
  <1> DEFINE q == a \div BlkMod
             r == a % BlkMod
  <1>1. /\ BlkMod \in Nat /\ BlkMod > 1 /\ q \in Int /\ r \in Nat /\ r < BlkMod
        /\ a = BlkMod * q + r
    BY LineAssumption, Division
  <1> HIDE DEF q, r
  <1>2. CASE r > 0
    <2>1. a - 1 = BlkMod * q + (r - 1) /\ r - 1 = BlkMod * 0 + (r - 1)
      BY <1>1
    <2>2. (a - 1) % BlkMod = r - 1
      BY <1>1, <1>2, <2>1, RemainderOf
    <2>3. (r - 1) % BlkMod = r - 1
      BY <1>1, <1>2, <2>1, RemainderOf
    <2> QED BY <2>2, <2>3 DEF r
  <1>3. CASE r = 0
    <2>1. BlkMod * (q - 1) = BlkMod * q - BlkMod
      BY <1>1
    <2>2. a - 1 = BlkMod * (q - 1) + (BlkMod - 1) /\ r - 1 = BlkMod * (-1) + (BlkMod - 1)
      BY <1>1, <1>3, <2>1
    <2>3. (a - 1) % BlkMod = BlkMod - 1
      BY <1>1, <2>2, RemainderOf
    <2>4. (r - 1) % BlkMod = BlkMod - 1
      BY <1>1, <1>3, <2>2, RemainderOf
    <2> QED BY <2>3, <2>4 DEF r
  <1> QED BY <1>1, <1>2, <1>3

-----------------------------------------------------------------------------
(* Answers under way                                                       *)

Positions(s, A) == {i \in 1..Len(s) : s[i] \in A}

Count(s, A) == Cardinality(Positions(s, A))

LEMMA CountTyped ==
  ASSUME NEW s \in Seq(Answers), NEW A
  PROVE  /\ IsFiniteSet(Positions(s, A)) /\ Count(s, A) \in Nat
         /\ \A D \in SUBSET A : Count(s, D) <= Count(s, A)
         /\ s = <<>> => Count(s, A) = 0
  <1>1. Len(s) \in Nat
    BY LenProperties
  <1>2. IsFiniteSet(1..Len(s))
    BY <1>1, FS_Interval
  <1>3. IsFiniteSet(Positions(s, A))
    <2>1. Positions(s, A) \in SUBSET (1..Len(s))
      BY DEF Positions
    <2> QED BY <1>2, <2>1, FS_Subset
  <1>4. ASSUME NEW D \in SUBSET A PROVE Count(s, D) <= Count(s, A)
    <2>1. Positions(s, D) \in SUBSET Positions(s, A)
      BY DEF Positions
    <2> QED BY <1>3, <2>1, FS_Subset DEF Count
  <1>5. s = <<>> => Count(s, A) = 0
    <2> SUFFICES ASSUME s = <<>> PROVE Positions(s, A) = {}
      BY FS_EmptySet DEF Count
    <2>1. Len(s) = 0
      BY EmptySeq
    <2>2. 1..0 = {}
      OBVIOUS
    <2> QED BY <2>1, <2>2 DEF Positions
  <1> QED BY <1>3, <1>4, <1>5, FS_CardinalityType DEF Count

(* An answer is sent.                                                      *)
LEMMA CountSent ==
  ASSUME NEW s \in Seq(Answers), NEW a \in Answers, NEW A
  PROVE  Count(s \o <<a>>, A) = Count(s, A) + (IF a \in A THEN 1 ELSE 0)
  <1> DEFINE t == Append(s, a)
             P == Positions(s, A)
             x == Len(s) + 1
  <1>1. s \o <<a>> = t
    BY AppendIsConcat
  <1>2. /\ Len(s) \in Nat /\ Len(t) = x /\ t[x] = a
        /\ \A i \in 1..Len(s) : t[i] = s[i]
    BY LenProperties, AppendProperties
  <1>3. \A i : i \in 1..x <=> i \in 1..Len(s) \/ i = x
    BY <1>2
  <1>4. x \notin P
    BY <1>2 DEF Positions
  <1>5. Positions(t, A) = IF a \in A THEN P \cup {x} ELSE P
    <2> HIDE DEF t, x
    <2>1. CASE a \in A
      <3>1. ASSUME NEW i PROVE i \in Positions(t, A) <=> i \in P \cup {x}
        BY <1>2, <1>3, <2>1 DEF Positions
      <3> QED BY <2>1, <3>1
    <2>2. CASE a \notin A
      <3>1. ASSUME NEW i PROVE i \in Positions(t, A) <=> i \in P
        BY <1>2, <1>3, <2>2 DEF Positions
      <3> QED BY <2>2, <3>1
    <2> QED BY <2>1, <2>2
  <1>6. IsFiniteSet(P) /\ Cardinality(P) \in Nat
    BY CountTyped DEF Count
  <1>7. Cardinality(P \cup {x}) = Cardinality(P) + 1
    BY <1>4, <1>6, FS_AddElement
  <1> HIDE DEF t, P, x
  <1>8. CASE a \in A
    BY <1>1, <1>5, <1>7, <1>8 DEF Count, P
  <1>9. CASE a \notin A
    <2>1. Count(s \o <<a>>, A) = Cardinality(P)
      BY <1>1, <1>5, <1>9 DEF Count
    <2>2. Cardinality(P) = Cardinality(P) + 0
      BY <1>6
    <2> QED BY <1>9, <2>1, <2>2 DEF Count, P
  <1> QED BY <1>8, <1>9

(* An answer is read, or lost.                                             *)
LEMMA CountRead ==
  ASSUME NEW s \in Seq(Answers), s # <<>>, NEW A
  PROVE  Count(s, A) = Count(Tail(s), A) + (IF Head(s) \in A THEN 1 ELSE 0)
  <1> DEFINE t == Tail(s)
             P == Positions(s, A)
             Q == Positions(t, A)
             R == P \ {1}
             f == [i \in Q |-> i + 1]
  <1>1. /\ Len(s) \in Nat /\ Len(s) # 0 /\ Len(t) = Len(s) - 1 /\ t \in Seq(Answers)
        /\ \A i \in 1..Len(t) : t[i] = s[i + 1]
        /\ Head(s) = s[1]
    <2>1. Len(s) \in Nat /\ Len(s) # 0 /\ t \in Seq(Answers)
      BY LenProperties, EmptySeq, HeadTailProperties
    <2> QED BY <2>1, HeadTailProperties
  <1>2. IsFiniteSet(P) /\ IsFiniteSet(Q) /\ Cardinality(P) \in Nat /\ Cardinality(Q) \in Nat
    BY <1>1, CountTyped DEF Count
  <1>3. \A i \in Q : i \in Nat /\ i \in 1..Len(t)
    BY <1>1 DEF Positions
  <1>4. \A i \in Q : i + 1 \in R
    <2> HIDE DEF t
    <2> SUFFICES ASSUME NEW i \in Q PROVE i + 1 \in R
      OBVIOUS
    <2>1. i \in 1..Len(t) /\ t[i] \in A
      BY DEF Positions
    <2>2. i + 1 \in 1..Len(s) /\ i + 1 # 1 /\ t[i] = s[i + 1]
      BY <1>1, <2>1
    <2> QED BY <2>1, <2>2 DEF Positions
  <1>5. \A j \in R : j - 1 \in Q /\ (j - 1) + 1 = j
    <2> HIDE DEF t
    <2> SUFFICES ASSUME NEW j \in R PROVE j - 1 \in Q /\ (j - 1) + 1 = j
      OBVIOUS
    <2>1. j \in 1..Len(s) /\ s[j] \in A /\ j # 1
      BY DEF Positions
    <2>2. j - 1 \in 1..Len(t) /\ (j - 1) + 1 = j
      BY <1>1, <2>1
    <2>3. t[j - 1] = s[j]
      BY <1>1, <2>2
    <2> QED BY <2>1, <2>2, <2>3 DEF Positions
  <1> HIDE DEF P, Q, R
  <1>6. f \in Bijection(Q, R)
    <2>1. f \in [Q -> R]
      BY <1>4
    <2>2. \A i, j \in Q : i + 1 = j + 1 => i = j
      BY <1>3
    <2>3. \A i, j \in Q : f[i] = f[j] => i = j
      BY <2>2
    <2>4. \A j \in R : \E i \in Q : f[i] = j
      BY <1>5
    <2> HIDE DEF f
    <2> QED BY <2>1, <2>3, <2>4, Fun_IsBij
  <1>7. Cardinality(R) = Cardinality(Q)
    <2>1. ExistsBijection(Q, R)
      BY <1>6 DEF ExistsBijection
    <2> QED BY <1>2, <2>1, FS_Bijection
  <1>8. Cardinality(R) = IF 1 \in P THEN Cardinality(P) - 1 ELSE Cardinality(P)
    BY <1>2, FS_RemoveElement DEF R
  <1>9. 1 \in P <=> Head(s) \in A
    <2>1. 1 \in 1..Len(s)
      BY <1>1
    <2> QED BY <1>1, <2>1 DEF P, Positions
  <1>10. Cardinality(P) = Cardinality(Q) + (IF Head(s) \in A THEN 1 ELSE 0)
    BY <1>2, <1>7, <1>8, <1>9
  <1> QED BY <1>10 DEF Count, P, Q

-----------------------------------------------------------------------------
(* Frames under way                                                        *)

(* A frame that the receiver cannot read.                                  *)
Dead(f) == ~f.intact \/ f.kind = "noise"

(* Block m brings the units from at[m] + 1 to at[m + 1].                   *)
Block(f, m, at) ==
  /\ m \in Nat /\ f.blk = m % BlkMod
  /\ Len(f.data) = at[m + 1] - at[m]
  /\ \A k \in 1..Len(f.data) : f.data[k] = Unit(at[m] + k)

(* The queue q holds the blocks numbered N; only its head was touched.     *)
Carries(q, N, at) ==
  /\ q \in Seq(Frames) /\ Len(q) = Len(N)
  /\ \A i \in 1..Len(q) :
       /\ i # 1 => ~Dead(q[i])
       /\ q[i].kind \in {"SOH", "STX"} => Block(q[i], N[i], at)

Live(E, N, q) == \E i \in 1..Len(N) : N[i] = E /\ ~Dead(q[i])

(* Frames and answers under way are one more than the troubles t.  Without *)
(* a live frame of the block that the receiver expects, the sender is      *)
(* ahead of it by fewer blocks than there were troubles, even when it has  *)
(* read the acknowledgements under way: each trouble sends it too far once.*)
Budget(S, E, N, q, acks, all, t) ==
  /\ Len(q) + all <= 1 + t
  /\ (S >= E /\ ~Live(E, N, q)) => S + acks - E < t

LEMMA CarriesTail ==
  ASSUME NEW q, NEW N \in Seq(Int), NEW at, Carries(q, N, at), q # <<>>
  PROVE  /\ Carries(Tail(q), Tail(N), at) /\ N # <<>>
         /\ Len(q) \in Nat /\ Len(q) # 0 /\ Len(Tail(q)) = Len(q) - 1
         /\ Len(Tail(N)) = Len(N) - 1 /\ Len(N) = Len(q)
         /\ \A i \in 1..Len(q) - 1 : Tail(q)[i] = q[i + 1] /\ Tail(N)[i] = N[i + 1]
  <1> DEFINE len == Len(q)
             p == Tail(q)
             M == Tail(N)
  <1>1. q \in Seq(Frames) /\ len = Len(N) /\ len \in Nat /\ len # 0
    BY LenProperties, EmptySeq DEF Carries
  <1>2. N # <<>>
    BY <1>1, EmptySeq
  <1>3. /\ p \in Seq(Frames) /\ Len(p) = len - 1
        /\ \A i \in 1..Len(p) : p[i] = q[i + 1]
    BY <1>1, HeadTailProperties
  <1>4. Len(M) = Len(N) - 1 /\ \A i \in 1..Len(M) : M[i] = N[i + 1]
    BY <1>2, HeadTailProperties
  <1>5. \A i \in 1..len : /\ i # 1 => ~Dead(q[i])
                          /\ q[i].kind \in {"SOH", "STX"} => Block(q[i], N[i], at)
    BY DEF Carries
  <1> HIDE DEF len, p, M
  <1>6. ASSUME NEW i \in 1..len - 1
        PROVE  /\ p[i] = q[i + 1] /\ M[i] = N[i + 1] /\ ~Dead(p[i])
               /\ p[i].kind \in {"SOH", "STX"} => Block(p[i], M[i], at)
    <2>1. i + 1 \in 1..len /\ i + 1 # 1
      BY <1>1
    <2>2. p[i] = q[i + 1] /\ M[i] = N[i + 1]
      BY <1>1, <1>3, <1>4
    <2> QED BY <1>5, <2>1, <2>2
  <1> QED BY <1>1, <1>2, <1>3, <1>4, <1>6 DEF Carries, len, p, M

(* A frame is appended.                                                    *)
LEMMA CarriesSent ==
  ASSUME NEW q, NEW N \in Seq(Int), NEW at, Carries(q, N, at),
         NEW f \in Frames, ~Dead(f), NEW R \in Int,
         f.kind \in {"SOH", "STX"} => Block(f, R, at)
  PROVE  Carries(Append(q, f), Append(N, R), at)
  <1> DEFINE len == Len(q)
             p == Append(q, f)
             M == Append(N, R)
  <1>1. q \in Seq(Frames) /\ len = Len(N) /\ len \in Nat
    BY LenProperties DEF Carries
  <1>2. /\ p \in Seq(Frames) /\ Len(p) = len + 1
        /\ \A i \in 1..len : p[i] = q[i]
        /\ p[len + 1] = f
    BY <1>1, AppendProperties
  <1>3. /\ Len(M) = len + 1
        /\ \A i \in 1..len : M[i] = N[i]
        /\ M[len + 1] = R
    BY <1>1, AppendProperties
  <1>4. \A i \in 1..len : /\ i # 1 => ~Dead(q[i])
                          /\ q[i].kind \in {"SOH", "STX"} => Block(q[i], N[i], at)
    BY DEF Carries
  <1> HIDE DEF len, p, M
  <1>5. ASSUME NEW i \in 1..len + 1
        PROVE  /\ i # 1 => ~Dead(p[i])
               /\ p[i].kind \in {"SOH", "STX"} => Block(p[i], M[i], at)
    <2>1. i \in 1..len \/ i = len + 1
      BY <1>1
    <2>2. CASE i \in 1..len
      BY <1>2, <1>3, <1>4, <2>2
    <2>3. CASE i = len + 1
      BY <1>2, <1>3, <2>3
    <2> QED BY <2>1, <2>2, <2>3
  <1> QED BY <1>1, <1>2, <1>3, <1>5 DEF Carries, p, M

(* The head is replaced by what the line makes of it.                      *)
LEMMA CarriesSpoilt ==
  ASSUME NEW q, NEW N \in Seq(Int), NEW at, Carries(q, N, at), q # <<>>,
         NEW p \in Seq(Frames), Len(p) = Len(q), \A i \in 2..Len(q) : p[i] = q[i],
         p[1].kind \in {"SOH", "STX"} =>
            p[1].kind = q[1].kind /\ p[1].blk = q[1].blk /\ p[1].data = q[1].data
  PROVE  Carries(p, N, at)
  <1>1. /\ Len(q) = Len(N) /\ Len(q) \in Nat
        /\ \A i \in 1..Len(q) :
              /\ i # 1 => ~Dead(q[i])
              /\ q[i].kind \in {"SOH", "STX"} => Block(q[i], N[i], at)
    BY LenProperties DEF Carries
  <1>2. ASSUME NEW i \in 1..Len(q)
        PROVE  /\ i # 1 => ~Dead(p[i])
               /\ p[i].kind \in {"SOH", "STX"} => Block(p[i], N[i], at)
    <2>1. CASE i = 1
      <3>1. p[1].kind \in {"SOH", "STX"} => Block(q[1], N[1], at)
        BY <1>1, <2>1
      <3> QED BY <2>1, <3>1 DEF Block
    <2>2. CASE i # 1
      <3>1. i \in 2..Len(q)
        BY <1>1, <2>2
      <3> QED BY <1>1, <2>2, <3>1
    <2> QED BY <2>1, <2>2
  <1> QED BY <1>1, <1>2 DEF Carries

(* What follows the last block is not yet fixed.                           *)
LEMMA CarriesLater ==
  ASSUME NEW q, NEW S, NEW E, NEW N, Numbers(S, E, N), NEW at \in [Nat -> Nat],
         Carries(q, N, at), NEW v \in Nat
  PROVE  Carries(q, N, [at EXCEPT ![S + 2] = v])
  <1> DEFINE bt == [at EXCEPT ![S + 2] = v]
  <1>1. S \in Int /\ Len(q) = Len(N) /\ q \in Seq(Frames)
    BY DEF Numbers, Carries
  <1>2. ASSUME NEW i \in 1..Len(q), q[i].kind \in {"SOH", "STX"}
        PROVE  Block(q[i], N[i], bt)
    <2> DEFINE m == N[i]
    <2>1. Block(q[i], m, at) /\ m <= S
      BY <1>1, <1>2 DEF Carries, Numbers
    <2>2. m \in Nat
      BY <2>1 DEF Block
    <2> HIDE DEF m
    <2>3. m + 1 \in Nat /\ m # S + 2 /\ m + 1 # S + 2
      BY <1>1, <2>1, <2>2
    <2>4. bt[m] = at[m] /\ bt[m + 1] = at[m + 1]
      BY <2>2, <2>3
    <2> HIDE DEF bt
    <2>5. Block(q[i], m, bt)
      BY <2>1, <2>4 DEF Block
    <2> QED BY <2>5 DEF m
  <1> HIDE DEF bt
  <1>3. Carries(q, N, bt)
    BY <1>1, <1>2 DEF Carries
  <1> QED BY <1>3 DEF bt

(* What both sides know of the queue.                                      *)
Transit(S, E, N, at, q) == Numbers(S, E, N) /\ Carries(q, N, at)

LEMMA QueueFacts ==
  ASSUME NEW S, NEW E, NEW N, NEW at, NEW q, Transit(S, E, N, at, q)
  PROVE  /\ S \in Int /\ E \in Nat /\ E <= S + 1 /\ N \in Seq(Int)
         /\ Len(q) = Len(N) /\ Len(q) \in Nat
         /\ \A i \in 1..Len(N) : N[i] \in Int /\ E - 1 <= N[i] /\ N[i] <= S
         /\ q # <<>> => /\ 1 \in 1..Len(N) /\ N # <<>> /\ Len(q) # 0
                        /\ S - N[1] <= Len(N) - 1
                        /\ \A i \in 1..Len(N) : N[1] <= N[i]
  <1>1. /\ S \in Int /\ E \in Nat /\ E <= S + 1 /\ N \in Seq(Int) /\ q \in Seq(Frames)
        /\ Len(q) = Len(N)
    BY DEF Transit, Numbers, Carries
  <1>2. Len(q) \in Nat /\ \A i \in 1..Len(N) : N[i] \in Int
    <2>1. Len(q) \in Nat
      BY <1>1, LenProperties
    <2>2. \A i \in 1..Len(N) : N[i] \in Int
      BY <1>1, ElementOfSeq
    <2> QED BY <2>1, <2>2
  <1>3. \A i \in 1..Len(N) : E - 1 <= N[i] /\ N[i] <= S
    BY DEF Transit, Numbers
  <1>4. ASSUME q # <<>>
        PROVE  /\ 1 \in 1..Len(N) /\ N # <<>> /\ Len(q) # 0
               /\ S - N[1] <= Len(N) - 1
               /\ \A i \in 1..Len(N) : N[1] <= N[i]
    <2> DEFINE len == Len(N)
    <2>1. len # 0 /\ N # <<>> /\ len \in Nat /\ Len(q) # 0
      BY <1>1, <1>2, <1>4, EmptySeq
    <2>2. 1 \in 1..len /\ len \in 1..len /\ 1 <= len /\ \A i \in 1..len : 1 <= i
      BY <2>1
    <2>3. N[len] - N[1] <= len - 1 /\ N[len] = S /\ \A i \in 1..len : N[1] <= N[i]
      BY <2>1, <2>2 DEF Transit, Numbers
    <2> HIDE DEF len
    <2>4. S - N[1] <= len - 1
      BY <2>3
    <2> QED BY <2>1, <2>2, <2>3, <2>4 DEF len
  <1> QED BY <1>1, <1>2, <1>3, <1>4

(* Frames behind the head can be read, and none of the numbers up to S is  *)
(* missing among them.                                                     *)
LEMMA NextIsLive ==
  ASSUME NEW S, NEW E, NEW N, NEW at, NEW q, Transit(S, E, N, at, q), q # <<>>,
         NEW m \in Int, N[1] < m, m <= S
  PROVE  Live(m, Tail(N), Tail(q))
  <1>1. /\ 1 \in 1..Len(N) /\ N[1] \in Int /\ Len(N) = Len(q) /\ N \in Seq(Int)
    BY QueueFacts
  <1>2. PICK j \in 1..Len(N) : N[j] = m
    <2>1. N[1] <= m
      BY <1>1
    <2>2. \A i \in 1..Len(N) : \A k \in Int :
             N[i] <= k /\ k <= S => \E j \in i..Len(N) : N[j] = k
      BY DEF Transit, Numbers
    <2> QED BY <1>1, <2>1, <2>2
  <1>3. j # 1
    BY <1>1, <1>2
  <1>4. /\ Len(q) \in Nat /\ Len(Tail(N)) = Len(N) - 1
        /\ \A i \in 1..Len(q) - 1 : Tail(q)[i] = q[i + 1] /\ Tail(N)[i] = N[i + 1]
    BY <1>1, CarriesTail DEF Transit
  <1> DEFINE len == Len(N)
  <1>5. len \in Nat /\ Len(Tail(N)) = len - 1
    BY <1>1, <1>4
  <1>6. j - 1 \in 1..len - 1 /\ (j - 1) + 1 = j
    <2> HIDE DEF len
    <2>1. j \in 1..len
      BY <1>2 DEF len
    <2> QED BY <1>3, <1>5, <2>1
  <1>7. Tail(q)[j - 1] = q[j] /\ Tail(N)[j - 1] = N[j]
    BY <1>1, <1>4, <1>6
  <1>8. ~Dead(q[j])
    BY <1>1, <1>2, <1>3 DEF Transit, Carries
  <1> QED BY <1>2, <1>5, <1>6, <1>7, <1>8 DEF Live

(* Without its head the queue has the same live frames but that one.       *)
LEMMA LiveTail ==
  ASSUME NEW S, NEW E, NEW N, NEW at, NEW q, Transit(S, E, N, at, q), q # <<>>,
         NEW m, Live(m, N, q), ~(N[1] = m /\ ~Dead(q[1]))
  PROVE  Live(m, Tail(N), Tail(q))
  <1>1. Len(N) = Len(q) /\ N \in Seq(Int)
    BY QueueFacts
  <1>2. PICK j \in 1..Len(N) : N[j] = m /\ ~Dead(q[j])
    BY DEF Live
  <1>3. j # 1
    BY <1>2
  <1>4. /\ Len(q) \in Nat /\ Len(Tail(N)) = Len(N) - 1
        /\ \A i \in 1..Len(q) - 1 : Tail(q)[i] = q[i + 1] /\ Tail(N)[i] = N[i + 1]
    BY <1>1, CarriesTail DEF Transit
  <1> DEFINE len == Len(N)
  <1>5. len \in Nat /\ Len(Tail(N)) = len - 1
    BY <1>1, <1>4
  <1>6. j - 1 \in 1..len - 1 /\ (j - 1) + 1 = j
    <2> HIDE DEF len
    <2>1. j \in 1..len
      BY <1>2 DEF len
    <2> QED BY <1>3, <1>5, <2>1
  <1>7. Tail(q)[j - 1] = q[j] /\ Tail(N)[j - 1] = N[j]
    BY <1>1, <1>4, <1>6
  <1> QED BY <1>2, <1>5, <1>6, <1>7 DEF Live

(* The receiver refuses the head, or does not see it.                      *)
LEMMA BudgetRefused ==
  ASSUME NEW S, NEW E, NEW N, NEW at, NEW q, Transit(S, E, N, at, q), q # <<>>,
         NEW acks \in Nat, NEW all \in Nat, NEW t \in Nat,
         Budget(S, E, N, q, acks, all, t), ~(N[1] = E /\ ~Dead(q[1])),
         NEW all2 \in Nat, all2 <= all + 1
  PROVE  Budget(S, E, Tail(N), Tail(q), acks, all2, t)
  <1> DEFINE len == Len(q)
             tlen == Len(Tail(q))
  <1>1. N \in Seq(Int)
    BY QueueFacts
  <1>2. len \in Nat /\ tlen = len - 1 /\ len + all <= 1 + t
    BY <1>1, CarriesTail DEF Transit, Budget
  <1> HIDE DEF len, tlen
  <1>3. tlen + all2 <= 1 + t
    BY <1>2
  <1>4. ~Live(E, Tail(N), Tail(q)) => ~Live(E, N, q)
    BY LiveTail
  <1> QED BY <1>3, <1>4 DEF Budget, tlen

(* It acknowledges the block before the one it expects again: if the       *)
(* sender has gone on, the expected one is on its way.                     *)
LEMMA BudgetRepeated ==
  ASSUME NEW S, NEW E, NEW N, NEW at, NEW q, Transit(S, E, N, at, q), q # <<>>,
         NEW acks \in Nat, NEW all \in Nat, NEW t \in Nat,
         Budget(S, E, N, q, acks, all, t), N[1] = E - 1
  PROVE  Budget(S, E, Tail(N), Tail(q), acks + 1, all + 1, t)
  <1> DEFINE len == Len(q)
             tlen == Len(Tail(q))
  <1>1. N \in Seq(Int) /\ S \in Int /\ E \in Nat
    BY QueueFacts
  <1>2. len \in Nat /\ tlen = len - 1 /\ len + all <= 1 + t
    BY <1>1, CarriesTail DEF Transit, Budget
  <1> HIDE DEF len, tlen
  <1>3. tlen + (all + 1) <= 1 + t
    BY <1>2
  <1>4. S >= E => Live(E, Tail(N), Tail(q))
    <2>1. N[1] < E /\ E \in Int
      BY <1>1
    <2> QED BY <1>1, <2>1, NextIsLive
  <1> QED BY <1>3, <1>4 DEF Budget, tlen

(* It takes the block it expects.                                          *)
LEMMA BudgetAccepted ==
  ASSUME NEW S, NEW E, NEW N, NEW at, NEW q, Transit(S, E, N, at, q), q # <<>>,
         NEW acks \in Nat, NEW all \in Nat, NEW t \in Nat,
         Budget(S, E, N, q, acks, all, t), N[1] = E
  PROVE  Budget(S, E + 1, Tail(N), Tail(q), acks + 1, all + 1, t)
  <1> DEFINE len == Len(q)
             tlen == Len(Tail(q))
  <1>1. N \in Seq(Int) /\ S \in Int /\ E \in Nat
    BY QueueFacts
  <1>2. len \in Nat /\ tlen = len - 1 /\ len + all <= 1 + t
    BY <1>1, CarriesTail DEF Transit, Budget
  <1> HIDE DEF len, tlen
  <1>3. tlen + (all + 1) <= 1 + t
    BY <1>2
  <1>4. S >= E + 1 => Live(E + 1, Tail(N), Tail(q))
    <2>1. N[1] < E + 1 /\ E + 1 \in Int
      BY <1>1
    <2> QED BY <1>1, <2>1, NextIsLive
  <1> QED BY <1>3, <1>4 DEF Budget, tlen

(* The sender sends: its block again, or the next one for an answer.       *)
LEMMA BudgetSent ==
  ASSUME NEW S, NEW E, NEW N, NEW at, NEW q, Transit(S, E, N, at, q),
         NEW acks \in Nat, NEW all \in Nat, NEW t \in Nat,
         Budget(S, E, N, q, acks, all, t),
         NEW f \in Frames, ~Dead(f), NEW R \in {S, S + 1},
         NEW acks2 \in Nat, NEW all2 \in Nat, NEW t2 \in Nat, t <= t2,
         (Len(q) + 1) + all2 <= 1 + t2,
         R + acks2 <= S + acks \/ R = E
  PROVE  Budget(R, E, Append(N, R), Append(q, f), acks2, all2, t2)
  <1> DEFINE len == Len(q)
             M == Append(N, R)
             p == Append(q, f)
  <1>1. /\ N \in Seq(Int) /\ S \in Int /\ E \in Nat /\ len \in Nat /\ len = Len(N)
        /\ q \in Seq(Frames)
    BY QueueFacts DEF Transit, Carries
  <1>2. R \in Int /\ R <= S + 1
    BY <1>1
  <1>3. /\ Len(p) = len + 1 /\ p[len + 1] = f /\ \A i \in 1..len : p[i] = q[i]
        /\ Len(M) = len + 1 /\ M[len + 1] = R /\ \A i \in 1..len : M[i] = N[i]
    <2>1. Len(p) = len + 1 /\ p[len + 1] = f /\ \A i \in 1..len : p[i] = q[i]
      BY <1>1, AppendProperties
    <2>2. Len(M) = len + 1 /\ M[len + 1] = R /\ \A i \in 1..len : M[i] = N[i]
      BY <1>1, <1>2, AppendProperties
    <2> QED BY <2>1, <2>2
  <1>4. len + 1 \in 1..len + 1 /\ 1..len \subseteq 1..len + 1
    BY <1>1
  <1>5. R = E => Live(E, M, p)
    BY <1>3, <1>4 DEF Live
  <1>6. Live(E, N, q) => Live(E, M, p)
    <2> SUFFICES ASSUME Live(E, N, q) PROVE Live(E, M, p)
      OBVIOUS
    <2>1. PICK i \in 1..len : N[i] = E /\ ~Dead(q[i])
      BY <1>1 DEF Live
    <2>2. i \in 1..Len(M) /\ M[i] = E /\ ~Dead(p[i])
      BY <1>3, <1>4, <2>1
    <2> QED BY <2>2 DEF Live
  <1> HIDE DEF M, p
  <1>7. ASSUME R >= E, ~Live(E, M, p) PROVE R + acks2 - E < t2
    <2>1. R # E /\ ~Live(E, N, q)
      BY <1>5, <1>6, <1>7
    <2>2. S >= E
      BY <1>1, <1>2, <1>7, <2>1
    <2>3. S + acks - E < t
      BY <2>1, <2>2 DEF Budget
    <2>4. R + acks2 <= S + acks
      BY <2>1
    <2> QED BY <1>1, <1>2, <2>3, <2>4
  <1>8. Len(p) + all2 <= 1 + t2
    BY <1>3
  <1> QED BY <1>7, <1>8 DEF Budget, M, p

(* The line spoils or loses the head: one trouble more.  If it was the     *)
(* frame the receiver expects, no more blocks than frames had followed it. *)
LEMMA BudgetTroubled ==
  ASSUME NEW S, NEW E, NEW N, NEW at, NEW q, Transit(S, E, N, at, q), q # <<>>,
         NEW acks \in Nat, NEW all \in Nat, acks <= all, NEW t \in Nat,
         Budget(S, E, N, q, acks, all, t),
         NEW M, NEW p, Len(p) \in Nat, Len(p) <= Len(q),
         \A m : Live(m, Tail(N), Tail(q)) => Live(m, M, p)
  PROVE  Budget(S, E, M, p, acks, all, t + 1)
  <1> DEFINE len == Len(q)
             pl == Len(p)
             a == N[1]
  <1>1. /\ S \in Int /\ E \in Nat /\ len \in Nat /\ len = Len(N)
        /\ a \in Int /\ S - a <= len - 1
    BY QueueFacts
  <1>2. len + all <= 1 + t /\ ((S >= E /\ ~Live(E, N, q)) => S + acks - E < t)
    BY DEF Budget
  <1>3. pl \in Nat /\ pl <= len
    OBVIOUS
  <1> HIDE DEF len, pl, a
  <1>4. pl + all <= 1 + (t + 1)
    BY <1>1, <1>2, <1>3
  <1>5. ASSUME S >= E, ~Live(E, M, p) PROVE S + acks - E < t + 1
    <2>1. CASE a = E
      BY <1>1, <1>2, <2>1
    <2>2. CASE a # E
      <3>1. ~Live(E, N, q)
        BY <1>5, <2>2, LiveTail DEF a
      <3>2. S + acks - E < t
        BY <1>2, <1>5, <3>1
      <3> QED BY <1>1, <3>2
    <2> QED BY <2>1, <2>2
  <1> QED BY <1>4, <1>5 DEF Budget, pl

(* An answer is lost, or trouble comes without any loss.                   *)
LEMMA BudgetGrows ==
  ASSUME NEW S \in Int, NEW E \in Nat, NEW N, NEW q, Len(q) \in Nat,
         NEW acks \in Nat, NEW all \in Nat, NEW t \in Nat,
         Budget(S, E, N, q, acks, all, t),
         NEW acks2 \in Nat, NEW all2 \in Nat, NEW t2 \in Nat,
         acks2 <= acks, all2 <= all, t <= t2
  PROVE  Budget(S, E, N, q, acks2, all2, t2)
  <1> DEFINE len == Len(q)
  <1>1. /\ len \in Nat /\ len + all <= 1 + t
        /\ (S >= E /\ ~Live(E, N, q)) => S + acks - E < t
    BY DEF Budget
  <1> HIDE DEF len
  <1>2. len + all2 <= 1 + t2
    BY <1>1
  <1>3. ASSUME S >= E, ~Live(E, N, q) PROVE S + acks2 - E < t2
    <2>1. S + acks - E < t
      BY <1>1, <1>3
    <2> QED BY <2>1
  <1> QED BY <1>2, <1>3 DEF Budget, len

(* As long as there are fewer troubles than block numbers, the receiver is *)
(* not deceived by a number that comes round.                              *)
LEMMA NotDeceived ==
  ASSUME NEW S, NEW E, NEW N, NEW at, NEW q, Transit(S, E, N, at, q), q # <<>>,
         NEW acks \in Nat, NEW all \in Nat, NEW t \in Nat, t < BlkMod,
         Budget(S, E, N, q, acks, all, t)
  PROVE  /\ N[1] % BlkMod = E % BlkMod => N[1] = E
         /\ N[1] % BlkMod = (E - 1) % BlkMod => N[1] = E - 1
  <1> DEFINE a == N[1]
  <1>1. /\ S \in Int /\ E \in Nat /\ a \in Int /\ E - 1 <= a /\ a <= S
        /\ \A i \in 1..Len(N) : a <= N[i]
    BY QueueFacts
  <1>2. BlkMod \in Nat /\ BlkMod > 1
    BY LineAssumption
  <1>3. a < E - 1 + BlkMod
    <2>1. CASE Live(E, N, q)
      <3>1. a <= E
        BY <1>1, <2>1 DEF Live
      <3> HIDE DEF a
      <3> QED BY <1>1, <1>2, <3>1
    <2>2. CASE S < E
      <3> HIDE DEF a
      <3> QED BY <1>1, <1>2, <2>2
    <2>3. CASE S >= E /\ ~Live(E, N, q)
      <3>1. S + acks - E < t
        BY <2>3 DEF Budget
      <3> HIDE DEF a
      <3> QED BY <1>1, <1>2, <3>1
    <2> QED BY <1>1, <2>1, <2>2, <2>3
  <1> HIDE DEF a
  <1>4. a % BlkMod = (E - 1) % BlkMod => a = E - 1
    <2>1. E - 1 \in Int /\ E - 1 <= a /\ a < (E - 1) + BlkMod
      BY <1>1, <1>3
    <2> QED BY <1>1, <2>1, SameRemainder
  <1>5. a % BlkMod = E % BlkMod => a = E
    <2> SUFFICES ASSUME a % BlkMod = E % BlkMod PROVE a = E
      OBVIOUS
    <2>1. CASE a >= E
      <3>1. E \in Int /\ E <= a /\ a < E + BlkMod
        BY <1>1, <1>2, <1>3, <2>1
      <3> QED BY <1>1, <3>1, SameRemainder
    <2>2. CASE a < E
      <3>1. E \in Int /\ a <= E /\ E < a + BlkMod
        BY <1>1, <1>2, <2>2
      <3> QED BY <1>1, <3>1, SameRemainder
    <2> QED BY <1>1, <2>1, <2>2
  <1> QED BY <1>4, <1>5 DEF a

-----------------------------------------------------------------------------
(* The two ends of a block protocol                                        *)

FirstBlock == IF proto = "ymodem" THEN 0 ELSE 1

Offsets(S, at) ==
  /\ at \in [Nat -> Nat] /\ at[0] = 0 /\ at[1] = 0
  /\ \A j \in Nat : j <= S + 1 => at[j] <= file.len + BigBlock

(* A sender in state s has block S outstanding.                            *)
SenderAt(s, S, at) ==
  /\ s.phase \in {"zero", "data", "eot"} =>
       S \in Nat /\ s.off = at[S] /\ s.off + s.n = at[S + 1]
  /\ s.phase = "zero" => S = 0
  /\ s.phase = "data" => s.blk = S % BlkMod

AtStart(S, E) ==
  snd.phase = "start" =>
    /\ S = FirstBlock - 1 /\ E = FirstBlock
    /\ snd.off = 0 /\ snd.n = 0 /\ toRcv = <<>> /\ toSnd = <<"C">>

(* A receiver with locals r and context c expects block E.                 *)
ReceiverAt(r, c, E, at) ==
  /\ r.expected_blk = E % BlkMod
  /\ proto = "xmodem" => r.total_received = at[E]
  /\ proto = "ymodem" /\ r.first_block => E = 0 /\ r.total_received = 0
  /\ proto = "ymodem" /\ ~r.first_block =>
        /\ E # 0 /\ r.file_size = file.declared
        /\ r.total_received = Lesser(at[E], file.declared)
  /\ c.state # "VERIFY" => c.total_received = r.total_received

Acks(a) == Count(a, {"ACK"})
Replies(a) == Count(a, {"ACK", "NAK"})

LineInv(S, E, N, at) ==
  /\ Transit(S, E, N, at, toRcv)
  /\ Offsets(S, at) /\ SenderAt(snd, S, at) /\ AtStart(S, E)
  /\ ReceiverAt(rcv, ctx, E, at)
  /\ Budget(S, E, N, toRcv, Acks(toSnd), Replies(toSnd), trouble)

(* There are fewer troubles than block numbers.                            *)
FewTroubles == MaxTrouble < BlkMod

(* The invariant of the line in the next state, from what is there then.   *)
LEMMA LineNext ==
  ASSUME NEW S, NEW E, NEW N, NEW at, NEW q, NEW a, NEW t, NEW s, NEW r, NEW c,
         toRcv' = q, toSnd' = a, trouble' = t, snd' = s, rcv' = r, ctx' = c,
         UNCHANGED <<proto, file>>, s.phase # "start",
         Transit(S, E, N, at, q), Offsets(S, at), SenderAt(s, S, at),
         ReceiverAt(r, c, E, at), Budget(S, E, N, q, Acks(a), Replies(a), t)
  PROVE  LineInv(S, E, N, at)'
  <1>1. Transit(S, E, N, at, toRcv)'
    BY DEF Transit, Numbers, Carries, Block, Unit, Frames, Dead
  <1>2. Offsets(S, at)' /\ SenderAt(snd, S, at)' /\ AtStart(S, E)'
    BY DEF Offsets, SenderAt, AtStart
  <1>3. ReceiverAt(rcv, ctx, E, at)'
    BY DEF ReceiverAt
  <1>4. Budget(S, E, N, toRcv, Acks(toSnd), Replies(toSnd), trouble)'
    BY DEF Budget, Live, Dead, Acks, Replies, Count, Positions
  <1> QED BY <1>1, <1>2, <1>3, <1>4 DEF LineInv

(* What the invariant of the line says, with the types of its parts.       *)
LEMMA LineFacts ==
  ASSUME BaseInv, NEW S, NEW E, NEW N, NEW at, LineInv(S, E, N, at), FewTroubles
  PROVE  /\ Transit(S, E, N, at, toRcv) /\ S \in Int /\ E \in Nat /\ E <= S + 1
         /\ N \in Seq(Int)
         /\ Offsets(S, at) /\ SenderAt(snd, S, at) /\ AtStart(S, E)
         /\ ReceiverAt(rcv, ctx, E, at)
         /\ Budget(S, E, N, toRcv, Acks(toSnd), Replies(toSnd), trouble)
         /\ Acks(toSnd) \in Nat /\ Replies(toSnd) \in Nat /\ Acks(toSnd) <= Replies(toSnd)
         /\ trouble \in Nat /\ trouble < BlkMod
         /\ toSnd \in Seq(Answers)
  <1>1. /\ Transit(S, E, N, at, toRcv) /\ Offsets(S, at) /\ SenderAt(snd, S, at)
        /\ AtStart(S, E) /\ ReceiverAt(rcv, ctx, E, at)
        /\ Budget(S, E, N, toRcv, Acks(toSnd), Replies(toSnd), trouble)
    BY DEF LineInv
  <1>2. S \in Int /\ E \in Nat /\ E <= S + 1 /\ N \in Seq(Int)
    BY <1>1, QueueFacts
  <1>3. toSnd \in Seq(Answers)
    BY DEF BaseInv, ReceiverInv
  <1>4. {"ACK"} \in SUBSET {"ACK", "NAK"}
    OBVIOUS
  <1>5. Acks(toSnd) \in Nat /\ Replies(toSnd) \in Nat /\ Acks(toSnd) <= Replies(toSnd)
    BY <1>3, <1>4, CountTyped DEF Acks, Replies
  <1>6. trouble \in Nat /\ trouble < BlkMod
    BY LineAssumption DEF BaseInv, ReceiverInv, FewTroubles
  <1> QED BY <1>1, <1>2, <1>3, <1>5, <1>6

(* The answers that the receiver gives.                                    *)
LEMMA Answered ==
  ASSUME NEW a \in Seq(Answers)
  PROVE  /\ Acks(a \o <<"ACK">>) = Acks(a) + 1 /\ Replies(a \o <<"ACK">>) = Replies(a) + 1
         /\ Acks(a \o <<"NAK">>) = Acks(a) /\ Replies(a \o <<"NAK">>) = Replies(a) + 1
         /\ Acks(a \o <<"ACK", "C">>) = Acks(a) + 1
         /\ Replies(a \o <<"ACK", "C">>) = Replies(a) + 1
  <1> DEFINE b == a \o <<"ACK">>
  <1>1. b \in Seq(Answers) /\ a \o <<"ACK", "C">> = b \o <<"C">>
    <2> DEFINE x == <<"ACK">>
               y == <<"C">>
    <2>1. "ACK" \in Answers /\ "C" \in Answers
      BY DEF Answers
    <2>2. x \in Seq(Answers) /\ y \in Seq(Answers)
      BY <2>1
    <2>3. <<"ACK", "C">> = x \o y
      OBVIOUS
    <2> HIDE DEF x, y
    <2>4. a \o x \in Seq(Answers)
      BY <2>2, ConcatProperties
    <2>5. (a \o x) \o y = a \o (x \o y)
      BY <2>2, ConcatAssociative
    <2> QED BY <2>3, <2>4, <2>5, Zenon DEF x, y
  <1>2. "ACK" \in Answers /\ "NAK" \in Answers /\ "C" \in Answers
    BY DEF Answers
  <1>3. Acks(a) \in Nat /\ Replies(a) \in Nat /\ Acks(b) \in Nat /\ Replies(b) \in Nat
    BY <1>1, CountTyped DEF Acks, Replies
  <1>4. Acks(b) = Acks(a) + 1 /\ Replies(b) = Replies(a) + 1
    BY <1>2, CountSent DEF Acks, Replies
  <1>5. Acks(a \o <<"NAK">>) = Acks(a) + 0 /\ Replies(a \o <<"NAK">>) = Replies(a) + 1
    BY <1>2, CountSent DEF Acks, Replies
  <1> HIDE DEF b
  <1>6. Acks(b \o <<"C">>) = Acks(b) + 0 /\ Replies(b \o <<"C">>) = Replies(b) + 0
    <2>1. "C" \notin {"ACK"} /\ "C" \notin {"ACK", "NAK"}
      OBVIOUS
    <2> QED BY <1>1, <1>2, <2>1, CountSent DEF Acks, Replies
  <1>7. /\ Acks(b) + 0 = Acks(a) + 1 /\ Replies(b) + 0 = Replies(a) + 1
        /\ Acks(a) + 0 = Acks(a)
    BY <1>3, <1>4
  <1> QED BY <1>1, <1>4, <1>5, <1>6, <1>7, Zenon DEF b

(* The head of the queue.                                                  *)
LEMMA TakenFrame ==
  ASSUME BaseInv, NEW S, NEW E, NEW N, NEW at, LineInv(S, E, N, at), FewTroubles,
         toRcv # <<>>
  PROVE  /\ fr = toRcv[1] /\ N # <<>> /\ N[1] \in Int /\ E - 1 <= N[1] /\ N[1] <= S
         /\ fr.kind \in {"SOH", "STX"} => Block(fr, N[1], at)
         /\ snd.phase # "start"
         /\ N[1] % BlkMod = E % BlkMod => N[1] = E
         /\ N[1] % BlkMod = (E - 1) % BlkMod => N[1] = E - 1
  <1>1. Transit(S, E, N, at, toRcv) /\ AtStart(S, E) /\ trouble < BlkMod /\ trouble \in Nat
    BY LineFacts
  <1>2. 1 \in 1..Len(N) /\ Len(N) = Len(toRcv) /\ N # <<>>
    BY <1>1, QueueFacts
  <1>3. N[1] \in Int /\ E - 1 <= N[1] /\ N[1] <= S
    BY <1>1, <1>2, QueueFacts
  <1>4. fr = toRcv[1]
    BY HeadTailProperties DEF fr, BaseInv, SenderInv
  <1>5. fr.kind \in {"SOH", "STX"} => Block(fr, N[1], at)
    BY <1>1, <1>2, <1>4 DEF Transit, Carries
  <1>6. snd.phase # "start"
    BY <1>1 DEF AtStart
  <1>7. /\ N[1] % BlkMod = E % BlkMod => N[1] = E
        /\ N[1] % BlkMod = (E - 1) % BlkMod => N[1] = E - 1
    BY <1>1, LineFacts, NotDeceived
  <1> QED BY <1>2, <1>3, <1>4, <1>5, <1>6, <1>7

(* The receiver drops, refuses or acknowledges again what it does not      *)
(* expect.                                                                 *)
LEMMA LineRefused ==
  ASSUME BaseInv, NEW S, NEW E, NEW N, NEW at, LineInv(S, E, N, at), FewTroubles,
         toRcv # <<>>, toRcv' = Tail(toRcv),
         UNCHANGED <<proto, file, snd, rcv, ctx, trouble>>,
         \/ toSnd' = toSnd /\ ~(N[1] = E /\ ~Dead(fr))
         \/ toSnd' = toSnd \o <<"NAK">> /\ ~(N[1] = E /\ ~Dead(fr))
         \/ toSnd' = toSnd \o <<"ACK">> /\ N[1] = E - 1
  PROVE  LineInv(S, E, Tail(N), at)'
  <1> DEFINE a == toSnd'
             q == Tail(toRcv)
             M == Tail(N)
  <1>1. /\ Transit(S, E, N, at, toRcv) /\ S \in Int /\ E \in Nat /\ N \in Seq(Int)
        /\ Offsets(S, at) /\ SenderAt(snd, S, at) /\ ReceiverAt(rcv, ctx, E, at)
        /\ Budget(S, E, N, toRcv, Acks(toSnd), Replies(toSnd), trouble)
        /\ Acks(toSnd) \in Nat /\ Replies(toSnd) \in Nat /\ trouble \in Nat
        /\ toSnd \in Seq(Answers)
    BY LineFacts
  <1>2. fr = toRcv[1] /\ N # <<>> /\ snd.phase # "start"
    BY TakenFrame
  <1>3. Transit(S, E, M, at, q)
    <2>1. E # E + 1
      BY <1>1
    <2>2. Numbers(S, E, M)
      BY <1>1, <1>2, <2>1, NumbersTail DEF Transit
    <2>3. Carries(q, M, at)
      BY <1>1, CarriesTail DEF Transit
    <2> QED BY <2>2, <2>3 DEF Transit
  <1>4. Budget(S, E, M, q, Acks(a), Replies(a), trouble)
    <2>1. CASE toSnd' = toSnd /\ ~(N[1] = E /\ ~Dead(fr))
      <3>1. Replies(toSnd) <= Replies(toSnd) + 1
        BY <1>1
      <3> QED BY <1>1, <1>2, <2>1, <3>1, BudgetRefused
    <2>2. CASE toSnd' = toSnd \o <<"NAK">> /\ ~(N[1] = E /\ ~Dead(fr))
      <3>1. /\ Acks(a) = Acks(toSnd) /\ Replies(a) = Replies(toSnd) + 1
        BY <1>1, <2>2, Answered
      <3>2. Replies(a) \in Nat /\ Replies(a) <= Replies(toSnd) + 1
        BY <1>1, <3>1
      <3> QED BY <1>1, <1>2, <2>2, <3>1, <3>2, BudgetRefused
    <2>3. CASE toSnd' = toSnd \o <<"ACK">> /\ N[1] = E - 1
      <3>1. /\ Acks(a) = Acks(toSnd) + 1 /\ Replies(a) = Replies(toSnd) + 1
        BY <1>1, <2>3, Answered
      <3> QED BY <1>1, <1>2, <2>3, <3>1, BudgetRepeated
    <2> QED BY <2>1, <2>2, <2>3
  <1> QED BY <1>1, <1>2, <1>3, <1>4, LineNext

(* The receiver takes the block it expects.                                *)
LEMMA LineAccepted ==
  ASSUME BaseInv, NEW S, NEW E, NEW N, NEW at, LineInv(S, E, N, at), FewTroubles,
         toRcv # <<>>, toRcv' = Tail(toRcv), N[1] = E,
         UNCHANGED <<proto, file, snd>>, trouble' \in Nat, trouble <= trouble',
         toSnd' = toSnd \o <<"ACK">> \/ toSnd' = toSnd \o <<"ACK", "C">>,
         NEW r, NEW c, rcv' = r, ctx' = c, ReceiverAt(r, c, E + 1, at)
  PROVE  LineInv(S, E + 1, Tail(N), at)'
  <1> DEFINE a == toSnd'
             q == Tail(toRcv)
             M == Tail(N)
  <1>1. /\ Transit(S, E, N, at, toRcv) /\ S \in Int /\ E \in Nat /\ N \in Seq(Int)
        /\ Offsets(S, at) /\ SenderAt(snd, S, at)
        /\ Budget(S, E, N, toRcv, Acks(toSnd), Replies(toSnd), trouble)
        /\ Acks(toSnd) \in Nat /\ Replies(toSnd) \in Nat /\ trouble \in Nat
        /\ toSnd \in Seq(Answers)
    BY LineFacts
  <1>2. fr = toRcv[1] /\ N # <<>> /\ snd.phase # "start"
    BY TakenFrame
  <1>3. Transit(S, E + 1, M, at, q)
    <2>2. Numbers(S, E + 1, M)
      BY <1>1, <1>2, NumbersTail DEF Transit
    <2>3. Carries(q, M, at)
      BY <1>1, CarriesTail DEF Transit
    <2> QED BY <2>2, <2>3 DEF Transit
  <1>4. Budget(S, E + 1, M, q, Acks(a), Replies(a), trouble')
    <2>1. Acks(a) = Acks(toSnd) + 1 /\ Replies(a) = Replies(toSnd) + 1
      BY <1>1, Answered
    <2>2. Budget(S, E + 1, M, q, Acks(a), Replies(a), trouble)
      <3>1. Budget(S, E + 1, M, q, Acks(toSnd) + 1, Replies(toSnd) + 1, trouble)
        BY <1>1, BudgetAccepted
      <3> QED BY <2>1, <3>1, Zenon
    <2>3. /\ Acks(a) \in Nat /\ Replies(a) \in Nat /\ E + 1 \in Nat
          /\ Acks(a) <= Acks(a) /\ Replies(a) <= Replies(a)
      <3> DEFINE x == Acks(toSnd)
                 y == Replies(toSnd)
                 u == Acks(a)
                 v == Replies(a)
      <3>1. x \in Nat /\ y \in Nat /\ u = x + 1 /\ v = y + 1 /\ E \in Nat
        BY <1>1, <2>1, Zenon
      <3> HIDE DEF x, y, u, v
      <3>2. u \in Nat /\ v \in Nat /\ E + 1 \in Nat /\ u <= u /\ v <= v
        BY <3>1
      <3> QED BY <3>2, Zenon DEF u, v
    <2>4. Len(q) \in Nat
      BY <1>3, QueueFacts
    <2> HIDE DEF a, q, M
    <2> QED BY <1>1, <2>2, <2>3, <2>4, BudgetGrows
  <1> QED BY <1>1, <1>2, <1>3, <1>4, LineNext

-----------------------------------------------------------------------------
(* What was received                                                       *)

(* The flash holds the file so far, and no more of it than the protocol    *)
(* announced.                                                              *)
StreamInv ==
  /\ Prefix(ctx)
  /\ rcv.total_received <= file.len + BigBlock
  /\ proto = "raw" => Len(ctx.flash) <= file.len
  /\ proto = "ymodem" => Len(ctx.flash) <= file.declared

(* A step that writes nothing.                                             *)
LEMMA StreamKept ==
  ASSUME StreamInv, UNCHANGED <<proto, file, ctx>>,
         rcv'.total_received = rcv.total_received
  PROVE  StreamInv'
  BY DEF StreamInv, Prefix, Ascending, Unit

(* The block protocols deliver data that continue the file.                *)
LEMMA DeliverStream ==
  ASSUME BaseInv, StreamInv, rcv.rc = Running, UNCHANGED <<proto, file>>, proto # "raw",
         NEW data \in Seq(Nat), Deliver(data), ctx.total_received = rcv.total_received,
         \A k \in 1..Len(data) : data[k] = Unit(rcv.total_received + k),
         rcv.total_received + Len(data) <= file.len + BigBlock,
         proto = "ymodem" => rcv.total_received + Len(data) <= file.declared
  PROVE  /\ StreamInv' /\ trouble' \in Nat /\ trouble <= trouble'
         /\ rcv'.rc = Running =>
              /\ toSnd' = toSnd \o <<"ACK">>
              /\ rcv' = [rcv EXCEPT !.expected_blk = (@ + 1) % BlkMod,
                                    !.total_received = @ + Len(data)]
              /\ ctx'.state # "VERIFY" => ctx'.total_received = rcv.total_received + Len(data)
  <1>1. PICK w : /\ PassInv(w, data) /\ ctx' = w.ctx
                 /\ trouble' \in 0..MaxTrouble /\ spoilt' \in BOOLEAN /\ trouble <= trouble'
                 /\ \/ /\ w.rc = "EOS_OK" /\ Answer(<<"ACK">>)
                       /\ w.used = Len(data) \/ w.ctx.state = "VERIFY"
                       /\ rcv' = [rcv EXCEPT !.expected_blk = (@ + 1) % BlkMod,
                                             !.total_received = @ + Len(data)]
                    \/ /\ w.rc \in Errors /\ Answer(<<"CAN">>)
                       /\ rcv' = [rcv EXCEPT !.rc = w.rc]
    BY Delivery
  <1>2. rcv \in Receivers /\ file \in File /\ MaxTrouble \in Nat
    BY LineAssumption DEF BaseInv, SenderInv, ReceiverInv
  <1>3. trouble' \in Nat /\ trouble <= trouble'
    BY <1>1, <1>2
  <1>4. Continues(ctx, data)
    BY DEF StreamInv, Continues
  <1>5. Prefix(w.ctx)
    BY <1>1, <1>4 DEF PassInv
  <1>6. rcv'.total_received <= file.len + BigBlock
    <2>1. CASE w.rc = "EOS_OK"
      <3>1. rcv' = [rcv EXCEPT !.expected_blk = (@ + 1) % BlkMod,
                               !.total_received = @ + Len(data)]
        BY <1>1, <2>1 DEF Errors
      <3>2. rcv'.total_received = rcv.total_received + Len(data)
        BY <1>2, <3>1 DEF Receivers
      <3> QED BY <3>2
    <2>2. CASE w.rc # "EOS_OK"
      <3>1. rcv' = [rcv EXCEPT !.rc = w.rc]
        BY <1>1, <2>2
      <3>2. rcv'.total_received = rcv.total_received
        BY <1>2, <3>1 DEF Receivers
      <3> QED BY <3>2 DEF StreamInv
    <2> QED BY <2>1, <2>2
  <1>7. proto = "ymodem" => Len(w.ctx.flash) <= file.declared
    <2> SUFFICES ASSUME proto = "ymodem" PROVE Len(w.ctx.flash) <= file.declared
      OBVIOUS
    <2>1. CASE w.ctx.flash = ctx.flash
      BY <2>1 DEF StreamInv
    <2>2. CASE w.ctx.flash # ctx.flash
      <3> DEFINE x == Len(w.ctx.flash)
                 y == rcv.total_received + Len(data)
      <3>1. x <= y /\ y <= file.declared
        BY <1>1, <2>2 DEF PassInv
      <3>2. x \in Nat /\ y \in Nat /\ file.declared \in Nat
        <4>1. w.ctx.flash \in Seq(Nat) /\ rcv.total_received \in Nat
          BY <1>1, <1>2 DEF PassInv, ContextInv, Contexts, Receivers
        <4>2. x \in Nat /\ Len(data) \in Nat
          BY <4>1, LenProperties
        <4> QED BY <1>2, <4>1, <4>2, FileAssumption
      <3> HIDE DEF x, y
      <3>3. x <= file.declared
        BY <3>1, <3>2
      <3> QED BY <3>3 DEF x
    <2> QED BY <2>1, <2>2
  <1>8. StreamInv'
    BY <1>1, <1>5, <1>6, <1>7 DEF StreamInv, Prefix, Ascending, Unit
  <1>9. ASSUME rcv'.rc = Running
        PROVE  /\ toSnd' = toSnd \o <<"ACK">>
               /\ rcv' = [rcv EXCEPT !.expected_blk = (@ + 1) % BlkMod,
                                     !.total_received = @ + Len(data)]
               /\ ctx'.state # "VERIFY" => ctx'.total_received = rcv.total_received + Len(data)
    <2>1. ~(w.rc \in Errors /\ rcv' = [rcv EXCEPT !.rc = w.rc])
      BY <1>2, <1>9 DEF Errors, Receivers, Running
    <2>2. /\ w.rc = "EOS_OK" /\ Answer(<<"ACK">>)
          /\ w.used = Len(data) \/ w.ctx.state = "VERIFY"
          /\ rcv' = [rcv EXCEPT !.expected_blk = (@ + 1) % BlkMod,
                                !.total_received = @ + Len(data)]
      BY <1>1, <2>1
    <2> QED BY <1>1, <2>2 DEF PassInv, Answer
  <1> QED BY <1>3, <1>8, <1>9

(* Some numbering of the blocks explains what is on the line.              *)
OnLine == \E S, E, N, at : LineInv(S, E, N, at)

(* A receive function that returns has written nothing on its way out.     *)
LEMMA GaveUp ==
  ASSUME BaseInv, StreamInv, UNCHANGED <<proto, file>>, NEW a, NEW rc, rc # Running,
         GiveUp(a, rc)
  PROVE  StreamInv' /\ rcv'.rc # Running
  <1>1. rcv \in Receivers /\ rcv' = [rcv EXCEPT !.rc = rc] /\ UNCHANGED ctx
    BY DEF BaseInv, ReceiverInv, GiveUp, Return
  <1>2. rcv'.rc = rc /\ rcv'.total_received = rcv.total_received
    BY <1>1 DEF Receivers
  <1> QED BY <1>1, <1>2, StreamKept

(* End of transmission, a cancellation, or something that is no frame.     *)
LEMMA EndedLine ==
  ASSUME BaseInv, StreamInv, FewTroubles, NEW S, NEW E, NEW N, NEW at, LineInv(S, E, N, at),
         toRcv # <<>>, toRcv' = Tail(toRcv), UNCHANGED <<proto, file, snd>>,
         NEW a, Ended(a)
  PROVE  StreamInv' /\ (rcv'.rc = Running => OnLine')
  <1>1. CASE fr.kind = "EOT" /\ GiveUp(a, EotResult(Wanted))
    <2>1. EotResult(Wanted) # Running
      BY DEF EotResult, Running
    <2> QED BY <1>1, <2>1, GaveUp
  <1>2. CASE fr.kind = "CAN" /\ GiveUp(<<>>, "EOS_ERR_GENERIC")
    <2>1. "EOS_ERR_GENERIC" # Running
      BY DEF Running
    <2> QED BY <1>2, <2>1, GaveUp
  <1>3. CASE fr.kind = "noise" /\ UNCHANGED <<toSnd, rcv, ctx, trouble, spoilt>>
    <2>1. Dead(fr)
      BY <1>3 DEF Dead
    <2>2. LineInv(S, E, Tail(N), at)'
      BY <1>3, <2>1, LineRefused
    <2> QED BY <1>3, <2>2, StreamKept DEF OnLine
  <1> QED BY <1>1, <1>2, <1>3 DEF Ended

(* The receiver refuses a block that it cannot or should not read.         *)
LEMMA RefusedLine ==
  ASSUME BaseInv, StreamInv, FewTroubles, NEW S, NEW E, NEW N, NEW at, LineInv(S, E, N, at),
         toRcv # <<>>, toRcv' = Tail(toRcv), UNCHANGED <<proto, file, snd>>,
         \/ Refuse("NAK") /\ ~(N[1] = E /\ ~Dead(fr))
         \/ Refuse("ACK") /\ N[1] = E - 1
  PROVE  StreamInv' /\ (rcv'.rc = Running => OnLine')
  <1>1. UNCHANGED <<rcv, ctx, trouble>>
    BY DEF Refuse
  <1>2. LineInv(S, E, Tail(N), at)'
    <2>1. CASE Refuse("NAK") /\ ~(N[1] = E /\ ~Dead(fr))
      <3>1. toSnd' = toSnd \o <<"NAK">>
        BY <2>1 DEF Refuse, Answer
      <3> QED BY <1>1, <2>1, <3>1, LineRefused
    <2>2. CASE Refuse("ACK") /\ N[1] = E - 1
      <3>1. toSnd' = toSnd \o <<"ACK">>
        BY <2>2 DEF Refuse, Answer
      <3> QED BY <1>1, <2>2, <3>1, LineRefused
    <2> QED BY <2>1, <2>2
  <1> QED BY <1>1, <1>2, StreamKept DEF OnLine

(* The frames of an XMODEM transfer.                                       *)
LEMMA XmodemLine ==
  ASSUME BaseInv, StreamInv, FewTroubles, NEW S, NEW E, NEW N, NEW at, LineInv(S, E, N, at),
         xmodem_receive
  PROVE  StreamInv' /\ (rcv'.rc = Running => OnLine')
  <1>1. /\ rcv.rc = Running /\ proto = "xmodem" /\ toRcv # <<>> /\ toRcv' = Tail(toRcv)
        /\ UNCHANGED <<proto, file, snd>>
        /\ \/ Ended(<<"ACK">>)
           \/ fr.kind = "SOH" /\ ~Expected /\ Refuse("NAK")
           \/ fr.kind = "SOH" /\ Expected /\ Wanted = 0 /\ GiveUp(<<"CAN">>, "EOS_ERR_INVALID")
           \/ fr.kind = "SOH" /\ Expected /\ Wanted # 0 /\ Deliver(fr.data)
    BY DEF xmodem_receive, Receiving, Take
  <1>2. CASE Ended(<<"ACK">>)
    BY <1>1, <1>2, EndedLine
  <1>3. CASE fr.kind = "SOH" /\ ~Expected /\ Refuse("NAK")
    <2>1. Block(fr, N[1], at) /\ rcv.expected_blk = E % BlkMod
      BY <1>1, <1>3, TakenFrame, LineFacts DEF ReceiverAt
    <2>2. ~(N[1] = E /\ ~Dead(fr))
      BY <1>3, <2>1 DEF Block, Dead, Expected
    <2> QED BY <1>1, <1>3, <2>2, RefusedLine
  <1>4. CASE fr.kind = "SOH" /\ Expected /\ Wanted = 0 /\ GiveUp(<<"CAN">>, "EOS_ERR_INVALID")
    <2>1. "EOS_ERR_INVALID" # Running
      BY DEF Running
    <2> QED BY <1>1, <1>4, <2>1, GaveUp
  <1>5. CASE fr.kind = "SOH" /\ Expected /\ Wanted # 0 /\ Deliver(fr.data)
    <2> DEFINE data == fr.data
    <2>1. /\ Offsets(S, at) /\ S \in Int /\ E \in Nat /\ E <= S + 1
          /\ ReceiverAt(rcv, ctx, E, at)
      BY LineFacts
    <2>2. N[1] = E /\ N[1] <= S /\ Block(fr, E, at)
      <3>1. Block(fr, N[1], at) /\ (N[1] % BlkMod = E % BlkMod => N[1] = E) /\ N[1] <= S
        BY <1>1, <1>5, TakenFrame
      <3>2. fr.blk = E % BlkMod /\ fr.blk = N[1] % BlkMod
        BY <1>5, <2>1, <3>1 DEF Expected, ReceiverAt, Block
      <3> QED BY <3>1, <3>2
    <2>3. /\ at \in [Nat -> Nat] /\ at[E] \in Nat /\ at[E + 1] \in Nat
          /\ at[E + 1] <= file.len + BigBlock
      <3>1. E + 1 \in Nat /\ E + 1 <= S + 1
        BY <2>1, <2>2
      <3> QED BY <2>1, <3>1 DEF Offsets
    <2>4. /\ data \in Seq(Nat) /\ Len(data) = at[E + 1] - at[E]
          /\ \A k \in 1..Len(data) : data[k] = Unit(at[E] + k)
      BY <1>1, <2>2, HeadFrame DEF Block
    <2>5. rcv.total_received = at[E] /\ ctx.total_received = rcv.total_received
      <3>1. ctx.state # "VERIFY"
        BY <1>1, <1>5, WantedUnits DEF Wanted, BaseInv, SenderInv, ReceiverInv
      <3> QED BY <1>1, <2>1, <3>1 DEF ReceiverAt
    <2>6. rcv.total_received + Len(data) = at[E + 1]
      <3> DEFINE x == at[E]
                 y == at[E + 1]
      <3>1. rcv.total_received = x /\ Len(data) = y - x /\ x \in Nat /\ y \in Nat
        BY <2>3, <2>4, <2>5
      <3> HIDE DEF x, y, data
      <3>2. rcv.total_received + Len(data) = y
        BY <3>1
      <3> QED BY <3>2 DEF y
    <2>7. /\ StreamInv' /\ trouble' \in Nat /\ trouble <= trouble'
          /\ rcv'.rc = Running =>
              /\ toSnd' = toSnd \o <<"ACK">>
              /\ rcv' = [rcv EXCEPT !.expected_blk = (@ + 1) % BlkMod,
                                    !.total_received = @ + Len(data)]
              /\ ctx'.state # "VERIFY" => ctx'.total_received = rcv.total_received + Len(data)
      <3> HIDE DEF data
      <3>1. Deliver(data) /\ proto # "raw" /\ proto # "ymodem"
        BY <1>1, <1>5 DEF data
      <3>2. rcv.total_received + Len(data) <= file.len + BigBlock
        BY <2>3, <2>6
      <3>3. \A k \in 1..Len(data) : data[k] = Unit(rcv.total_received + k)
        BY <2>4, <2>5
      <3> QED BY <1>1, <2>4, <2>5, <3>1, <3>2, <3>3, DeliverStream
    <2>8. ASSUME rcv'.rc = Running PROVE LineInv(S, E + 1, Tail(N), at)'
      <3>1. rcv \in Receivers
        BY DEF BaseInv, ReceiverInv
      <3>2. /\ rcv'.expected_blk = (rcv.expected_blk + 1) % BlkMod
            /\ rcv'.total_received = rcv.total_received + Len(data)
        BY <2>7, <2>8, <3>1 DEF Receivers
      <3>3. (rcv.expected_blk + 1) % BlkMod = (E + 1) % BlkMod
        <4>1. ((E % BlkMod) + 1) % BlkMod = (E + 1) % BlkMod /\ rcv.expected_blk = E % BlkMod
          BY <2>1, NextRemainder DEF ReceiverAt
        <4> QED BY <4>1
      <3>4. ReceiverAt(rcv', ctx', E + 1, at)
        BY <1>1, <2>6, <2>7, <2>8, <3>2, <3>3 DEF ReceiverAt
      <3> QED BY <1>1, <2>2, <2>7, <2>8, <3>4, LineAccepted
    <2> QED BY <2>7, <2>8 DEF OnLine
  <1> QED BY <1>1, <1>2, <1>3, <1>4, <1>5

(* YMODEM takes the block it expects as far as the declared size goes.     *)
LEMMA YmodemDelivers ==
  ASSUME BaseInv, StreamInv, FewTroubles, NEW S, NEW E, NEW N, NEW at, LineInv(S, E, N, at),
         rcv.rc = Running, proto = "ymodem", toRcv # <<>>, toRcv' = Tail(toRcv),
         UNCHANGED <<proto, file, snd>>, fr.kind \in {"SOH", "STX"}, ~rcv.first_block,
         Expected, Wanted # 0, FileLen # 0, Deliver(SubSeq(fr.data, 1, FileLen))
  PROVE  StreamInv' /\ (rcv'.rc = Running => OnLine')
  <1> DEFINE data == SubSeq(fr.data, 1, FileLen)
             tr == rcv.total_received
             x == at[E]
             y == at[E + 1]
             n == FileLen
             len == Len(fr.data)
             dec == file.declared
  <1>1. /\ Offsets(S, at) /\ S \in Int /\ E \in Nat /\ E <= S + 1
        /\ ReceiverAt(rcv, ctx, E, at)
    BY LineFacts
  <1>2. N[1] = E /\ N[1] <= S /\ Block(fr, E, at)
    <2>1. Block(fr, N[1], at) /\ (N[1] % BlkMod = E % BlkMod => N[1] = E) /\ N[1] <= S
      BY TakenFrame
    <2>2. fr.blk = E % BlkMod /\ fr.blk = N[1] % BlkMod
      BY <1>1, <2>1 DEF Expected, ReceiverAt, Block
    <2> QED BY <2>1, <2>2
  <1>3. x \in Nat /\ y \in Nat /\ y <= file.len + BigBlock
    <2>1. E + 1 \in Nat /\ E + 1 <= S + 1
      BY <1>1, <1>2
    <2> QED BY <1>1, <2>1 DEF Offsets
  <1>4. /\ len \in Nat /\ len = y - x /\ fr.data \in Seq(Nat)
        /\ \A k \in 1..len : fr.data[k] = Unit(x + k)
    BY <1>2, HeadFrame, LenProperties DEF Block
  <1>5. tr = Lesser(x, dec) /\ rcv.file_size = dec /\ dec \in Nat /\ E # 0
    <2>1. file \in File
      BY DEF BaseInv, SenderInv
    <2> QED BY <1>1, <2>1, FileAssumption DEF ReceiverAt
  <1>6. n = Lesser(len, dec - tr) /\ n # 0
    BY <1>5 DEF FileLen
  <1>7. file.len + BigBlock \in Nat
    BY FileAssumption, LineAssumption DEF BaseInv, SenderInv
  <1>8. /\ tr = x /\ n \in Nat /\ n <= len /\ tr + n = Lesser(y, dec) /\ tr + n <= dec
        /\ tr + n <= file.len + BigBlock
    <2> DEFINE lim == file.len + BigBlock
    <2>1. lim \in Nat /\ y <= lim
      BY <1>3, <1>7
    <2>2. len \in Nat /\ len = y - x
      BY <1>4
    <2> HIDE DEF tr, x, y, n, len, dec, lim
    <2>3. tr = IF x < dec THEN x ELSE dec
      BY <1>5 DEF Lesser
    <2>4. n = IF len < dec - tr THEN len ELSE dec - tr
      BY <1>6 DEF Lesser
    <2>5. x < dec
      BY <1>3, <1>5, <1>6, <2>2, <2>3, <2>4
    <2>6. tr = x
      BY <2>3, <2>5
    <2>7. Lesser(y, dec) = IF y < dec THEN y ELSE dec
      BY DEF Lesser
    <2>8. n \in Nat /\ n <= len /\ tr + n = Lesser(y, dec) /\ tr + n <= dec /\ tr + n <= lim
      <3>1. CASE len < dec - x
        BY <1>3, <1>5, <2>1, <2>2, <2>4, <2>5, <2>6, <2>7, <3>1
      <3>2. CASE ~(len < dec - x)
        BY <1>3, <1>5, <2>1, <2>2, <2>4, <2>5, <2>6, <2>7, <3>2
      <3> QED BY <3>1, <3>2
    <2> QED BY <2>6, <2>8 DEF lim
  <1>9. ctx.total_received = tr
    <2>1. ctx.state # "VERIFY"
      BY WantedUnits DEF Wanted, BaseInv, SenderInv, ReceiverInv
    <2> QED BY <1>1, <2>1 DEF ReceiverAt
  <1>10. /\ data \in Seq(Nat) /\ Len(data) = n
         /\ \A k \in 1..Len(data) : data[k] = Unit(tr + k)
    <2> DEFINE p == SubSeq(fr.data, 0 + 1, n)
    <2>1. 0 \in Nat /\ 0 <= n /\ n <= Len(fr.data) /\ n \in Nat
      BY <1>8
    <2>2. data = p
      OBVIOUS
    <2> HIDE DEF n, data
    <2>3. p \in Seq(Nat) /\ Len(p) = n - 0 /\ \A k \in 1..(n - 0) : p[k] = fr.data[0 + k]
      BY <1>4, <2>1, Piece
    <2> HIDE DEF p
    <2>4. n - 0 = n /\ \A k \in 1..n : 0 + k = k /\ k \in 1..len
      BY <1>4, <2>1
    <2> QED BY <1>4, <1>8, <2>2, <2>3, <2>4
  <1> HIDE DEF data
  <1>11. /\ StreamInv' /\ trouble' \in Nat /\ trouble <= trouble'
         /\ rcv'.rc = Running =>
              /\ toSnd' = toSnd \o <<"ACK">>
              /\ rcv' = [rcv EXCEPT !.expected_blk = (@ + 1) % BlkMod,
                                    !.total_received = @ + Len(data)]
              /\ ctx'.state # "VERIFY" => ctx'.total_received = rcv.total_received + Len(data)
    <2>1. Deliver(data) /\ proto # "raw"
      BY DEF data
    <2>2. /\ rcv.total_received + Len(data) <= file.len + BigBlock
          /\ rcv.total_received + Len(data) <= file.declared
          /\ \A k \in 1..Len(data) : data[k] = Unit(rcv.total_received + k)
          /\ ctx.total_received = rcv.total_received
      BY <1>8, <1>9, <1>10
    <2> QED BY <1>10, <2>1, <2>2, DeliverStream
  <1>12. ASSUME rcv'.rc = Running PROVE LineInv(S, E + 1, Tail(N), at)'
    <2>1. rcv \in Receivers
      BY DEF BaseInv, ReceiverInv
    <2>2. /\ rcv'.expected_blk = (rcv.expected_blk + 1) % BlkMod
          /\ rcv'.total_received = tr + n /\ rcv'.first_block = rcv.first_block
          /\ rcv'.file_size = dec
      BY <1>5, <1>10, <1>11, <1>12, <2>1 DEF Receivers
    <2>3. (rcv.expected_blk + 1) % BlkMod = (E + 1) % BlkMod
      <3>1. ((E % BlkMod) + 1) % BlkMod = (E + 1) % BlkMod /\ rcv.expected_blk = E % BlkMod
        BY <1>1, NextRemainder DEF ReceiverAt
      <3> QED BY <3>1
    <2>4. E + 1 # 0
      BY <1>1
    <2>5. rcv'.total_received = Lesser(at[E + 1], file.declared)
      BY <1>8, <2>2
    <2>6. ctx'.state # "VERIFY" => ctx'.total_received = rcv'.total_received
      BY <1>10, <1>11, <1>12, <2>2
    <2>7. ReceiverAt(rcv', ctx', E + 1, at)
      BY <2>2, <2>3, <2>4, <2>5, <2>6 DEF ReceiverAt
    <2> QED BY <1>2, <1>11, <1>12, <2>7, LineAccepted
  <1> QED BY <1>11, <1>12 DEF OnLine

(* YMODEM waits for block 0.                                               *)
LEMMA YmodemStarts ==
  ASSUME BaseInv, StreamInv, FewTroubles, NEW S, NEW E, NEW N, NEW at, LineInv(S, E, N, at),
         proto = "ymodem", toRcv # <<>>, toRcv' = Tail(toRcv),
         UNCHANGED <<proto, file, snd>>, fr.kind \in {"SOH", "STX"}, fr.intact,
         rcv.first_block, BlockZero
  PROVE  StreamInv' /\ (rcv'.rc = Running => OnLine')
  <1>1. /\ Offsets(S, at) /\ ReceiverAt(rcv, ctx, E, at) /\ rcv \in Receivers /\ E = 0
        /\ trouble \in Nat
    BY LineFacts DEF BaseInv, ReceiverInv, ReceiverAt
  <1>2. 0 % BlkMod = 0 /\ 1 % BlkMod = 1
    <2>0. 0 = BlkMod * 0 + 0 /\ 1 = BlkMod * 0 + 1 /\ 0 < BlkMod /\ 1 < BlkMod
      BY LineAssumption
    <2> QED BY <2>0, RemainderOf
  <1>3. Block(fr, N[1], at) /\ (N[1] % BlkMod = E % BlkMod => N[1] = E)
    BY TakenFrame
  <1>4. CASE fr.blk # 0 /\ Refuse("NAK")
    <2>1. N[1] # E
      BY <1>1, <1>2, <1>3, <1>4 DEF Block
    <2> QED BY <1>4, <2>1, RefusedLine
  <1>5. CASE GiveUp(<<"CAN">>, "EOS_ERR_INVALID")
    <2>1. "EOS_ERR_INVALID" # Running
      BY DEF Running
    <2> QED BY <1>5, <2>1, GaveUp
  <1>6. CASE /\ fr.blk = 0 /\ file.declared # 0
             /\ rcv' = [rcv EXCEPT !.first_block = FALSE, !.expected_blk = 1,
                                   !.file_size = file.declared]
             /\ Answer(<<"ACK", "C">>)
             /\ UNCHANGED <<ctx, trouble, spoilt>>
    <2>1. N[1] = E
      BY <1>1, <1>2, <1>3, <1>6 DEF Block
    <2>2. /\ rcv'.expected_blk = 1 /\ rcv'.first_block = FALSE
          /\ rcv'.file_size = file.declared
          /\ rcv'.total_received = rcv.total_received
      BY <1>1, <1>6 DEF Receivers
    <2>3. Lesser(at[1], file.declared) = 0
      <3>1. at[1] = 0 /\ file.declared \in Nat /\ file.declared # 0
        BY <1>1, <1>6, FileAssumption DEF Offsets, BaseInv, SenderInv
      <3> QED BY <3>1 DEF Lesser
    <2>4. E + 1 = 1 /\ 1 # 0 /\ rcv.total_received = 0
      BY <1>1 DEF ReceiverAt
    <2>5. ReceiverAt(rcv', ctx', 1, at)
      BY <1>1, <1>2, <1>6, <2>2, <2>3, <2>4 DEF ReceiverAt
    <2>6. toSnd' = toSnd \o <<"ACK", "C">> /\ trouble' \in Nat /\ trouble <= trouble'
      BY <1>1, <1>6 DEF Answer
    <2>7. LineInv(S, E + 1, Tail(N), at)'
      BY <2>1, <2>4, <2>5, <2>6, LineAccepted
    <2> QED BY <1>6, <2>2, <2>7, StreamKept DEF OnLine
  <1> QED BY <1>4, <1>5, <1>6 DEF BlockZero

(* The frames of a YMODEM transfer.                                        *)
LEMMA YmodemLine ==
  ASSUME BaseInv, StreamInv, FewTroubles, NEW S, NEW E, NEW N, NEW at, LineInv(S, E, N, at),
         ymodem_receive
  PROVE  StreamInv' /\ (rcv'.rc = Running => OnLine')
  <1>1. /\ rcv.rc = Running /\ proto = "ymodem" /\ toRcv # <<>> /\ toRcv' = Tail(toRcv)
        /\ UNCHANGED <<proto, file, snd>>
        /\ \/ Ended(IF rcv.first_block THEN <<"ACK">> ELSE <<"ACK", "C">>)
           \/ /\ fr.kind \in {"SOH", "STX"}
              /\ \/ ~fr.intact /\ Refuse("NAK")
                 \/ fr.intact /\ rcv.first_block /\ BlockZero
                 \/ fr.intact /\ ~rcv.first_block /\ DataBlock
    BY DEF ymodem_receive, Receiving, Take
  <1>2. CASE Ended(IF rcv.first_block THEN <<"ACK">> ELSE <<"ACK", "C">>)
    BY <1>1, <1>2, EndedLine
  <1>3. CASE fr.kind \in {"SOH", "STX"} /\ ~fr.intact /\ Refuse("NAK")
    <2>1. Dead(fr)
      BY <1>3 DEF Dead
    <2> QED BY <1>1, <1>3, <2>1, RefusedLine
  <1>4. CASE fr.kind \in {"SOH", "STX"} /\ fr.intact /\ rcv.first_block /\ BlockZero
    BY <1>1, <1>4, YmodemStarts
  <1>5. CASE fr.kind \in {"SOH", "STX"} /\ fr.intact /\ ~rcv.first_block /\ DataBlock
    <2>1. /\ Block(fr, N[1], at) /\ ReceiverAt(rcv, ctx, E, at) /\ E \in Nat
          /\ N[1] % BlkMod = E % BlkMod => N[1] = E
          /\ N[1] % BlkMod = (E - 1) % BlkMod => N[1] = E - 1
      BY <1>1, <1>5, TakenFrame, LineFacts
    <2>2. rcv.expected_blk = E % BlkMod /\ fr.blk = N[1] % BlkMod
      BY <2>1 DEF ReceiverAt, Block
    <2>3. CASE Repeated(fr.blk) /\ Refuse("ACK")
      <3>1. fr.blk = ((E % BlkMod) - 1) % BlkMod
        BY <2>2, <2>3 DEF Repeated
      <3>2. ((E % BlkMod) - 1) % BlkMod = (E - 1) % BlkMod
        BY <2>1, PreviousRemainder
      <3>3. N[1] = E - 1
        BY <2>1, <2>2, <3>1, <3>2
      <3> QED BY <1>1, <2>3, <3>3, RefusedLine
    <2>4. CASE ~Expected /\ Refuse("NAK")
      <3>1. ~(N[1] = E /\ ~Dead(fr))
        BY <1>5, <2>2, <2>4 DEF Dead, Expected
      <3> QED BY <1>1, <2>4, <3>1, RefusedLine
    <2>5. CASE GiveUp(<<"CAN">>, "EOS_ERR_INVALID")
      <3>1. "EOS_ERR_INVALID" # Running
        BY DEF Running
      <3> QED BY <1>1, <2>5, <3>1, GaveUp
    <2>6. CASE /\ Expected /\ Wanted # 0 /\ FileLen # 0
               /\ Deliver(SubSeq(fr.data, 1, FileLen))
      BY <1>1, <1>5, <2>6, YmodemDelivers
    <2> QED BY <1>5, <2>3, <2>4, <2>5, <2>6 DEF DataBlock
  <1> QED BY <1>1, <1>2, <1>3, <1>4, <1>5

-----------------------------------------------------------------------------
(* What is sent                                                            *)

(* The sender appends a frame, numbered like the last one or the next.     *)
LEMMA LineSent ==
  ASSUME BaseInv, FewTroubles, NEW S, NEW E, NEW N, NEW at, LineInv(S, E, N, at),
         UNCHANGED <<proto, file, rcv, ctx>>,
         NEW s, snd' = s, s.phase # "start",
         NEW f \in Frames, ~Dead(f), toRcv' = Append(toRcv, f),
         NEW R \in {S, S + 1}, NEW bt, Offsets(R, bt), Carries(toRcv, N, bt),
         f.kind \in {"SOH", "STX"} => Block(f, R, bt),
         SenderAt(s, R, bt), ReceiverAt(rcv, ctx, E, bt),
         toSnd' \in Seq(Answers), trouble' \in Nat, trouble <= trouble',
         (Len(toRcv) + 1) + Replies(toSnd') <= 1 + trouble',
         R + Acks(toSnd') <= S + Acks(toSnd) \/ R = E
  PROVE  LineInv(R, E, Append(N, R), bt)'
  <1> DEFINE q == Append(toRcv, f)
             M == Append(N, R)
             a == toSnd'
             t == trouble'
  <1>1. /\ Transit(S, E, N, at, toRcv) /\ S \in Int /\ E \in Nat /\ N \in Seq(Int)
        /\ Budget(S, E, N, toRcv, Acks(toSnd), Replies(toSnd), trouble)
        /\ Acks(toSnd) \in Nat /\ Replies(toSnd) \in Nat /\ trouble \in Nat
    BY LineFacts
  <1>2. R \in Int
    BY <1>1
  <1>3. Transit(R, E, M, bt, q)
    <2>1. Numbers(R, E, M)
      BY <1>1, NumbersAppend DEF Transit
    <2>2. Carries(q, M, bt)
      BY <1>1, <1>2, CarriesSent
    <2> QED BY <2>1, <2>2 DEF Transit
  <1>4. Acks(a) \in Nat /\ Replies(a) \in Nat /\ t \in Nat
    BY CountTyped DEF Acks, Replies
  <1>5. Budget(R, E, M, q, Acks(a), Replies(a), t)
    <2>1. /\ t \in Nat /\ trouble <= t /\ (Len(toRcv) + 1) + Replies(a) <= 1 + t
          /\ R + Acks(a) <= S + Acks(toSnd) \/ R = E
      OBVIOUS
    <2> DEFINE u == Acks(toSnd)
               v == Replies(toSnd)
               x == Acks(a)
               y == Replies(a)
    <2>2. /\ u \in Nat /\ v \in Nat /\ x \in Nat /\ y \in Nat /\ trouble \in Nat
          /\ t \in Nat /\ trouble <= t /\ (Len(toRcv) + 1) + y <= 1 + t
          /\ R + x <= S + u \/ R = E
          /\ Budget(S, E, N, toRcv, u, v, trouble) /\ Transit(S, E, N, at, toRcv)
      BY <1>1, <1>4, <2>1, Zenon
    <2> HIDE DEF t, u, v, x, y
    <2>3. Budget(R, E, M, q, x, y, t)
      BY <2>2, BudgetSent
    <2> QED BY <2>3, Zenon DEF x, y
  <1> QED BY <1>3, <1>5, LineNext

(* A step that sends nothing, and reads or loses an answer at most.        *)
LEMMA LineIdle ==
  ASSUME BaseInv, FewTroubles, NEW S, NEW E, NEW N, NEW at, LineInv(S, E, N, at),
         UNCHANGED <<proto, file, rcv, ctx, toRcv>>,
         snd'.phase = "done" \/ (snd' = snd /\ snd.phase # "start"),
         toSnd' = toSnd \/ (toSnd # <<>> /\ toSnd' = Tail(toSnd)),
         trouble' \in Nat, trouble <= trouble'
  PROVE  LineInv(S, E, N, at)'
  <1> DEFINE a == toSnd'
             t == trouble'
  <1>1. /\ Transit(S, E, N, at, toRcv) /\ S \in Int /\ E \in Nat /\ Offsets(S, at)
        /\ ReceiverAt(rcv, ctx, E, at) /\ SenderAt(snd, S, at)
        /\ Budget(S, E, N, toRcv, Acks(toSnd), Replies(toSnd), trouble)
        /\ Acks(toSnd) \in Nat /\ Replies(toSnd) \in Nat /\ trouble \in Nat
        /\ toSnd \in Seq(Answers)
    BY LineFacts
  <1>2. SenderAt(snd', S, at) /\ snd'.phase # "start"
    BY <1>1 DEF SenderAt
  <1>3. /\ Acks(a) \in Nat /\ Replies(a) \in Nat
        /\ Acks(a) <= Acks(toSnd) /\ Replies(a) <= Replies(toSnd)
    <2>1. CASE toSnd' = toSnd
      BY <1>1, <2>1
    <2>2. CASE toSnd # <<>> /\ toSnd' = Tail(toSnd)
      <3> DEFINE b == Tail(toSnd)
                 x == Acks(b)
                 y == Replies(b)
                 u == Acks(toSnd)
                 v == Replies(toSnd)
      <3>1. b \in Seq(Answers)
        BY <1>1, <2>2, HeadTailProperties
      <3>2. x \in Nat /\ y \in Nat
        BY <3>1, CountTyped DEF Acks, Replies
      <3>3. /\ u = x + (IF Head(toSnd) \in {"ACK"} THEN 1 ELSE 0)
            /\ v = y + (IF Head(toSnd) \in {"ACK", "NAK"} THEN 1 ELSE 0)
        BY <1>1, <2>2, CountRead DEF Acks, Replies
      <3> HIDE DEF x, y, u, v
      <3>4. x <= u /\ y <= v
        BY <3>2, <3>3
      <3> QED BY <2>2, <3>2, <3>4 DEF x, y, u, v
    <2> QED BY <2>1, <2>2
  <1>4. Budget(S, E, N, toRcv, Acks(a), Replies(a), t)
    <2>1. t \in Nat /\ trouble <= t /\ Len(toRcv) \in Nat
      BY <1>1, QueueFacts
    <2> HIDE DEF a, t
    <2> QED BY <1>1, <1>3, <2>1, BudgetGrows
  <1> QED BY <1>1, <1>2, <1>4, LineNext

(* What the sender has outstanding is its block.                           *)
LEMMA FrameBlock ==
  ASSUME file \in File, NEW s \in Senders, NEW S, NEW at, Offsets(S, at),
         SenderAt(s, S, at), s.phase \in {"zero", "data", "eot"}
  PROVE  /\ FrameOf(s) \in Frames /\ ~Dead(FrameOf(s))
         /\ FrameOf(s).kind \in {"SOH", "STX"} => Block(FrameOf(s), S, at)
  <1>1. /\ FrameOf(s) \in Frames /\ S \in Nat /\ s.off = at[S] /\ s.off + s.n = at[S + 1]
        /\ s.off \in Nat /\ s.n \in Nat
    BY FrameTyped DEF SenderAt, Senders
  <1>2. CASE s.phase = "zero"
    <2>1. FrameOf(s) = [kind |-> "SOH", blk |-> 0, data |-> <<>>, intact |-> TRUE]
      BY <1>2 DEF FrameOf, Frame
    <2>2. S = 0 /\ at[0] = 0 /\ at[1] = 0 /\ 0 + 1 = 1 /\ 0 - 0 = 0 /\ 1..0 = {}
      BY <1>2 DEF SenderAt, Offsets
    <2>3. Len(<<>>) = 0
      BY EmptySeq
    <2>4. 0 % BlkMod = 0
      <3>1. 0 = BlkMod * 0 + 0 /\ 0 < BlkMod
        BY LineAssumption
      <3> QED BY <3>1, RemainderOf
    <2> DEFINE f == FrameOf(s)
    <2>5. f.kind = "SOH" /\ f.blk = 0 /\ f.data = <<>> /\ f.intact = TRUE
      BY <2>1
    <2> HIDE DEF f
    <2>6. ~Dead(f) /\ Block(f, 0, at)
      BY <2>2, <2>3, <2>4, <2>5 DEF Dead, Block
    <2> QED BY <1>1, <2>2, <2>6 DEF f
  <1>3. CASE s.phase = "data"
    <2> DEFINE f == FrameOf(s)
               d == [k \in 1..s.n |-> Unit(s.off + k)]
    <2>1. f = Frame(IF s.n = BigBlock THEN "STX" ELSE "SOH", s.blk, d)
      BY <1>3 DEF FrameOf
    <2>2. f.kind \in {"SOH", "STX"} /\ f.blk = s.blk /\ f.data = d /\ f.intact = TRUE
      BY <2>1 DEF Frame
    <2>3. Len(d) = s.n
      BY <1>1, FrameData
    <2>4. \A k \in 1..s.n : d[k] = Unit(s.off + k)
      OBVIOUS
    <2> HIDE DEF f, d
    <2>5. s.n = at[S + 1] - at[S]
      <3> DEFINE x == at[S]
                 y == at[S + 1]
                 n == s.n
      <3>1. x \in Nat /\ n \in Nat /\ y = x + n
        BY <1>1
      <3> HIDE DEF x, y, n
      <3>2. n = y - x
        BY <3>1
      <3> QED BY <3>2 DEF x, y, n
    <2>6. ~Dead(f)
      BY <2>2 DEF Dead
    <2>7. Block(f, S, at)
      BY <1>1, <1>3, <2>2, <2>3, <2>4, <2>5 DEF Block, SenderAt
    <2> QED BY <1>1, <2>6, <2>7 DEF f
  <1>4. CASE s.phase = "eot"
    <2>1. FrameOf(s) = Frame("EOT", 0, <<>>)
      BY <1>4 DEF FrameOf
    <2> QED BY <1>1, <2>1 DEF Frame, Dead
  <1> QED BY <1>2, <1>3, <1>4

(* The sender sends its frame again.                                       *)
LEMMA LineResent ==
  ASSUME BaseInv, FewTroubles, NEW S, NEW E, NEW N, NEW at, LineInv(S, E, N, at),
         UNCHANGED <<proto, file, rcv, ctx>>, snd.phase \in {"zero", "data", "eot"},
         Send(snd), toSnd' \in Seq(Answers), trouble' \in Nat, trouble <= trouble',
         (Len(toRcv) + 1) + Replies(toSnd') <= 1 + trouble',
         Acks(toSnd') = Acks(toSnd)
  PROVE  LineInv(S, E, Append(N, S), at)'
  <1>1. /\ Transit(S, E, N, at, toRcv) /\ S \in Int /\ E \in Nat /\ Offsets(S, at)
        /\ ReceiverAt(rcv, ctx, E, at) /\ SenderAt(snd, S, at) /\ Acks(toSnd) \in Nat
    BY LineFacts
  <1>2. file \in File /\ snd \in Senders /\ snd' = snd
        /\ toRcv' = Append(toRcv, FrameOf(snd)) /\ snd.phase # "start"
    BY DEF BaseInv, SenderInv, Send
  <1>3. /\ FrameOf(snd) \in Frames /\ ~Dead(FrameOf(snd))
        /\ FrameOf(snd).kind \in {"SOH", "STX"} => Block(FrameOf(snd), S, at)
    BY <1>1, <1>2, FrameBlock
  <1>4. Carries(toRcv, N, at) /\ S \in {S, S + 1}
    BY <1>1 DEF Transit
  <1>5. S + Acks(toSnd') <= S + Acks(toSnd)
    BY <1>1
  <1> QED BY <1>1, <1>2, <1>3, <1>4, <1>5, LineSent

(* The block that follows block S.                                         *)
Follows(s, S, at) ==
  /\ s.phase \in {"zero", "data", "eot"}
  /\ s.off = at[S + 1] /\ s.n \in Nat /\ s.off + s.n <= file.len + BigBlock
  /\ s.phase = "zero" => S + 1 = 0 /\ s.n = 0
  /\ s.phase # "zero" => S \in Nat
  /\ s.phase = "data" => s.blk = (S + 1) % BlkMod

(* Data follow as long as the file has some; then the end.                 *)
LEMMA DataOrEotFollows ==
  ASSUME file \in File, NEW S \in Nat, NEW at, Offsets(S, at),
         NEW s \in DataOrEot(at[S + 1], (S + 1) % BlkMod)
  PROVE  Follows(s, S, at)
  <1> DEFINE off == at[S + 1]
             blk == (S + 1) % BlkMod
  <1>1. file.len \in Nat /\ BigBlock \in Nat
    BY FileAssumption, LineAssumption
  <1>2. off \in Nat /\ off <= file.len + BigBlock
    <2>1. S + 1 \in Nat /\ S + 1 <= S + 1
      OBVIOUS
    <2> QED BY <2>1 DEF Offsets
  <1>3. s \in DataOrEot(off, blk)
    OBVIOUS
  <1> HIDE DEF off, blk
  <1>4. CASE off < file.len
    <2>1. PICK n \in Blocks : s = [phase |-> "data", off |-> off, n |-> n, blk |-> blk]
      BY <1>3, <1>4 DEF DataOrEot
    <2>2. n \in Nat /\ n <= BigBlock
      BY LineAssumption DEF Blocks
    <2>3. s.phase = "data" /\ s.off = off /\ s.n = n /\ s.blk = blk
      BY <2>1
    <2>4. off + n <= file.len + BigBlock
      BY <1>1, <1>2, <1>4, <2>2
    <2> QED BY <2>2, <2>3, <2>4 DEF Follows, off, blk
  <1>5. CASE ~(off < file.len)
    <2>1. s = [phase |-> "eot", off |-> off, n |-> 0, blk |-> 0]
      BY <1>3, <1>5 DEF DataOrEot
    <2>2. s.phase = "eot" /\ s.off = off /\ s.n = 0
      BY <2>1
    <2>3. off + 0 <= file.len + BigBlock
      BY <1>1, <1>2
    <2> QED BY <2>2, <2>3 DEF Follows, off
  <1> QED BY <1>4, <1>5

(* What the sender goes on with after an acknowledgement.                  *)
LEMMA NextFollows ==
  ASSUME BaseInv, FewTroubles, NEW S, NEW E, NEW N, NEW at, LineInv(S, E, N, at),
         proto # "raw", snd.phase \notin {"eot", "done"}, NEW s \in NextSend
  PROVE  Follows(s, S, at)
  <1>1. /\ Offsets(S, at) /\ SenderAt(snd, S, at) /\ AtStart(S, E) /\ S \in Int
    BY LineFacts
  <1>2. /\ snd \in Senders /\ file \in File
        /\ proto \in {"xmodem", "ymodem"} /\ snd.phase \in {"start", "zero", "data"}
    BY LineAssumption DEF BaseInv, SenderInv, Senders, Phases
  <1>3. at[0] = 0 /\ at[1] = 0 /\ 0 + 1 = 1 /\ 0 \in Nat
    BY <1>1 DEF Offsets
  <1>4. 1 % BlkMod = 1
    <2>1. 1 = BlkMod * 0 + 1 /\ 1 < BlkMod
      BY LineAssumption
    <2> QED BY <2>1, RemainderOf
  <1>5. CASE snd.phase = "start" /\ proto = "xmodem"
    <2>1. s \in DataOrEot(0, 1)
      BY <1>5 DEF NextSend
    <2>2. S = 0
      BY <1>5, <1>1 DEF AtStart, FirstBlock
    <2>3. s \in DataOrEot(at[0 + 1], (0 + 1) % BlkMod)
      BY <1>3, <1>4, <2>1
    <2> QED BY <1>1, <1>2, <1>3, <2>2, <2>3, DataOrEotFollows
  <1>6. CASE snd.phase = "start" /\ proto = "ymodem"
    <2>1. s = [snd EXCEPT !.phase = "zero"]
      BY <1>6 DEF NextSend
    <2>2. S + 1 = 0 /\ snd.off = 0 /\ snd.n = 0
      BY <1>6, <1>1 DEF AtStart, FirstBlock
    <2>3. s.phase = "zero" /\ s.off = 0 /\ s.n = 0
      BY <1>2, <2>1, <2>2 DEF Senders
    <2>4. 0 + 0 <= file.len + BigBlock
      BY <1>2, FileAssumption, LineAssumption
    <2> QED BY <1>3, <2>2, <2>3, <2>4 DEF Follows
  <1>7. CASE snd.phase = "zero"
    <2>1. s \in DataOrEot(0, 1)
      BY <1>7 DEF NextSend
    <2>2. S = 0
      BY <1>7, <1>1 DEF SenderAt
    <2>3. s \in DataOrEot(at[0 + 1], (0 + 1) % BlkMod)
      BY <1>3, <1>4, <2>1
    <2> QED BY <1>1, <1>2, <1>3, <2>2, <2>3, DataOrEotFollows
  <1>8. CASE snd.phase = "data"
    <2>1. s \in DataOrEot(snd.off + snd.n, (snd.blk + 1) % BlkMod)
      BY <1>8 DEF NextSend
    <2>2. S \in Nat /\ snd.off + snd.n = at[S + 1] /\ snd.blk = S % BlkMod
      BY <1>8, <1>1 DEF SenderAt
    <2>3. ((S % BlkMod) + 1) % BlkMod = (S + 1) % BlkMod
      BY <1>1, NextRemainder
    <2>4. s \in DataOrEot(at[S + 1], (S + 1) % BlkMod)
      BY <2>1, <2>2, <2>3
    <2> QED BY <1>1, <1>2, <2>2, <2>4, DataOrEotFollows
  <1> QED BY <1>2, <1>5, <1>6, <1>7, <1>8

(* The sender goes on to the next block.                                   *)
LEMMA LineAdvanced ==
  ASSUME BaseInv, FewTroubles, NEW S, NEW E, NEW N, NEW at, LineInv(S, E, N, at),
         UNCHANGED <<proto, file, rcv, ctx, trouble>>,
         toSnd # <<>>, toSnd' = Tail(toSnd),
         IF snd.phase = "start" THEN Head(toSnd) = "C" ELSE Head(toSnd) = "ACK",
         NEW s \in Senders, Follows(s, S, at), Send(s)
  PROVE  OnLine'
  <1> DEFINE v == s.off + s.n
             bt == [at EXCEPT ![S + 2] = v]
             R == S + 1
             f == FrameOf(s)
  <1>1. /\ Transit(S, E, N, at, toRcv) /\ S \in Int /\ E \in Nat /\ E <= S + 1
        /\ Offsets(S, at) /\ AtStart(S, E)
        /\ ReceiverAt(rcv, ctx, E, at) /\ SenderAt(snd, S, at)
        /\ Budget(S, E, N, toRcv, Acks(toSnd), Replies(toSnd), trouble)
        /\ Acks(toSnd) \in Nat /\ Replies(toSnd) \in Nat /\ trouble \in Nat
        /\ toSnd \in Seq(Answers)
    BY LineFacts
  <1>2. /\ s.phase \in {"zero", "data", "eot"} /\ s.off \in Nat /\ s.n \in Nat /\ v \in Nat
        /\ s.off = at[S + 1] /\ v <= file.len + BigBlock
        /\ s.phase = "zero" => S + 1 = 0 /\ s.n = 0
        /\ s.phase # "zero" => S \in Nat
        /\ s.phase = "data" => s.blk = (S + 1) % BlkMod
    BY DEF Follows, Senders
  <1>3. /\ at \in [Nat -> Nat] /\ at[0] = 0 /\ at[1] = 0
        /\ \A j \in Nat : j <= S + 1 => at[j] <= file.len + BigBlock
    BY <1>1 DEF Offsets
  <1>4. S + 1 \in Nat /\ S + 2 \in Nat /\ S + 2 # 0 /\ S + 2 # S + 1 /\ S + 2 # E
        /\ (S + 2 = 1 => S + 1 = 0) /\ R + 1 = S + 2
    BY <1>1
  <1>5. /\ bt \in [Nat -> Nat] /\ bt[S + 2] = v
        /\ \A j \in Nat : j # S + 2 => bt[j] = at[j]
    BY <1>2, <1>3, <1>4
  <1> HIDE DEF v, bt
  <1>6. Offsets(R, bt)
    <2>1. bt[0] = 0
      BY <1>3, <1>4, <1>5
    <2>2. bt[1] = 0
      <3>1. CASE S + 2 = 1
        <4>1. s.phase = "zero" /\ s.n = 0
          BY <1>1, <1>2, <1>4, <3>1
        <4>2. s.off = 0
          BY <1>2, <1>3, <1>4, <3>1
        <4>3. v = 0
          BY <4>1, <4>2 DEF v
        <4> QED BY <1>5, <3>1, <4>3
      <3>2. CASE S + 2 # 1
        BY <1>3, <1>5, <3>2
      <3> QED BY <3>1, <3>2
    <2>3. ASSUME NEW j \in Nat, j <= R + 1 PROVE bt[j] <= file.len + BigBlock
      <3>1. CASE j = S + 2
        BY <1>2, <1>5, <3>1
      <3>2. CASE j # S + 2
        <4>1. j <= S + 1
          BY <1>1, <1>4, <2>3, <3>2
        <4> QED BY <1>3, <1>5, <3>2, <4>1
      <3> QED BY <3>1, <3>2
    <2> QED BY <1>5, <2>1, <2>2, <2>3 DEF Offsets
  <1>7. SenderAt(s, R, bt)
    <2>1. bt[S + 1] = at[S + 1]
      BY <1>4, <1>5
    <2>2. bt[R + 1] = v
      BY <1>4, <1>5
    <2> QED BY <1>2, <1>4, <2>1, <2>2 DEF SenderAt, v
  <1>8. ReceiverAt(rcv, ctx, E, bt)
    <2>1. bt[E] = at[E]
      BY <1>1, <1>4, <1>5
    <2> QED BY <1>1, <2>1 DEF ReceiverAt
  <1>9. Carries(toRcv, N, bt)
    BY <1>1, <1>2, <1>3, CarriesLater DEF Transit, bt
  <1>10. f \in Frames /\ ~Dead(f) /\ (f.kind \in {"SOH", "STX"} => Block(f, R, bt))
    <2>1. file \in File
      BY DEF BaseInv, SenderInv
    <2> QED BY <1>2, <1>6, <1>7, <2>1, FrameBlock
  <1>11. snd' = s /\ toRcv' = Append(toRcv, f) /\ s.phase # "start"
    BY <1>2 DEF Send
  <1>12. /\ toSnd' \in Seq(Answers) /\ trouble' \in Nat /\ trouble <= trouble'
         /\ (Len(toRcv) + 1) + Replies(toSnd') <= 1 + trouble'
         /\ R + Acks(toSnd') <= S + Acks(toSnd) \/ R = E
    <2> DEFINE b == Tail(toSnd)
               x == Acks(b)
               y == Replies(b)
               u == Acks(toSnd)
               w == Replies(toSnd)
               len == Len(toRcv)
    <2>1. b \in Seq(Answers)
      BY <1>1, HeadTailProperties
    <2>2. x \in Nat /\ y \in Nat
      BY <2>1, CountTyped DEF Acks, Replies
    <2>3. /\ u = x + (IF Head(toSnd) \in {"ACK"} THEN 1 ELSE 0)
          /\ w = y + (IF Head(toSnd) \in {"ACK", "NAK"} THEN 1 ELSE 0)
      BY <1>1, CountRead DEF Acks, Replies
    <2>4. len \in Nat /\ len + w <= 1 + trouble
      BY <1>1, QueueFacts DEF Budget
    <2>5. CASE snd.phase = "start"
      <3>1. S + 1 = E /\ toRcv = <<>> /\ toSnd = <<"C">>
        BY <1>1, <2>5 DEF AtStart, FirstBlock
      <3>2. len = 0
        BY <3>1, EmptySeq
      <3>3. b = <<>>
        BY <3>1
      <3>4. y = 0
        BY <2>1, <3>3, CountTyped DEF Replies
      <3> HIDE DEF x, y, u, w, len
      <3>5. (len + 1) + y <= 1 + trouble
        BY <1>1, <3>2, <3>4
      <3> QED BY <1>1, <2>1, <3>1, <3>5 DEF y, len
    <2>6. CASE snd.phase # "start"
      <3>1. Head(toSnd) = "ACK"
        BY <2>6
      <3>2. u = x + 1 /\ w = y + 1
        BY <2>3, <3>1
      <3> HIDE DEF x, y, u, w, len
      <3>3. (len + 1) + y <= 1 + trouble /\ R + x <= S + u
        BY <1>1, <2>2, <2>4, <3>2
      <3> QED BY <1>1, <2>1, <3>3 DEF x, y, u, len
    <2> QED BY <2>5, <2>6
  <1> HIDE DEF f
  <1>13. R \in {S, S + 1}
    OBVIOUS
  <1> HIDE DEF R
  <1>14. LineInv(R, E, Append(N, R), bt)'
    BY <1>6, <1>7, <1>8, <1>9, <1>10, <1>11, <1>12, <1>13, LineSent
  <1> QED BY <1>14 DEF OnLine

(* The sender reads an answer, or waits in vain for one.                   *)
LEMMA SenderLine ==
  ASSUME BaseInv, StreamInv, FewTroubles, NEW S, NEW E, NEW N, NEW at, LineInv(S, E, N, at),
         SenderReads \/ SenderTimeout
  PROVE  StreamInv' /\ (rcv'.rc = Running => OnLine')
  <1>1. /\ UNCHANGED <<proto, file, rcv, ctx, trouble>> /\ snd.phase # "done"
        /\ proto # "raw"
    BY DEF SenderReads, SenderTimeout, Sending
  <1>2. StreamInv'
    BY <1>1, StreamKept
  <1>3. /\ S \in Int /\ trouble \in Nat /\ Acks(toSnd) \in Nat /\ Replies(toSnd) \in Nat
        /\ toSnd \in Seq(Answers) /\ Transit(S, E, N, at, toRcv) /\ AtStart(S, E)
        /\ Budget(S, E, N, toRcv, Acks(toSnd), Replies(toSnd), trouble)
    BY LineFacts
  <1>4. snd \in Senders /\ snd.phase \in Phases
    BY DEF BaseInv, SenderInv, Senders
  <1>5. CASE SenderTimeout
    <2>1. /\ snd.phase # "start" /\ toRcv = <<>> /\ toSnd = <<>> /\ Send(snd)
          /\ UNCHANGED toSnd
      BY <1>5 DEF SenderTimeout
    <2>2. snd.phase \in {"zero", "data", "eot"}
      BY <1>1, <1>4, <2>1 DEF Phases
    <2>3. Len(toRcv) = 0 /\ Replies(toSnd) = 0
      BY <1>3, <2>1, EmptySeq, CountTyped DEF Replies
    <2>4. (Len(toRcv) + 1) + Replies(toSnd) <= 1 + trouble
      BY <1>3, <2>3
    <2>5. LineInv(S, E, Append(N, S), at)'
      <3>1. /\ toSnd' \in Seq(Answers) /\ trouble' \in Nat /\ trouble <= trouble'
            /\ (Len(toRcv) + 1) + Replies(toSnd') <= 1 + trouble'
            /\ Acks(toSnd') = Acks(toSnd)
        BY <1>1, <1>3, <2>1, <2>4
      <3> QED BY <1>1, <2>1, <2>2, <3>1, LineResent
    <2> QED BY <1>2, <2>5 DEF OnLine
  <1>6. CASE SenderReads
    <2> DEFINE a == Head(toSnd)
    <2>1. /\ toSnd # <<>> /\ toSnd' = Tail(toSnd)
          /\ \/ /\ IF snd.phase = "start" THEN a = "C" ELSE a = "ACK"
                /\ \E s \in NextSend : Send(s)
             \/ a = "NAK" /\ snd.phase # "start" /\ Send(snd)
             \/ a = "CAN" /\ Send([snd EXCEPT !.phase = "done"])
             \/ a = "C" /\ snd.phase # "start" /\ UNCHANGED <<snd, toRcv>>
      BY <1>6 DEF SenderReads
    <2>9. trouble' \in Nat /\ trouble <= trouble'
      BY <1>1, <1>3
    <2>2. CASE /\ IF snd.phase = "start" THEN a = "C" ELSE a = "ACK"
               /\ \E s \in NextSend : Send(s)
      <3>1. PICK s \in NextSend : Send(s)
        BY <2>2
      <3>2. s \in Senders /\ s.phase # "start"
        BY <1>1, NextSendTyped
      <3>3. CASE snd.phase = "eot"
        <4>1. s = [snd EXCEPT !.phase = "done"]
          BY <3>3 DEF NextSend
        <4>2. s.phase = "done"
          BY <1>4, <4>1 DEF Senders
        <4>3. snd'.phase = "done" /\ UNCHANGED toRcv
          BY <3>1, <4>2 DEF Send
        <4>4. LineInv(S, E, N, at)'
          BY <1>1, <2>1, <2>9, <4>3, LineIdle
        <4> QED BY <1>2, <4>4 DEF OnLine
      <3>4. CASE snd.phase # "eot"
        <4>1. Follows(s, S, at)
          BY <1>1, <3>4, NextFollows
        <4>2. OnLine'
          BY <1>1, <2>1, <2>2, <3>1, <3>2, <4>1, LineAdvanced
        <4> QED BY <1>2, <4>2
      <3> QED BY <3>3, <3>4
    <2>3. CASE a = "NAK" /\ snd.phase # "start" /\ Send(snd)
      <3>1. snd.phase \in {"zero", "data", "eot"}
        BY <1>1, <1>4, <2>3 DEF Phases
      <3> DEFINE b == Tail(toSnd)
                 x == Acks(b)
                 y == Replies(b)
                 u == Acks(toSnd)
                 w == Replies(toSnd)
                 len == Len(toRcv)
      <3>2. b \in Seq(Answers)
        BY <1>3, <2>1, HeadTailProperties
      <3>3. x \in Nat /\ y \in Nat
        BY <3>2, CountTyped DEF Acks, Replies
      <3>4. /\ u = x + (IF Head(toSnd) \in {"ACK"} THEN 1 ELSE 0)
            /\ w = y + (IF Head(toSnd) \in {"ACK", "NAK"} THEN 1 ELSE 0)
        BY <1>3, <2>1, CountRead DEF Acks, Replies
      <3>5. len \in Nat /\ len + w <= 1 + trouble
        BY <1>3, QueueFacts DEF Budget
      <3>6. u = x + 0 /\ w = y + 1
        BY <2>3, <3>4
      <3> HIDE DEF x, y, u, w, len
      <3>7. (len + 1) + y <= 1 + trouble /\ x = u
        BY <1>3, <3>3, <3>5, <3>6
      <3>8. /\ toSnd' \in Seq(Answers)
            /\ (Len(toRcv) + 1) + Replies(toSnd') <= 1 + trouble'
            /\ Acks(toSnd') = Acks(toSnd)
        BY <1>1, <2>1, <3>2, <3>7 DEF x, y, u, len
      <3>9. LineInv(S, E, Append(N, S), at)'
        BY <1>1, <2>3, <2>9, <3>1, <3>8, LineResent
      <3> QED BY <1>2, <3>9 DEF OnLine
    <2>4. CASE a = "CAN" /\ Send([snd EXCEPT !.phase = "done"])
      <3>1. snd'.phase = "done" /\ UNCHANGED toRcv
        BY <1>4, <2>4 DEF Send, Senders
      <3>2. LineInv(S, E, N, at)'
        BY <1>1, <2>1, <2>9, <3>1, LineIdle
      <3> QED BY <1>2, <3>2 DEF OnLine
    <2>5. CASE a = "C" /\ snd.phase # "start" /\ UNCHANGED <<snd, toRcv>>
      <3>1. LineInv(S, E, N, at)'
        BY <1>1, <2>1, <2>5, <2>9, LineIdle
      <3> QED BY <1>2, <3>1 DEF OnLine
    <2> QED BY <2>1, <2>2, <2>3, <2>4, <2>5
  <1> QED BY <1>5, <1>6

-----------------------------------------------------------------------------
(* What the line does                                                      *)

(* A spoilt head takes no live frame with it but itself.                   *)
LEMMA LiveBehind ==
  ASSUME NEW S, NEW E, NEW N, NEW at, NEW q, Transit(S, E, N, at, q), q # <<>>,
         NEW p, Len(p) = Len(q), \A i \in 2..Len(q) : p[i] = q[i],
         NEW m, Live(m, Tail(N), Tail(q))
  PROVE  Live(m, N, p)
  <1> DEFINE len == Len(q)
  <1>1. N \in Seq(Int) /\ len = Len(N) /\ len \in Nat
    BY QueueFacts
  <1>2. /\ Len(Tail(N)) = len - 1
        /\ \A i \in 1..len - 1 : Tail(q)[i] = q[i + 1] /\ Tail(N)[i] = N[i + 1]
    BY <1>1, CarriesTail DEF Transit
  <1>3. PICK i \in 1..len - 1 : Tail(N)[i] = m /\ ~Dead(Tail(q)[i])
    BY <1>2 DEF Live
  <1>4. Tail(q)[i] = q[i + 1] /\ Tail(N)[i] = N[i + 1]
    BY <1>2
  <1>6. \A j \in 2..len : p[j] = q[j]
    OBVIOUS
  <1> HIDE DEF len
  <1>5. i + 1 \in 2..len /\ i + 1 \in 1..len
    BY <1>1
  <1>7. N[i + 1] = m /\ ~Dead(p[i + 1]) /\ i + 1 \in 1..Len(N)
    BY <1>1, <1>3, <1>4, <1>5, <1>6
  <1> QED BY <1>7 DEF Live

(* The line puts p in the place of the queue, the head of which it spoilt. *)
LEMMA LineSpoilt ==
  ASSUME BaseInv, FewTroubles, NEW S, NEW E, NEW N, NEW at, LineInv(S, E, N, at),
         UNCHANGED <<proto, file, rcv, ctx, snd, toSnd>>, trouble' = trouble + 1,
         toRcv # <<>>, NEW p \in Seq(Frames), toRcv' = p,
         Len(p) = Len(toRcv), \A i \in 2..Len(toRcv) : p[i] = toRcv[i],
         p[1].kind \in {"SOH", "STX"} => /\ p[1].kind = toRcv[1].kind
                                         /\ p[1].blk = toRcv[1].blk
                                         /\ p[1].data = toRcv[1].data
  PROVE  LineInv(S, E, N, at)'
  <1>1. /\ Transit(S, E, N, at, toRcv) /\ S \in Int /\ E \in Nat /\ Offsets(S, at)
        /\ ReceiverAt(rcv, ctx, E, at) /\ SenderAt(snd, S, at) /\ AtStart(S, E)
        /\ Budget(S, E, N, toRcv, Acks(toSnd), Replies(toSnd), trouble)
        /\ Acks(toSnd) \in Nat /\ Replies(toSnd) \in Nat /\ trouble \in Nat
        /\ Acks(toSnd) <= Replies(toSnd) /\ N \in Seq(Int)
    BY LineFacts
  <1>2. Transit(S, E, N, at, p)
    <2>1. Carries(p, N, at)
      BY <1>1, CarriesSpoilt DEF Transit
    <2> QED BY <1>1, <2>1 DEF Transit
  <1>3. \A m : Live(m, Tail(N), Tail(toRcv)) => Live(m, N, p)
    BY <1>1, LiveBehind
  <1>4. Len(p) \in Nat /\ Len(p) <= Len(toRcv)
    BY LenProperties
  <1>5. Budget(S, E, N, p, Acks(toSnd), Replies(toSnd), trouble + 1)
    BY <1>1, <1>3, <1>4, BudgetTroubled
  <1>6. snd.phase # "start"
    BY <1>1 DEF AtStart
  <1> QED BY <1>1, <1>2, <1>5, <1>6, LineNext

(* The head is lost.                                                       *)
LEMMA LineLost ==
  ASSUME BaseInv, FewTroubles, NEW S, NEW E, NEW N, NEW at, LineInv(S, E, N, at),
         UNCHANGED <<proto, file, rcv, ctx, snd, toSnd>>, trouble' = trouble + 1,
         toRcv # <<>>, toRcv' = Tail(toRcv)
  PROVE  LineInv(S, E, Tail(N), at)'
  <1>1. /\ Transit(S, E, N, at, toRcv) /\ S \in Int /\ E \in Nat /\ Offsets(S, at)
        /\ ReceiverAt(rcv, ctx, E, at) /\ SenderAt(snd, S, at) /\ AtStart(S, E)
        /\ Budget(S, E, N, toRcv, Acks(toSnd), Replies(toSnd), trouble)
        /\ Acks(toSnd) \in Nat /\ Replies(toSnd) \in Nat /\ trouble \in Nat
        /\ Acks(toSnd) <= Replies(toSnd) /\ N \in Seq(Int)
    BY LineFacts
  <1>2. Carries(Tail(toRcv), Tail(N), at) /\ N # <<>>
    BY <1>1, CarriesTail DEF Transit
  <1>3. Transit(S, E, Tail(N), at, Tail(toRcv))
    <2>1. E # E + 1
      BY <1>1
    <2>2. Numbers(S, E, Tail(N))
      BY <1>1, <1>2, <2>1, NumbersTail DEF Transit
    <2> QED BY <1>2, <2>2 DEF Transit
  <1>4. Len(Tail(toRcv)) \in Nat /\ Len(Tail(toRcv)) <= Len(toRcv)
    <2> DEFINE len == Len(toRcv)
    <2>1. len \in Nat /\ len # 0 /\ Len(Tail(toRcv)) = len - 1
      BY <1>1, CarriesTail DEF Transit
    <2> HIDE DEF len
    <2>2. len - 1 \in Nat /\ len - 1 <= len
      BY <2>1
    <2> QED BY <2>1, <2>2 DEF len
  <1>5. Budget(S, E, Tail(N), Tail(toRcv), Acks(toSnd), Replies(toSnd), trouble + 1)
    BY <1>1, <1>4, BudgetTroubled
  <1>6. snd.phase # "start"
    BY <1>1 DEF AtStart
  <1> QED BY <1>1, <1>3, <1>5, <1>6, LineNext

(* What goes wrong on the line.                                            *)
LEMMA FaultLine ==
  ASSUME BaseInv, StreamInv, FewTroubles, NEW S, NEW E, NEW N, NEW at, LineInv(S, E, N, at),
         proto # "raw",
         DamageFrame \/ LoseFrame \/ LoseAnswer \/ EarlyTimeout \/ SenderStops
  PROVE  StreamInv' /\ (rcv'.rc = Running => OnLine')
  <1>1. /\ trouble' = trouble + 1 /\ UNCHANGED <<proto, file, rcv, ctx>>
    BY DEF DamageFrame, LoseFrame, LoseAnswer, EarlyTimeout, SenderStops, Trouble
  <1>2. StreamInv'
    BY <1>1, StreamKept
  <1>3. /\ S \in Int /\ trouble \in Nat /\ Acks(toSnd) \in Nat /\ Replies(toSnd) \in Nat
        /\ toSnd \in Seq(Answers) /\ Transit(S, E, N, at, toRcv) /\ Offsets(S, at)
        /\ ReceiverAt(rcv, ctx, E, at)
        /\ Budget(S, E, N, toRcv, Acks(toSnd), Replies(toSnd), trouble)
    BY LineFacts
  <1>4. snd \in Senders /\ snd.phase \in Phases /\ toRcv \in Seq(Frames)
    BY DEF BaseInv, SenderInv, Senders
  <1>5. toRcv' \in Seq(Frames)
    BY LineFaultInv DEF BaseInv, SenderInv
  <1>6. trouble' \in Nat /\ trouble <= trouble'
    BY <1>1, <1>3
  <1>7. (Len(toRcv) + 1) + Replies(toSnd) <= 1 + trouble'
    <2> DEFINE len == Len(toRcv)
               w == Replies(toSnd)
    <2>1. len \in Nat /\ len + w <= 1 + trouble /\ w \in Nat
      BY <1>3, QueueFacts DEF Budget
    <2> HIDE DEF len, w
    <2>2. (len + 1) + w <= 1 + (trouble + 1)
      BY <1>3, <2>1
    <2> QED BY <1>1, <2>2 DEF len, w
  <1>8. CASE DamageFrame
    <2>1. /\ toRcv # <<>> /\ UNCHANGED <<snd, toSnd>>
          /\ toRcv' = [toRcv EXCEPT ![1].intact = FALSE]
      BY <1>8 DEF DamageFrame
    <2> DEFINE g == [toRcv[1] EXCEPT !.intact = FALSE]
               p == [toRcv EXCEPT ![1] = g]
    <2>2. toRcv' = p
      BY <2>1
    <2>3. 1 \in 1..Len(toRcv) /\ Len(toRcv) \in Nat
      BY <1>4, <2>1, EmptySeq, LenProperties
    <2>4. toRcv[1] \in Frames
      BY <1>4, <2>3, ElementOfSeq
    <2>5. g.kind = toRcv[1].kind /\ g.blk = toRcv[1].blk /\ g.data = toRcv[1].data
          /\ g \in Frames
      BY <2>4 DEF Frames
    <2> HIDE DEF g
    <2>6. /\ p \in Seq(Frames) /\ Len(p) = Len(toRcv)
          /\ \A i \in 1..Len(toRcv) : p[i] = IF i = 1 THEN g ELSE toRcv[i]
      BY ONLY <1>4, <2>3, <2>5, ExceptSeq
    <2> HIDE DEF p
    <2>7. p[1] = g
      BY <2>3, <2>6
    <2>8. \A i \in 2..Len(toRcv) : p[i] = toRcv[i]
      <3>1. \A i \in 2..Len(toRcv) : i \in 1..Len(toRcv) /\ i # 1
        BY <2>3
      <3> QED BY <2>6, <3>1
    <2>9. LineInv(S, E, N, at)'
      BY <1>1, <2>1, <2>2, <2>5, <2>6, <2>7, <2>8, LineSpoilt
    <2> QED BY <1>2, <2>9 DEF OnLine
  <1>9. CASE LoseFrame
    <2> DEFINE g == Frame("noise", 0, <<>>)
               p == <<g>> \o Tail(toRcv)
    <2>1. /\ toRcv # <<>> /\ UNCHANGED <<snd, toSnd>>
          /\ toRcv' = Tail(toRcv) \/ toRcv' = p
      BY <1>9 DEF LoseFrame
    <2>2. CASE toRcv' = Tail(toRcv)
      <3>1. LineInv(S, E, Tail(N), at)'
        BY <1>1, <2>1, <2>2, LineLost
      <3> QED BY <1>2, <3>1 DEF OnLine
    <2>3. CASE toRcv' = p
      <3>1. p \in Seq(Frames)
        BY <1>5, <2>3
      <3>2. g.kind = "noise" /\ g \in Frames
        <4>1. <<>> \in Seq(Nat)
          BY EmptySeq
        <4> QED BY <4>1 DEF Frame, Frames
      <3> HIDE DEF g
      <3>3. /\ Tail(toRcv) \in Seq(Frames) /\ Len(toRcv) \in Nat /\ Len(toRcv) # 0
            /\ Len(Tail(toRcv)) = Len(toRcv) - 1
            /\ \A i \in 1..Len(toRcv) - 1 : Tail(toRcv)[i] = toRcv[i + 1]
        BY <1>3, <2>1, HeadTailProperties, CarriesTail, QueueFacts, <1>4 DEF Transit
      <3>4. <<g>> \in Seq(Frames) /\ Len(<<g>>) = 1 /\ <<g>>[1] = g
        BY <3>2
      <3> DEFINE h == <<g>>
                 b == Tail(toRcv)
                 len == Len(toRcv)
      <3>5. /\ Len(h \o b) = Len(h) + Len(b)
            /\ \A i \in 1..Len(h) + Len(b) :
                  (h \o b)[i] = IF i <= Len(h) THEN h[i] ELSE b[i - Len(h)]
        <4>1. h \in Seq(Frames) /\ b \in Seq(Frames)
          BY <3>3, <3>4
        <4> HIDE DEF h, b
        <4> QED BY <4>1, ConcatProperties
      <3>6. Len(h) = 1 /\ h[1] = g /\ Len(b) = len - 1 /\ len \in Nat /\ len # 0 /\ p = h \o b
            /\ \A i \in 1..len - 1 : b[i] = toRcv[i + 1]
        BY <3>3, <3>4
      <3> HIDE DEF h, b, len, p
      <3>7. Len(p) = len /\ p[1] = g
        <4>1. 1 + (len - 1) = len /\ 1 \in 1..len
          BY <3>6
        <4> QED BY <3>5, <3>6, <4>1
      <3>8. ASSUME NEW i \in 2..len PROVE p[i] = toRcv[i]
        <4>1. /\ i \in 1..(1 + (len - 1)) /\ ~(i <= 1) /\ i - 1 \in 1..len - 1
              /\ (i - 1) + 1 = i
          BY <3>6
        <4>2. p[i] = b[i - 1]
          BY <3>5, <3>6, <4>1
        <4>3. b[i - 1] = toRcv[(i - 1) + 1]
          BY <3>6, <4>1
        <4> QED BY <4>1, <4>2, <4>3
      <3>9. p[1].kind \notin {"SOH", "STX"}
        BY <3>2, <3>7
      <3>10. Len(p) = Len(toRcv) /\ \A i \in 2..Len(toRcv) : p[i] = toRcv[i]
        BY <3>7, <3>8 DEF len
      <3>11. LineInv(S, E, N, at)'
        BY <1>1, <2>1, <2>3, <3>1, <3>9, <3>10, LineSpoilt
      <3> QED BY <1>2, <3>11 DEF OnLine
    <2> QED BY <2>1, <2>2, <2>3
  <1>10. CASE LoseAnswer
    <2>1. /\ snd.phase # "start" /\ toSnd # <<>> /\ toSnd' = Tail(toSnd)
          /\ UNCHANGED <<snd, toRcv>>
      BY <1>10 DEF LoseAnswer
    <2>2. LineInv(S, E, N, at)'
      BY <1>1, <1>6, <2>1, LineIdle
    <2> QED BY <1>2, <2>2 DEF OnLine
  <1>11. CASE EarlyTimeout
    <2>1. snd.phase \notin {"start", "done"} /\ Send(snd) /\ UNCHANGED toSnd
      BY <1>11 DEF EarlyTimeout
    <2>2. snd.phase \in {"zero", "data", "eot"}
      BY <1>4, <2>1 DEF Phases
    <2>3. /\ toSnd' \in Seq(Answers) /\ (Len(toRcv) + 1) + Replies(toSnd') <= 1 + trouble'
          /\ Acks(toSnd') = Acks(toSnd)
      BY <1>3, <1>7, <2>1
    <2>4. LineInv(S, E, Append(N, S), at)'
      BY <1>1, <1>6, <2>1, <2>2, <2>3, LineResent
    <2> QED BY <1>2, <2>4 DEF OnLine
  <1>12. CASE SenderStops
    <2> DEFINE f == Frame("CAN", 0, <<>>)
    <2>1. /\ snd' = [snd EXCEPT !.phase = "done"] /\ UNCHANGED toSnd
          /\ toRcv' = toRcv \/ toRcv' = Append(toRcv, f)
      BY <1>12 DEF SenderStops
    <2>2. snd'.phase = "done"
      BY <1>4, <2>1 DEF Senders
    <2>3. CASE toRcv' = toRcv
      <3>1. LineInv(S, E, N, at)'
        BY <1>1, <1>6, <2>1, <2>2, <2>3, LineIdle
      <3> QED BY <1>2, <3>1 DEF OnLine
    <2>4. CASE toRcv' = Append(toRcv, f)
      <3>1. f \in Frames /\ f.kind \notin {"SOH", "STX"} /\ ~Dead(f)
        <4>1. <<>> \in Seq(Nat)
          BY EmptySeq
        <4> QED BY <4>1 DEF Frame, Frames, Dead
      <3> HIDE DEF f
      <3>2. SenderAt(snd', S, at) /\ Carries(toRcv, N, at) /\ S \in {S, S + 1}
        BY <1>3, <2>2 DEF SenderAt, Transit
      <3>3. /\ toSnd' \in Seq(Answers) /\ (Len(toRcv) + 1) + Replies(toSnd') <= 1 + trouble'
            /\ S + Acks(toSnd') <= S + Acks(toSnd)
        BY <1>3, <1>7, <2>1
      <3>4. snd'.phase # "start"
        BY <2>2
      <3>5. LineInv(S, E, Append(N, S), at)'
        BY <1>1, <1>3, <1>6, <2>4, <3>1, <3>2, <3>3, <3>4, LineSent
      <3> QED BY <1>2, <3>5 DEF OnLine
    <2> QED BY <2>1, <2>3, <2>4
  <1> QED BY <1>8, <1>9, <1>10, <1>11, <1>12

-----------------------------------------------------------------------------
(* The raw protocol                                                        *)

(* One frame at a time is under way, the length or what follows the units  *)
(* received.                                                               *)
RawLine ==
  /\ ctx.total_received = rcv.total_received
  /\ toRcv = <<>> => rcv.total_received = snd.off
  /\ toRcv # <<>> =>
       /\ Tail(toRcv) = <<>>
       /\ \/ fr.kind = "LEN" /\ rcv.total_received = snd.off
          \/ /\ fr.kind = "DATA" /\ rcv.total_received + Len(fr.data) = snd.off
             /\ \A k \in 1..Len(fr.data) : fr.data[k] = rcv.total_received + k

(* The raw receiver takes the length, then one chunk after the other.      *)
LEMMA RawReceives ==
  ASSUME BaseInv, StreamInv, RawLine, uart_raw_receive
  PROVE  StreamInv' /\ (rcv'.rc = Running => RawLine')
  <1>1. /\ rcv.rc = Running /\ proto = "raw" /\ toRcv # <<>> /\ toRcv' = Tail(toRcv)
        /\ UNCHANGED <<proto, file, snd>> /\ toRcv' = <<>>
    BY DEF uart_raw_receive, Receiving, Take, RawLine
  <1>2. rcv \in Receivers /\ file \in File /\ snd.off <= file.len /\ snd \in Senders
    BY <1>1 DEF BaseInv, SenderInv, ReceiverInv
  <1>3. CASE fr.kind = "LEN" /\ GiveUp(<<"NAK">>, "EOS_ERR_FULL")
    <2>1. "EOS_ERR_FULL" # Running
      BY DEF Running
    <2> QED BY <1>1, <1>3, <2>1, GaveUp
  <1>4. CASE /\ fr.kind = "LEN" /\ rcv' = [rcv EXCEPT !.file_size = file.len]
             /\ UNCHANGED <<toSnd, ctx, trouble, spoilt>>
    <2>1. rcv'.total_received = rcv.total_received
      BY <1>2, <1>4 DEF Receivers
    <2>2. StreamInv'
      BY <1>1, <1>4, <2>1, StreamKept
    <2>3. rcv.total_received = snd.off /\ ctx.total_received = rcv.total_received
      BY <1>1, <1>4 DEF RawLine
    <2>4. RawLine'
      BY <1>1, <1>4, <2>1, <2>3 DEF RawLine
    <2> QED BY <2>2, <2>4
  <1>5. CASE RawChunk
    <2>1. PICK failing \in FlashOutcome :
            LET w == eos_fw_update_write(file, ctx, fr.data, failing)
                whole == eos_fw_update_bytes_wanted(file, w.ctx) = 0
            IN  /\ FlashReported(failing, w.rc)
                /\ ctx' = w.ctx
                /\ \/ w.rc # "EOS_OK" /\ Answer(<<"NAK">>) /\ Return(w.rc)
                   \/ /\ w.rc = "EOS_OK" /\ ~RawDone
                      /\ rcv' = [rcv EXCEPT !.total_received = @ + Len(fr.data)]
                      /\ UNCHANGED toSnd
                   \/ /\ w.rc = "EOS_OK" /\ RawDone
                      /\ Answer(IF whole THEN <<"ACK">> ELSE <<"NAK">>)
                      /\ Return(IF whole THEN "EOS_OK" ELSE "EOS_ERR_INVALID")
      BY <1>5, Zenon DEF RawChunk
    <2> DEFINE w == eos_fw_update_write(file, ctx, fr.data, failing)
               whole == eos_fw_update_bytes_wanted(file, w.ctx) = 0
               data == fr.data
               tr == rcv.total_received
               n == Len(data)
    <2>2. fr.data \in Seq(Nat) /\ ContextInv(ctx) /\ Open(ctx)
      BY <1>1, HeadFrame DEF BaseInv, ReceiverInv
    <2>3. /\ ContextInv(w.ctx)
          /\ Continues(ctx, data) => Prefix(w.ctx)
          /\ w.ctx.flash = ctx.flash \/ Len(w.ctx.flash) <= ctx.total_received + n
          /\ w.rc = "EOS_OK" => w.ctx.total_received = ctx.total_received + n
          /\ w.rc \in Errors \cup {"EOS_OK"}
      BY <1>2, <2>2, WriteStep
    <2>4. /\ ctx' = w.ctx
          /\ \/ Return(w.rc) /\ w.rc # "EOS_OK"
             \/ w.rc = "EOS_OK" /\ rcv' = [rcv EXCEPT !.total_received = @ + Len(fr.data)]
             \/ Return(IF whole THEN "EOS_OK" ELSE "EOS_ERR_INVALID")
      BY <2>1
    <2> HIDE DEF w, whole
    <2>5. /\ tr + n = snd.off /\ \A k \in 1..n : data[k] = tr + k
          /\ ctx.total_received = tr
      <3>1. fr.kind = "DATA"
        BY <1>5 DEF RawChunk
      <3> QED BY <1>1, <3>1 DEF RawLine
    <2>6. tr \in Nat /\ n \in Nat /\ snd.off \in Nat /\ file.len \in Nat /\ BigBlock \in Nat
      BY <1>2, <2>2, LenProperties, FileAssumption, LineAssumption DEF Receivers, Senders
    <2> HIDE DEF data, tr, n
    <2>7. tr + n <= file.len /\ tr + n <= file.len + BigBlock /\ tr <= file.len + BigBlock
      BY <1>2, <2>5, <2>6
    <2>8. Continues(ctx, data)
      <3>1. ASSUME NEW k \in 1..n PROVE data[k] = Unit(tr + k)
        <4>1. tr + k <= file.len
          BY <2>6, <2>7
        <4> QED BY <2>5, <4>1 DEF Unit
      <3> QED BY <2>5, <3>1 DEF Continues, StreamInv, n
    <2>9. Prefix(w.ctx) /\ Len(w.ctx.flash) <= file.len
      <3>1. CASE w.ctx.flash = ctx.flash
        BY <1>1, <2>3, <2>8, <3>1 DEF StreamInv
      <3>2. CASE w.ctx.flash # ctx.flash
        <4>1. Len(w.ctx.flash) <= tr + n
          BY <2>3, <2>5, <3>2
        <4>2. w.ctx.flash \in Seq(Nat)
          BY <2>3 DEF ContextInv, Contexts
        <4>3. Len(w.ctx.flash) \in Nat
          BY <4>2, LenProperties
        <4> QED BY <2>3, <2>6, <2>7, <2>8, <4>1, <4>3
      <3> QED BY <3>1, <3>2
    <2>10. CASE rcv' = [rcv EXCEPT !.total_received = @ + Len(fr.data)] /\ w.rc = "EOS_OK"
      <3>1. rcv'.total_received = tr + n
        BY <1>2, <2>10 DEF Receivers, tr, n, data
      <3>2. StreamInv'
        BY <1>1, <2>4, <2>7, <2>9, <3>1 DEF StreamInv, Prefix, Ascending, Unit
      <3>3. RawLine'
        BY <1>1, <2>3, <2>4, <2>5, <2>10, <3>1 DEF RawLine
      <3> QED BY <3>2, <3>3
    <2>11. ASSUME NEW rc, rc \in Errors \cup {"EOS_OK"}, Return(rc)
           PROVE  StreamInv' /\ rcv'.rc # Running
      <3>1. rcv'.total_received = tr /\ rcv'.rc = rc
        BY <1>2, <2>11 DEF Return, Receivers, tr
      <3>2. rc # Running
        BY <2>11 DEF Errors, Running
      <3>3. StreamInv'
        BY <1>1, <2>4, <2>7, <2>9, <3>1 DEF StreamInv, Prefix, Ascending, Unit
      <3> QED BY <3>1, <3>2, <3>3
    <2>12. (IF whole THEN "EOS_OK" ELSE "EOS_ERR_INVALID") \in Errors \cup {"EOS_OK"}
      BY DEF Errors
    <2> QED BY <2>3, <2>4, <2>10, <2>11, <2>12
  <1> QED BY <1>3, <1>4, <1>5 DEF uart_raw_receive, RawLength

(* The raw sender.                                                         *)
LEMMA RawSends ==
  ASSUME BaseInv, StreamInv, RawLine, RawSend
  PROVE  StreamInv' /\ RawLine'
  <1>1. /\ UNCHANGED <<proto, file, toSnd, rcv, ctx, trouble, spoilt>> /\ toRcv = <<>>
        /\ proto = "raw"
    BY DEF RawSend
  <1>2. /\ rcv.total_received = snd.off /\ ctx.total_received = rcv.total_received
        /\ snd \in Senders /\ snd.off \in Nat /\ file.len \in Nat /\ snd.off <= file.len
        /\ Chunk \in Nat
    <2>1. rcv.total_received = snd.off /\ ctx.total_received = rcv.total_received
      BY <1>1 DEF RawLine
    <2>2. snd \in Senders /\ snd.off <= file.len /\ file \in File
      BY <1>1 DEF BaseInv, SenderInv
    <2> QED BY <2>1, <2>2, FileAssumption, LineAssumption DEF Senders
  <1>3. StreamInv'
    BY <1>1, StreamKept
  <1>4. CASE snd.phase = "start"
    <2> DEFINE f == Frame("LEN", 0, <<>>)
    <2>1. toRcv' = <<f>> /\ snd' = [snd EXCEPT !.phase = "data"]
      BY <1>4 DEF RawSend
    <2>2. f.kind = "LEN"
      BY DEF Frame
    <2> HIDE DEF f
    <2>3. toRcv' # <<>> /\ Tail(toRcv') = <<>> /\ Head(toRcv') = f
      BY <2>1
    <2>4. snd'.off = snd.off
      BY <1>2, <2>1 DEF Senders
    <2>5. RawLine'
      BY <1>1, <1>2, <2>2, <2>3, <2>4 DEF RawLine, fr
    <2> QED BY <1>3, <2>5
  <1>5. CASE snd.phase # "start"
    <2> DEFINE n == Lesser(Chunk, file.len - snd.off)
               d == [k \in 1..n |-> snd.off + k]
               off == snd.off
               len == file.len
               f == Frame("DATA", 0, d)
    <2>1. /\ toRcv' = <<f>>
          /\ snd' = [snd EXCEPT !.off = @ + n,
                                !.phase = IF snd.off + n = file.len THEN "done" ELSE "data"]
      BY <1>5 DEF RawSend
    <2>2. n = IF Chunk < len - off THEN Chunk ELSE len - off
      BY DEF Lesser
    <2>8. f.kind = "DATA" /\ f.data = d /\ off = snd.off
      BY DEF Frame
    <2>9. \A k \in 1..n : d[k] = off + k
      OBVIOUS
    <2> HIDE DEF n, off, len
    <2>3. n \in Nat
      <3>1. off \in Nat /\ len \in Nat /\ off <= len
        BY <1>2 DEF off, len
      <3> QED BY <1>2, <2>2, <3>1
    <2>4. Len(d) = n
      <3>1. DOMAIN d = 1..n /\ d \in Seq(Nat)
        <4>1. d \in [1..n -> Nat]
          BY <1>2, <2>3 DEF off
        <4>2. DOMAIN d = 1..n
          OBVIOUS
        <4> HIDE DEF d
        <4> QED BY <2>3, <4>1, <4>2, SeqDef
      <3> HIDE DEF d
      <3> QED BY <2>3, <3>1, LenProperties
    <2> HIDE DEF d, f
    <2>5. toRcv' # <<>> /\ Tail(toRcv') = <<>> /\ Head(toRcv') = f
      BY <2>1
    <2>6. snd'.off = off + n
      BY <1>2, <2>1 DEF Senders, off
    <2>7. RawLine'
      BY <1>1, <1>2, <2>4, <2>5, <2>6, <2>8, <2>9 DEF RawLine, fr
    <2> QED BY <1>3, <2>7
  <1> QED BY <1>4, <1>5

-----------------------------------------------------------------------------
(* The transfer                                                            *)

(* The inductive invariant of a transfer, beside BaseInv.                  *)
ProtocolInv ==
  /\ StreamInv
  /\ rcv.rc = Running /\ proto = "raw" => RawLine
  /\ rcv.rc = Running /\ proto # "raw" => OnLine

(* Nothing was sent yet: the sender is one block short of the first.       *)
LEMMA ProtocolInit ==
  ASSUME FewTroubles, Init
  PROVE  ProtocolInv
  <1>1. /\ proto \in Protocols /\ file \in File
        /\ snd = [phase |-> "start", off |-> 0, n |-> 0, blk |-> 0]
        /\ toRcv = <<>> /\ trouble = 0
        /\ toSnd = IF proto = "raw" THEN <<>> ELSE <<"C">>
        /\ rcv = [expected_blk |-> IF proto = "xmodem" THEN 1 ELSE 0, first_block |-> TRUE,
                  file_size |-> 0, total_received |-> 0, rc |-> Running]
        /\ ctx.state = "HEADER" /\ ctx.total_received = 0 /\ ctx.hdr_buf = <<>>
        /\ ctx.flash = <<>>
    BY DEF Init, eos_fw_update_begin, NoContext
  <1>2. /\ snd.phase = "start" /\ snd.off = 0 /\ snd.n = 0 /\ rcv.total_received = 0
        /\ rcv.first_block = TRUE /\ rcv.expected_blk = IF proto = "xmodem" THEN 1 ELSE 0
    BY <1>1
  <1>3. Len(<<>>) = 0 /\ 1..0 = {}
    BY EmptySeq
  <1>4. StreamInv
    <2>1. 0 <= file.len + BigBlock /\ 0 <= file.len /\ 0 <= file.declared
      BY <1>1, FileAssumption, LineAssumption
    <2>2. Prefix(ctx)
      BY <1>1, <1>3 DEF Prefix, Ascending
    <2> QED BY <1>1, <1>2, <1>3, <2>1, <2>2 DEF StreamInv
  <1>5. proto = "raw" => RawLine
    BY <1>1, <1>2 DEF RawLine
  <1>6. ASSUME proto # "raw" PROVE OnLine
    <2> DEFINE E == FirstBlock
               S == FirstBlock - 1
               at == [j \in Nat |-> 0]
    <2>1. proto \in {"xmodem", "ymodem"}
      BY <1>1, <1>6, LineAssumption
    <2>2. /\ E \in Nat /\ S \in Int /\ E <= S + 1 /\ ~(S >= E)
          /\ proto = "xmodem" => E = 1
          /\ proto = "ymodem" => E = 0
      BY <2>1 DEF FirstBlock
    <2>3. at \in [Nat -> Nat] /\ \A j \in Nat : at[j] = 0
      OBVIOUS
    <2>4. 0 % BlkMod = 0 /\ 1 % BlkMod = 1
      <3>1. 0 = BlkMod * 0 + 0 /\ 1 = BlkMod * 0 + 1 /\ 0 < BlkMod /\ 1 < BlkMod
        BY LineAssumption
      <3> QED BY <3>1, RemainderOf
    <2> HIDE DEF at
    <2>5. AtStart(S, E)
      BY <1>1, <1>2, <1>6 DEF AtStart
    <2> HIDE DEF E, S
    <2>6. Numbers(S, E, <<>>)
      <3>1. <<>> \in Seq(Int)
        BY EmptySeq
      <3> QED BY <1>3, <2>2, <3>1 DEF Numbers
    <2>7. Carries(toRcv, <<>>, at)
      <3>1. <<>> \in Seq(Frames)
        BY EmptySeq
      <3> QED BY <1>1, <1>3, <3>1 DEF Carries
    <2>8. Offsets(S, at)
      <3>1. 0 <= file.len + BigBlock /\ 0 \in Nat /\ 1 \in Nat
        BY <1>1, FileAssumption, LineAssumption
      <3> QED BY <2>3, <3>1 DEF Offsets
    <2>9. SenderAt(snd, S, at)
      BY <1>2 DEF SenderAt
    <2>10. ReceiverAt(rcv, ctx, E, at)
      BY <1>1, <1>2, <2>1, <2>2, <2>3, <2>4 DEF ReceiverAt
    <2>11. Budget(S, E, <<>>, toRcv, Acks(toSnd), Replies(toSnd), trouble)
      <3>1. toSnd = <<"C">> /\ <<>> \in Seq(Answers) /\ "C" \in Answers
        BY <1>1, <1>6, EmptySeq DEF Answers
      <3>2. <<>> \o <<"C">> = <<"C">>
        OBVIOUS
      <3>3. Count(<<>> \o <<"C">>, {"ACK", "NAK"}) = Count(<<>>, {"ACK", "NAK"}) + 0
        <4>1. "C" \notin {"ACK", "NAK"}
          OBVIOUS
        <4> QED BY <3>1, <4>1, CountSent
      <3>4. Count(<<>>, {"ACK", "NAK"}) = 0
        BY <3>1, CountTyped
      <3>5. Replies(toSnd) = 0
        BY <3>1, <3>2, <3>3, <3>4 DEF Replies
      <3> QED BY <1>1, <1>3, <2>2, <3>5 DEF Budget
    <2>12. LineInv(S, E, <<>>, at)
      BY <2>5, <2>6, <2>7, <2>8, <2>9, <2>10, <2>11 DEF LineInv, Transit
    <2> QED BY <2>12 DEF OnLine
  <1> QED BY <1>4, <1>5, <1>6 DEF ProtocolInv

(* One case for each action.                                               *)
LEMMA ProtocolStep ==
  ASSUME FewTroubles, BaseInv, ProtocolInv, [Next]_vars
  PROVE  ProtocolInv'
  <1>1. StreamInv
    BY DEF ProtocolInv
  <1>2. ASSUME rcv.rc = Running, proto # "raw", UNCHANGED proto,
               xmodem_receive \/ ymodem_receive \/ SenderReads \/ SenderTimeout
                 \/ DamageFrame \/ LoseFrame \/ LoseAnswer \/ EarlyTimeout \/ SenderStops
        PROVE  ProtocolInv'
    <2>1. PICK S, E, N, at : LineInv(S, E, N, at)
      BY <1>2 DEF ProtocolInv, OnLine
    <2>2. StreamInv' /\ (rcv'.rc = Running => OnLine')
      <3>1. CASE xmodem_receive
        BY <1>1, <2>1, <3>1, XmodemLine
      <3>2. CASE ymodem_receive
        BY <1>1, <2>1, <3>2, YmodemLine
      <3>3. CASE SenderReads \/ SenderTimeout
        BY <1>1, <2>1, <3>3, SenderLine
      <3>4. CASE DamageFrame \/ LoseFrame \/ LoseAnswer \/ EarlyTimeout \/ SenderStops
        BY <1>1, <1>2, <2>1, <3>4, FaultLine
      <3> QED BY <1>2, <3>1, <3>2, <3>3, <3>4
    <2> QED BY <1>2, <2>2 DEF ProtocolInv
  <1>3. CASE xmodem_receive
    BY <1>2, <1>3 DEF xmodem_receive, Receiving
  <1>4. CASE ymodem_receive
    BY <1>2, <1>4 DEF ymodem_receive, Receiving
  <1>5. CASE uart_raw_receive
    <2>1. rcv.rc = Running /\ proto = "raw" /\ UNCHANGED proto
      BY <1>5 DEF uart_raw_receive, Receiving
    <2>2. RawLine
      BY <2>1 DEF ProtocolInv
    <2>3. StreamInv' /\ (rcv'.rc = Running => RawLine')
      BY <1>1, <1>5, <2>2, RawReceives
    <2> QED BY <2>1, <2>3 DEF ProtocolInv
  <1>6. CASE SenderSilent \/ SenderSlow
    <2>1. ReceiveTimeout
      BY <1>6 DEF SenderSilent, SenderSlow
    <2>2. /\ UNCHANGED <<proto, file, ctx>> /\ rcv \in Receivers
          /\ rcv' = [rcv EXCEPT !.rc = "EOS_ERR_TIMEOUT"]
      BY <2>1 DEF ReceiveTimeout, Return, BaseInv, ReceiverInv
    <2>3. rcv'.total_received = rcv.total_received /\ rcv'.rc # Running
      BY <2>2 DEF Receivers, Running
    <2>4. StreamInv'
      BY <1>1, <2>2, <2>3, StreamKept
    <2> QED BY <2>3, <2>4 DEF ProtocolInv
  <1>7. CASE TransportUpdateFails
    <2>1. /\ UNCHANGED <<proto, file, rcv>> /\ rcv.rc # Running
          /\ ctx' = eos_fw_update_abort(ctx)
      BY <1>7 DEF TransportUpdateFails
    <2>2. ctx'.hdr_buf = <<>> /\ ctx'.flash = ctx.flash
      BY <2>1 DEF eos_fw_update_abort, NoContext
    <2>3. Len(<<>>) = 0 /\ 1..0 = {}
      BY EmptySeq
    <2>4. StreamInv'
      BY <1>1, <2>1, <2>2, <2>3 DEF StreamInv, Prefix, Ascending, Unit
    <2> QED BY <2>1, <2>4 DEF ProtocolInv
  <1>8. CASE SenderReads \/ SenderTimeout
    <2>1. rcv.rc = Running /\ proto # "raw" /\ UNCHANGED proto
      BY <1>8 DEF SenderReads, SenderTimeout, Sending
    <2> QED BY <1>2, <1>8, <2>1
  <1>9. CASE RawSend
    <2>1. rcv.rc = Running /\ proto = "raw" /\ UNCHANGED <<proto, rcv>>
      BY <1>9 DEF RawSend, Sending
    <2>2. RawLine
      BY <2>1 DEF ProtocolInv
    <2>3. StreamInv' /\ RawLine'
      BY <1>1, <1>9, <2>2, RawSends
    <2> QED BY <2>1, <2>3 DEF ProtocolInv
  <1>10. CASE DamageFrame \/ LoseFrame \/ LoseAnswer \/ EarlyTimeout
    <2>1. rcv.rc = Running /\ proto # "raw" /\ UNCHANGED proto
      BY <1>10 DEF DamageFrame, LoseFrame, LoseAnswer, EarlyTimeout, Trouble
    <2> QED BY <1>2, <1>10, <2>1
  <1>11. CASE SenderStops
    <2>1. rcv.rc = Running /\ UNCHANGED <<proto, file, rcv, ctx>>
      BY <1>11 DEF SenderStops, Trouble
    <2>2. CASE proto # "raw"
      BY <1>2, <1>11, <2>1, <2>2
    <2>3. CASE proto = "raw"
      <3>1. UNCHANGED toRcv /\ snd' = [snd EXCEPT !.phase = "done"] /\ snd \in Senders
        BY <1>11, <2>3 DEF SenderStops, BaseInv, SenderInv
      <3>2. snd'.off = snd.off
        BY <3>1 DEF Senders
      <3>3. RawLine
        BY <2>1, <2>3 DEF ProtocolInv
      <3>4. RawLine'
        BY <2>1, <3>1, <3>2, <3>3 DEF RawLine, fr
      <3>5. StreamInv'
        BY <1>1, <2>1, StreamKept
      <3> QED BY <2>1, <2>3, <3>4, <3>5 DEF ProtocolInv
    <2> QED BY <2>2, <2>3
  <1>12. CASE UNCHANGED vars
    <2>1. UNCHANGED <<proto, file, snd, toRcv, toSnd, rcv, ctx, trouble>>
      BY <1>12 DEF vars
    <2>2. StreamInv'
      BY <1>1, <2>1, StreamKept
    <2>3. RawLine => RawLine'
      BY <2>1 DEF RawLine, fr
    <2>4. ASSUME NEW S, NEW E, NEW N, NEW at, LineInv(S, E, N, at) PROVE LineInv(S, E, N, at)'
      <3>1. Transit(S, E, N, at, toRcv)'
        BY <2>1, <2>4 DEF LineInv, Transit, Numbers, Carries, Block, Unit, Frames, Dead
      <3>2. Offsets(S, at)' /\ SenderAt(snd, S, at)' /\ AtStart(S, E)'
        BY <2>1, <2>4 DEF LineInv, Offsets, SenderAt, AtStart, FirstBlock
      <3>3. ReceiverAt(rcv, ctx, E, at)'
        BY <2>1, <2>4 DEF LineInv, ReceiverAt
      <3>4. Budget(S, E, N, toRcv, Acks(toSnd), Replies(toSnd), trouble)'
        BY <2>1, <2>4 DEF LineInv, Budget, Live, Dead, Acks, Replies, Count, Positions
      <3> QED BY <3>1, <3>2, <3>3, <3>4 DEF LineInv
    <2>5. OnLine => OnLine'
      BY <2>4 DEF OnLine
    <2> QED BY <2>1, <2>2, <2>3, <2>5 DEF ProtocolInv
  <1> QED BY <1>3, <1>4, <1>5, <1>6, <1>7, <1>8, <1>9, <1>10, <1>11, <1>12
      DEF Next, Receiver, Sender, Line

(* The invariant holds in all transfers with fewer troubles than block     *)
(* numbers; with as many a block can be taken for its successor BlkMod     *)
(* blocks later (TLC shows it with BlkMod = MaxTrouble = 3).               *)
THEOREM ProtocolInvariant ==
  ASSUME FewTroubles
  PROVE  Spec => []ProtocolInv
  <1>1. Init => ProtocolInv
    BY ProtocolInit
  <1>2. BaseInv /\ ProtocolInv /\ [Next]_vars => ProtocolInv'
    BY ProtocolStep
  <1> QED BY <1>1, <1>2, TransferInvariant, PTL DEF Spec

(* xmodem_receive(), ymodem_receive(), uart_raw_receive() and              *)
(* write_container_bytes(): what reaches the flash is the file from its    *)
(* beginning, no block twice and none skipped, and no more than the raw    *)
(* length or YMODEM block 0 announced, as long as the line makes fewer     *)
(* errors than there are block numbers.                                    *)
THEOREM FlashHoldsTheFile ==
  ASSUME FewTroubles
  PROVE  Spec => []FlashIsPrefix
  <1>1. ProtocolInv => FlashIsPrefix
    BY DEF ProtocolInv, StreamInv, FlashIsPrefix, Prefix
  <1> QED BY <1>1, ProtocolInvariant, PTL

(* The counters of eos_fw_update_write() stay within the lengths that the  *)
(* header declares, and no more is received than the file and one block of *)
(* padding.                                                                *)
THEOREM TransferTyped ==
  ASSUME FewTroubles
  PROVE  Spec => []TypeOK
  <1>1. BaseInv /\ ProtocolInv => TypeOK
    <2> SUFFICES ASSUME BaseInv, ProtocolInv PROVE TypeOK
      OBVIOUS
    <2>1. /\ proto \in Protocols /\ file \in File /\ rcv \in Receivers
          /\ rcv.expected_blk < BlkMod /\ trouble \in 0..MaxTrouble /\ spoilt \in BOOLEAN
          /\ ContextInv(ctx)
      BY DEF BaseInv, SenderInv, ReceiverInv
    <2>2. rcv.total_received <= file.len + BigBlock
      BY DEF ProtocolInv, StreamInv
    <2>3. rcv.expected_blk \in 0..BlkMod - 1
      BY <2>1, LineAssumption DEF Receivers
    <2>4. /\ ctx.state \in States /\ Len(ctx.hdr_buf) <= HdrLen
          /\ ctx.payload_written \in 0..file.image_size
          /\ ctx.tlv_written \in 0..file.tlv_len
      BY <2>1, FileAssumption DEF ContextInv, Contexts
    <2> QED BY <2>1, <2>2, <2>3, <2>4 DEF TypeOK
  <1> QED BY <1>1, TransferInvariant, ProtocolInvariant, PTL

(* A sequence that is the file so far, as a function.                      *)
LEMMA AscendingIs ==
  ASSUME NEW s \in Seq(Nat), Ascending(s), NEW n, Len(s) = n
  PROVE  s = [k \in 1..n |-> Unit(k)]
  <1>1. s \in [1..n -> Nat] /\ DOMAIN s = 1..n
    BY LenProperties
  <1>2. \A k \in 1..n : s[k] = Unit(k)
    BY DEF Ascending
  <1> QED BY <1>1, <1>2

(* eos_fw_update_write(): the context depends only on how much of the      *)
(* container has arrived, not on how the protocol cut it into calls.       *)
THEOREM CutsMakeNoDifference ==
  ASSUME FewTroubles
  PROVE  Spec => []CutIsIrrelevant
  <1>1. BaseInv /\ ProtocolInv => CutIsIrrelevant
    <2> SUFFICES ASSUME BaseInv, ProtocolInv,
                        ctx.state \in {"HEADER", "PAYLOAD", "TLV", "VERIFY"}
                 PROVE  ctx = StreamedTo(ctx.total_received)
      BY DEF CutIsIrrelevant
    <2> DEFINE n == ctx.total_received
               pw == ctx.payload_written
               tw == ctx.tlv_written
               bl == Len(ctx.hdr_buf)
               fl == Len(ctx.flash)
               isz == file.image_size
               tsz == file.tlv_len
               h == Lesser(n, HdrLen)
               p == Lesser(n - h, isz)
               st == IF h < HdrLen THEN "HEADER"
                     ELSE IF p < isz THEN "PAYLOAD"
                     ELSE IF n < ContainerLen(file) THEN "TLV" ELSE "VERIFY"
               m == IF h < HdrLen THEN 0 ELSE n
    <2>1. /\ ContextInv(ctx) /\ file \in File /\ ctx \in Contexts
          /\ ctx.hdr_buf \in Seq(Nat) /\ ctx.flash \in Seq(Nat)
          /\ Ascending(ctx.hdr_buf) /\ Ascending(ctx.flash)
      BY DEF BaseInv, SenderInv, ReceiverInv, ProtocolInv, StreamInv, Prefix, ContextInv,
         Contexts
    <2>2. /\ n \in Nat /\ pw \in Nat /\ tw \in Nat /\ bl \in Nat /\ fl \in Nat
          /\ isz \in Nat /\ tsz \in Nat /\ HdrLen \in Nat
          /\ ContainerLen(file) = HdrLen + isz + tsz
      BY <2>1, LenProperties, FileAssumption, LengthAssumption DEF Contexts, ContainerLen
    <2>3. /\ ctx.state = "HEADER" =>
               bl < HdrLen /\ fl = 0 /\ pw = 0 /\ tw = 0 /\ n = bl
          /\ ctx.state # "HEADER" =>
               /\ bl = HdrLen /\ fl = HdrLen + pw + tw /\ n = fl
               /\ ctx.state = "PAYLOAD" => pw < isz /\ tw = 0
               /\ ctx.state = "TLV" => pw = isz /\ tw < tsz
               /\ ctx.state = "VERIFY" => pw = isz /\ tw = tsz
      BY <2>1, EmptySeq DEF ContextInv, HeaderInv, BodyInv
    <2>4. StreamedTo(n) =
            [state |-> st, hdr_buf |-> [k \in 1..h |-> Unit(k)], payload_written |-> p,
             tlv_written |-> n - h - p, total_received |-> n,
             flash |-> [k \in 1..m |-> Unit(k)]]
      BY DEF StreamedTo
    <2>5. ctx = [state |-> ctx.state, hdr_buf |-> ctx.hdr_buf,
                 payload_written |-> ctx.payload_written, tlv_written |-> ctx.tlv_written,
                 total_received |-> ctx.total_received, flash |-> ctx.flash]
      BY <2>1 DEF Contexts
    <2>6. /\ h = IF n < HdrLen THEN n ELSE HdrLen
          /\ p = IF n - h < isz THEN n - h ELSE isz
          /\ st = IF h < HdrLen THEN "HEADER"
                  ELSE IF p < isz THEN "PAYLOAD"
                  ELSE IF n < ContainerLen(file) THEN "TLV" ELSE "VERIFY"
          /\ m = IF h < HdrLen THEN 0 ELSE n
      BY DEF Lesser
    <2> HIDE DEF n, pw, tw, bl, fl, isz, tsz, h, p, st, m
    <2>7. h = bl /\ p = pw /\ n - h - p = tw /\ m = fl /\ st = ctx.state
      <3>1. CASE ctx.state = "HEADER"
        BY <2>2, <2>3, <2>6, <3>1
      <3>2. CASE ctx.state # "HEADER"
        <4>1. h = HdrLen /\ h = bl /\ m = n /\ m = fl /\ n - h = pw + tw
          BY <2>2, <2>3, <2>6, <3>2
        <4>2. CASE ctx.state = "PAYLOAD"
          BY <2>2, <2>3, <2>6, <3>2, <4>1, <4>2
        <4>3. CASE ctx.state = "TLV"
          BY <2>2, <2>3, <2>6, <3>2, <4>1, <4>3
        <4>4. CASE ctx.state = "VERIFY"
          BY <2>2, <2>3, <2>6, <3>2, <4>1, <4>4
        <4> QED BY <3>2, <4>2, <4>3, <4>4
      <3> QED BY <3>1, <3>2
    <2>8. ctx.hdr_buf = [k \in 1..h |-> Unit(k)] /\ ctx.flash = [k \in 1..m |-> Unit(k)]
      BY <2>1, <2>7, AscendingIs DEF bl, fl
    <2>9. ctx = StreamedTo(n)
      BY <2>4, <2>5, <2>7, <2>8 DEF pw, tw, n
    <2> QED BY <2>9 DEF n
  <1> QED BY <1>1, TransferInvariant, ProtocolInvariant, PTL

==============================================================================
