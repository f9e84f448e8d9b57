------------------------------ MODULE FwUpdate ------------------------------
(***************************************************************************)
(* The update context of core/fw_update.c: a container that arrives in     *)
(* pieces of any size is cut into header, payload and TLV area and written *)
(* to the slot.  Lengths count units of data; one unit stands for the      *)
(* bytes no boundary divides.                                              *)
(***************************************************************************)
EXTENDS Integers, Sequences

CONSTANTS
  HdrLen,           \* sizeof(eos_image_header_t)
  SlotSize,         \* eos_hal_slot_size() of the target
  TlvMax            \* EOS_TLV_MAX_SIZE

ASSUME LengthAssumption ==
  /\ HdrLen \in Nat \ {0}
  /\ SlotSize \in Nat
  /\ TlvMax \in Nat

(* What a header says of the container it opens.                           *)
Header == [magic : BOOLEAN, image_size : Nat, tlv_len : Nat]

ContainerLen(h) == HdrLen + h.image_size + h.tlv_len

States == {"IDLE", "HEADER", "PAYLOAD", "TLV", "VERIFY", "ERROR"}

(* hdr_buf and flash hold units; the rest are the counters the code keeps. *)
NoContext ==
  [state |-> "IDLE", hdr_buf |-> <<>>, payload_written |-> 0, tlv_written |-> 0,
   total_received |-> 0, flash |-> <<>>]

eos_fw_update_begin == [NoContext EXCEPT !.state = "HEADER"]

(* The slot keeps what was written to it.                                  *)
eos_fw_update_abort(c) == [NoContext EXCEPT !.flash = c.flash]

(* A header that was received completely is accepted or names the error.   *)
(* (ParseHeader_IgnoresTlv forgets the TLV area when it asks what fits.)   *)
ParseHeader_IgnoresTlv(h) ==
  IF ~h.magic THEN "EOS_ERR_NO_IMAGE"
  ELSE IF h.image_size = 0 \/ HdrLen + h.image_size > SlotSize THEN "EOS_ERR_FULL"
  ELSE IF h.tlv_len > TlvMax THEN "EOS_ERR_INVALID"
  ELSE "EOS_OK"

ParseHeader(h) ==
  IF ~h.magic THEN "EOS_ERR_NO_IMAGE"
  ELSE IF h.image_size = 0 \/ ContainerLen(h) > SlotSize THEN "EOS_ERR_FULL"
  ELSE IF h.tlv_len > TlvMax THEN "EOS_ERR_INVALID"
  ELSE "EOS_OK"

(* One call of eos_fw_update_write() with n units.  The units go to the    *)
(* header as long as it lacks some, then to the payload, then to the TLV   *)
(* area; nothing follows a header that is not accepted.                    *)
Lesser(m, n) == IF m < n THEN m ELSE n

HeaderUnits(c, n) ==
  IF c.state = "HEADER" THEN Lesser(n, HdrLen - Len(c.hdr_buf)) ELSE 0

HeaderEnds(c, n) == c.state = "HEADER" /\ n >= HdrLen - Len(c.hdr_buf)

Accepted(h, c, n) ==
  c.state \in {"PAYLOAD", "TLV"} \/ (HeaderEnds(c, n) /\ ParseHeader(h) = "EOS_OK")

(* (PayloadUnits_Unbounded does not stop at the end of the payload.)       *)
PayloadUnits_Unbounded(h, c, n) ==
  IF Accepted(h, c, n) THEN n - HeaderUnits(c, n) ELSE 0

PayloadUnits(h, c, n) ==
  IF Accepted(h, c, n)
  THEN Lesser(n - HeaderUnits(c, n), h.image_size - c.payload_written) ELSE 0

TlvUnits(h, c, n) ==
  IF Accepted(h, c, n)
  THEN Lesser(n - HeaderUnits(c, n) - PayloadUnits(h, c, n), h.tlv_len - c.tlv_written)
  ELSE 0

UnitsTaken(h, c, n) == HeaderUnits(c, n) + PayloadUnits(h, c, n) + TlvUnits(h, c, n)

(* The areas written before the call met its first error; failing is the   *)
(* area whose flash write reports one, if any.                             *)
HeaderError(h, c, n, failing) ==
  /\ HeaderEnds(c, n)
  /\ ParseHeader(h) # "EOS_OK" \/ failing = "HEADER"

PayloadError(h, c, n, failing) ==
  \/ HeaderError(h, c, n, failing)
  \/ PayloadUnits(h, c, n) > 0 /\ failing = "PAYLOAD"

TlvError(h, c, n, failing) ==
  \/ PayloadError(h, c, n, failing)
  \/ TlvUnits(h, c, n) > 0 /\ failing = "TLV"

(* Only what the container took is counted.                                *)
(* (Counted_All counts the units that are refused, too.)                   *)
Counted_All(h, c, n) == n

Counted(h, c, n) == UnitsTaken(h, c, n)

(* The state after the call, when it met no error.                         *)
NextState(h, c, n) ==
  IF ~Accepted(h, c, n) THEN "HEADER"
  ELSE IF c.payload_written + PayloadUnits(h, c, n) < h.image_size THEN "PAYLOAD"
  ELSE IF c.tlv_written + TlvUnits(h, c, n) < h.tlv_len THEN "TLV"
  ELSE "VERIFY"

Written(h, c, data, failing) ==
  LET n == Len(data)
      hdr == HeaderUnits(c, n)
      payload == IF PayloadError(h, c, n, failing) THEN 0 ELSE PayloadUnits(h, c, n)
      tlv == IF TlvError(h, c, n, failing) THEN 0 ELSE TlvUnits(h, c, n)
      hdr_buf == c.hdr_buf \o SubSeq(data, 1, hdr)
  IN  [state |-> IF TlvError(h, c, n, failing) THEN "ERROR" ELSE NextState(h, c, n),
       hdr_buf |-> hdr_buf,
       payload_written |-> c.payload_written + payload,
       tlv_written |-> c.tlv_written + tlv,
       total_received |-> IF TlvError(h, c, n, failing) THEN c.total_received
                          ELSE c.total_received + Counted(h, c, n),
       flash |-> IF HeaderEnds(c, n)
                 THEN IF HeaderError(h, c, n, failing) THEN <<>>
                      ELSE hdr_buf \o SubSeq(data, hdr + 1, hdr + payload + tlv)
                 ELSE c.flash \o SubSeq(data, hdr + 1, hdr + payload + tlv)]

(* Units past the container are an error that does not harm the finished   *)
(* context.                                                                *)
WriteResult(h, c, n, failing) ==
  IF HeaderEnds(c, n) /\ ParseHeader(h) # "EOS_OK" THEN ParseHeader(h)
  ELSE IF TlvError(h, c, n, failing) THEN "EOS_ERR_FLASH"
  ELSE IF UnitsTaken(h, c, n) < n THEN "EOS_ERR_INVALID"
  ELSE "EOS_OK"

Closed(c, n) == n = 0 \/ c.state \in {"IDLE", "VERIFY", "ERROR"}

eos_fw_update_write(h, c, data, failing) ==
  IF Closed(c, Len(data)) THEN [ctx |-> c, rc |-> "EOS_ERR_INVALID"]
  ELSE [ctx |-> Written(h, c, data, failing),
        rc |-> WriteResult(h, c, Len(data), failing)]

eos_fw_update_bytes_wanted(h, c) ==
  CASE c.state = "HEADER" -> HdrLen - Len(c.hdr_buf)
    [] c.state = "PAYLOAD" ->
         (h.image_size - c.payload_written) + (h.tlv_len - c.tlv_written)
    [] c.state = "TLV" -> h.tlv_len - c.tlv_written
    [] OTHER -> 0
=============================================================================
