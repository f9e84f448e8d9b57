----------------------------- MODULE ImageCheck -----------------------------
(***************************************************************************)
(* What an image may look like before its payload is hashed and its        *)
(* metadata is believed: the header checks of core/image_verify.c, the     *)
(* slot bounds of core/image_slot_bounds.c and core/rollback.c, and the    *)
(* walk over the TLV area (core/image_tlv.c) that finds the security       *)
(* counter.                                                                *)
(*                                                                         *)
(* Addresses and lengths are words below Word, and sums wrap; Word, the    *)
(* sizes and the limits are scaled down together.  What a hash or a        *)
(* signature says is a choice.  The TLV area holds anything at all: its    *)
(* next entry header is chosen when it is read.                            *)
(***************************************************************************)
EXTENDS Naturals, Sequences

CONSTANTS
    Word,           \* 2^32: addresses and lengths wrap here
    HdrBytes,       \* sizeof(eos_image_header_t)
    HdrMax,         \* largest hdr_size
    ImgMax,         \* largest image_size
    SlotPlaces,     \* <<base, size>> of the slots of the boards considered
    TlvMax,         \* EOS_TLV_MAX_SIZE
    TlvEntriesMax,  \* EOS_TLV_MAX_ENTRIES
    TlvLens         \* lengths that TLV entries may declare

ASSUME ImageAssumption ==
    /\ {Word, HdrBytes, HdrMax, ImgMax, TlvMax, TlvEntriesMax} \subseteq Nat
    /\ TlvLens \subseteq Nat /\ SlotPlaces \subseteq Nat \X Nat
    /\ HdrBytes < HdrMax /\ HdrMax < Word /\ ImgMax < Word
    /\ \A s \in SlotPlaces : s[1] \in 1..Word - 1 /\ s[2] \in 1..Word - 1 /\ s[1] + s[2] <= Word

VARIABLES
    hdr,        \* the header in flash
    slot,       \* the slot it is in: <<base, size>>
    verdict,    \* how far the checks have come
    tlv         \* the TLV context and the position in the area

imageVars == <<hdr, slot, verdict, tlv>>

TlvHdr == 4     \* sizeof(eos_tlv_info_t) and sizeof(eos_tlv_entry_hdr_t)

NoTlv == [offset |-> 0, total |-> 0, entries |-> <<>>, area |-> 0]

ImageInit ==
    /\ hdr \in [known : BOOLEAN, hdr_size : 0..HdrMax + 1, image_size : 0..ImgMax + 1,
                load_addr : 0..Word - 1, entry_addr : 0..Word - 1, tlv_len : {0}]
    /\ slot \in SlotPlaces
    /\ verdict = "unread" /\ tlv = NoTlv

\* The runtime range of an image must not wrap and must hold the entry point; a
\* load address of zero is unset.
EntryOK(h) ==
    h.load_addr # 0 =>
        /\ h.image_size <= Word - 1 - h.load_addr
        /\ h.entry_addr >= h.load_addr /\ h.entry_addr < h.load_addr + h.image_size

\* .known: the header was read, with the magic number and a version from 1 up to
\* EOS_IMAGE_HDR_VERSION.  Nothing here reads tlv_len, so it is drawn only now.
eos_image_parse_header ==
    /\ verdict = "unread"
    /\ verdict' = IF /\ hdr.known
                     /\ hdr.hdr_size \in HdrBytes..HdrMax
                     /\ hdr.image_size \in 1..ImgMax
                     /\ EntryOK(hdr)
                  THEN "parsed" ELSE "refused"
    /\ \E n \in 0..Word - 1 :
          hdr' = IF verdict' = "parsed" THEN [hdr EXCEPT !.tlv_len = n] ELSE hdr
    /\ UNCHANGED <<slot, tlv>>

FitsSlot_Sum(h, size) == (h.hdr_size + h.image_size + h.tlv_len) % Word <= size

FitsSlot(h, size) ==
    /\ h.hdr_size <= size
    /\ h.image_size <= size - h.hdr_size
    /\ h.tlv_len <= size - h.hdr_size - h.image_size

\* verify_slot(): the slot bounds, then the payload address and the digest and
\* the signature.
verify_slot(good) ==
    /\ verdict = "parsed"
    /\ verdict' = IF /\ FitsSlot(hdr, slot[2])
                     /\ hdr.hdr_size <= Word - 1 - slot[1]
                     /\ good
                  THEN "valid" ELSE "refused"
    /\ UNCHANGED <<hdr, slot, tlv>>

\* eos_rollback_read_image_counter() up to the TLV area: without one the counter
\* is 0, and one that does not match the header is refused.
read_image_counter(matches) ==
    /\ verdict = "valid"
    /\ LET tlv_addr == slot[1] + hdr.hdr_size + hdr.image_size
       IN  verdict' = IF hdr.tlv_len = 0 THEN "no_counter"
                      ELSE IF /\ FitsSlot(hdr, slot[2]) /\ tlv_addr < Word
                              /\ hdr.tlv_len \in TlvHdr..TlvMax /\ tlv_addr + hdr.tlv_len < Word
                              /\ matches
                           THEN "hashed" ELSE "refused"
    /\ UNCHANGED <<hdr, slot, tlv>>

\* The info header of the area and the length that it declares.
eos_tlv_parse(total) ==
    /\ verdict = "hashed"
    /\ verdict' = IF total \in TlvHdr..TlvMax THEN "walking" ELSE "refused"
    /\ tlv' = [NoTlv EXCEPT !.offset = TlvHdr, !.total = total, !.area = hdr.tlv_len]
    /\ UNCHANGED <<hdr, slot>>

\* The magic number is missing, or flash cannot be read.
NoTlvArea == verdict = "hashed" /\ verdict' = "no_counter" /\ UNCHANGED <<hdr, slot, tlv>>
TlvReadError ==
    /\ verdict \in {"hashed", "walking", "found"}
    /\ verdict' = "refused" /\ UNCHANGED <<hdr, slot, tlv>>

MoreTlv == tlv.offset + TlvHdr <= tlv.total /\ Len(tlv.entries) < TlvEntriesMax

Truncated_NoHeader(len) == tlv.offset + len > tlv.total

Truncated(len) == tlv.offset + TlvHdr + len > tlv.total

Aligned(n) == 4 * ((n + 3) \div 4)

\* One round of the loop: an end marker or an entry cut off by the end of the area
\* stops the walk.
TlvEntry(type, len) ==
    /\ verdict = "walking" /\ MoreTlv
    /\ IF (type = "zero" /\ len = 0) \/ Truncated(len)
       THEN verdict' = "walked" /\ UNCHANGED tlv
       ELSE /\ tlv' = [tlv EXCEPT !.entries = Append(@, [type |-> type, len |-> len,
                                                        offset |-> tlv.offset + TlvHdr]),
                                  !.offset = Aligned(tlv.offset + TlvHdr + len)]
            /\ UNCHANGED verdict
    /\ UNCHANGED <<hdr, slot>>

TlvWalkEnds ==
    /\ verdict = "walking" /\ ~MoreTlv
    /\ verdict' = "walked"
    /\ UNCHANGED <<hdr, slot, tlv>>

\* The first entry of the type.
CounterEntries == {i \in DOMAIN tlv.entries : tlv.entries[i].type = "MIN_SEC_VER"}
eos_tlv_find == CHOOSE i \in CounterEntries : \A j \in CounterEntries : i <= j

FindCounter ==
    /\ verdict = "walked"
    /\ verdict' = IF CounterEntries = {} THEN "no_counter"
                  ELSE IF tlv.entries[eos_tlv_find].len # 4 THEN "refused" ELSE "found"
    /\ UNCHANGED <<hdr, slot, tlv>>

eos_tlv_read_data == verdict = "found" /\ verdict' = "counter" /\ UNCHANGED <<hdr, slot, tlv>>

ImageNext ==
    \/ eos_image_parse_header
    \/ \E good \in BOOLEAN : verify_slot(good) \/ read_image_counter(good)
    \/ \E total \in 0..TlvMax + 1 : eos_tlv_parse(total)
    \/ NoTlvArea \/ TlvReadError
    \/ \E type \in {"zero", "MIN_SEC_VER", "other"}, len \in TlvLens : TlvEntry(type, len)
    \/ TlvWalkEnds \/ FindCounter \/ eos_tlv_read_data

ImageSpec == ImageInit /\ [][ImageNext]_imageVars

-----------------------------------------------------------------------------
(* Properties.                                                             *)

ImageTypeOK ==
    /\ hdr.tlv_len \in 0..Word - 1 /\ slot \in SlotPlaces
    /\ verdict \in {"unread", "parsed", "valid", "refused", "no_counter", "hashed",
                    "walking", "walked", "found", "counter"}
    /\ tlv.total \in 0..TlvMax + 1 /\ Len(tlv.entries) <= TlvEntriesMax

Accepted == verdict \notin {"unread", "parsed", "refused"}

\* An image that the checks accept lies inside its slot from its first header byte
\* to the last byte of its TLV area, none of its addresses wraps, and it starts
\* inside the range it is loaded to.
AcceptedImageInSlot ==
    Accepted =>
        /\ slot[1] + hdr.hdr_size + hdr.image_size + hdr.tlv_len <= slot[1] + slot[2]
        /\ hdr.load_addr # 0 =>
              hdr.entry_addr \in hdr.load_addr..hdr.load_addr + hdr.image_size - 1
                                 \cap 0..Word - 1
        /\ hdr.load_addr + hdr.image_size <= Word

\* The entries of a TLV area follow one another without overlap between its info
\* header and the end it declares, and the counter comes from four of its bytes.
TlvEntriesInside ==
    /\ \A i \in DOMAIN tlv.entries :
          LET e == tlv.entries[i]
          IN  /\ e.offset + e.len <= tlv.total
              /\ e.offset >= 2 * TlvHdr
              /\ i > 1 => tlv.entries[i - 1].offset + tlv.entries[i - 1].len <= e.offset - TlvHdr
    /\ verdict = "counter" =>
          \E i \in CounterEntries : tlv.entries[i].len = 4 /\ tlv.entries[i].offset + 4 <= tlv.total

=============================================================================
