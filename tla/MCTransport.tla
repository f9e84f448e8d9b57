---------------------------- MODULE MCTransport ----------------------------
(***************************************************************************)
(* The files offered to the receiver in the checked instance: a good one   *)
(* that fills the slot, one without a TLV area, and one for each way a     *)
(* file or its declared size can be wrong.                                 *)
(***************************************************************************)
EXTENDS Transport

OfferedFile(magic, image_size, tlv_len, len, declared) ==
  [magic |-> magic, image_size |-> image_size, tlv_len |-> tlv_len,
   len |-> len, declared |-> declared]

MCFile ==
  { OfferedFile(TRUE,  4, 1, 7, 7),      \* fills the slot
    OfferedFile(TRUE,  3, 0, 5, 6),      \* no TLV area, size rounded up
    OfferedFile(TRUE,  4, 1, 7, 6),      \* declared too small
    OfferedFile(TRUE,  4, 1, 7, 0),      \* no size in block 0
    OfferedFile(TRUE,  4, 1, 6, 6),      \* truncated
    OfferedFile(TRUE,  3, 0, 7, 7),      \* data after the container
    OfferedFile(TRUE,  5, 1, 8, 8),      \* TLV area beyond the slot
    OfferedFile(TRUE,  2, 3, 7, 7),      \* TLV area too long
    OfferedFile(TRUE,  0, 1, 3, 3),      \* no payload
    OfferedFile(FALSE, 4, 1, 7, 7),      \* not an image
    OfferedFile(TRUE,  4, 1, 1, 1) }     \* ends in the header
=============================================================================
