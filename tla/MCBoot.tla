------------------------------- MODULE MCBoot -------------------------------
(***************************************************************************)
(* Small instances of Boot.  v1 and v2 are good images with increasing     *)
(* security counters, hung is newer than v1 but never confirms, and torn   *)
(* is signed but its TLV area is damaged.                                  *)
(***************************************************************************)
EXTENDS Boot

CONSTANTS v1, v2, hung, torn

MCCounter == [i \in Image |-> IF i = v2 THEN 2 ELSE 1]
=============================================================================
