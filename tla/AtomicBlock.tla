---------------------------- MODULE AtomicBlock ----------------------------
(***************************************************************************)
(* What eos_bootctl.h promises of the boot control block: a single durable *)
(* record.  A program loads it, edits its copy and saves it; a save takes  *)
(* effect at one instant or not at all, EOS_OK means it took effect, and a *)
(* load returns the record as it is.                                       *)
(***************************************************************************)
CONSTANT Block              \* the values a boot control block can hold

VARIABLES
  reg,                      \* the durable record
  ram,                      \* the copy held by the program that is running
  phase,                    \* "off": nothing loaded, "ready", "saving"
  rc                        \* what the last load or save returned

vars == <<reg, ram, phase, rc>>

Init ==
  /\ reg \in Block
  /\ ram = reg
  /\ phase = "off"
  /\ rc = "EOS_OK"

(* EOS_ERR_CRC tells the caller that the record is the factory default.    *)
Load ==
  /\ phase = "off"
  /\ phase' = "ready"
  /\ ram' = reg
  /\ rc' \in {"EOS_OK", "EOS_ERR_CRC"}
  /\ UNCHANGED reg

BeginSave ==
  /\ phase = "ready"
  /\ phase' = "saving"
  /\ ram' \in Block
  /\ UNCHANGED <<reg, rc>>

Commit ==
  /\ phase = "saving"
  /\ reg' = ram
  /\ UNCHANGED <<ram, phase, rc>>

(* The save returns.  An error leaves either record; success leaves the    *)
(* new one.                                                                *)
EndSave ==
  /\ phase = "saving"
  /\ phase' = "ready"
  /\ reg' \in {reg, ram}
  /\ rc' \in {"EOS_OK", "EOS_ERR_FLASH"}
  /\ rc' = "EOS_OK" => reg' = ram
  /\ UNCHANGED ram

(* Power loss, reset, or a hand-over to the next program.                  *)
Lose ==
  /\ phase # "off"
  /\ phase' = "off"
  /\ UNCHANGED <<reg, ram, rc>>

Next == Load \/ BeginSave \/ Commit \/ EndSave \/ Lose

Spec == Init /\ [][Next]_vars
=============================================================================
