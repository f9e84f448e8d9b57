----------------------------- MODULE Multicore -----------------------------
(***************************************************************************)
(* Starting, stopping and resetting secondary cores (core/multicore.c).    *)
(* core_table is what the boot loader believes; the cores themselves do    *)
(* what the board's operations make them do, and the content of a slot may *)
(* change while cores run.                                                 *)
(*                                                                         *)
(* Inter-processor messages and the polling of eos_multicore_wait_state()  *)
(* change nothing here and are left out.                                   *)
(***************************************************************************)
EXTENDS Naturals

CONSTANTS
    Cores,          \* secondary cores
    McSlots,        \* slots that hold images for them
    NoSlot,         \* EOS_SLOT_NONE
    Entries,        \* entry addresses
    MaxRewrites     \* bound: times that slot contents change

ASSUME MulticoreAssumption == NoSlot \notin McSlots /\ MaxRewrites \in Nat

VARIABLES
    core_table,     \* per core: its configuration and state
    ops,            \* which operations the board has
    core,           \* external: whether each core runs, and from what
    content,        \* external: the image in each slot
    rewrites        \* history: changes of slot contents

mcVars == <<core_table, ops, core, content, rewrites>>

Images == [shaped : {TRUE}, intact : BOOLEAN, signed : BOOLEAN, entry : Entries]
              \cup [shaped : {FALSE}, intact : {FALSE}, signed : {FALSE}, entry : Entries]

Configs == [mode : {"SMP", "AMP"}, slot : McSlots \cup {NoSlot}, entry : Entries]
Unconfigured == [mode |-> "SMP", slot |-> NoSlot, entry |-> 0]
Idle == [runs |-> FALSE, cfg |-> Unconfigured, image |-> "none"]

\* eos_multicore_init(): no secondary core is configured.
McInit ==
    /\ core_table = [c \in Cores |-> [cfg |-> Unconfigured, state |-> "OFF"]]
    /\ ops \in [start : BOOLEAN, stop : BOOLEAN, reset : BOOLEAN]
    /\ core = [c \in Cores |-> Idle]
    /\ content \in [McSlots -> Images]
    /\ rewrites = 0

\* An image for a core of its own must be authentic, and the core must start where
\* the signed header says.
Authentic_HeaderOnly(cfg) ==
    (cfg.mode = "AMP" /\ cfg.slot # NoSlot) => content[cfg.slot].shaped

Authentic(cfg) ==
    (cfg.mode = "AMP" /\ cfg.slot # NoSlot) =>
        /\ content[cfg.slot].shaped /\ content[cfg.slot].intact /\ content[cfg.slot].signed
        /\ cfg.entry = content[cfg.slot].entry

\* What eos_multicore_start() makes of the table and of the cores; ok is the
\* platform's answer.
Started(c, cfg, ok, cores) ==
    IF cfg.entry # 0 /\ Authentic(cfg)
    THEN /\ core_table' = [core_table EXCEPT ![c] =
                [cfg |-> cfg, state |-> IF ~ops.start THEN "STARTING"
                                        ELSE IF ok THEN "RUNNING" ELSE "ERROR"]]
         /\ core' = IF ops.start /\ ok
                    THEN [cores EXCEPT ![c] =
                             [runs |-> TRUE, cfg |-> cfg,
                              image |-> IF cfg.slot = NoSlot THEN "none" ELSE content[cfg.slot]]]
                    ELSE cores
    ELSE UNCHANGED <<core_table, core>>

\* Through eos_multicore_start_smp(), eos_multicore_start_amp() or
\* eos_multicore_boot_all(), or with a configuration made by hand.
eos_multicore_start(c, cfg, ok) ==
    /\ Started(c, cfg, ok, core)
    /\ UNCHANGED <<ops, content, rewrites>>

\* Without a stop operation the core runs on and only the table says STOPPED.
AfterStop(c) == IF ops.stop THEN [core EXCEPT ![c] = Idle] ELSE core

eos_multicore_stop(c, ok) ==
    /\ ops.stop => ok
    /\ core_table' = [core_table EXCEPT ![c].state = "STOPPED"]
    /\ core' = AfterStop(c)
    /\ UNCHANGED <<ops, content, rewrites>>

\* The board's own reset runs the core again from what its slot holds now.
ResetByBoard(c) ==
    /\ ops.reset /\ core[c].runs
    /\ core' = [core EXCEPT ![c].image =
                   IF core[c].cfg.slot = NoSlot THEN "none" ELSE content[core[c].cfg.slot]]
    /\ UNCHANGED <<core_table, ops, content, rewrites>>

\* Otherwise stop and start.  A core that was never configured has core_id 0 in its
\* table entry, which the start refuses; a refused start leaves the core stopped.
ResetByRestart(c, ok) ==
    /\ ~ops.reset
    /\ IF core_table[c].cfg = Unconfigured \/ ~Authentic(core_table[c].cfg)
       THEN /\ core_table' = [core_table EXCEPT ![c].state = "STOPPED"]
            /\ core' = AfterStop(c)
       ELSE Started(c, core_table[c].cfg, ok, AfterStop(c))
    /\ UNCHANGED <<ops, content, rewrites>>

\* An update, or wear, changes what a slot holds.
SlotChanges(s, image) ==
    /\ rewrites < MaxRewrites /\ image # content[s]
    /\ content' = [content EXCEPT ![s] = image]
    /\ rewrites' = rewrites + 1
    /\ UNCHANGED <<core_table, ops, core>>

McNext ==
    \/ \E c \in Cores, cfg \in Configs, ok \in BOOLEAN : eos_multicore_start(c, cfg, ok)
    \/ \E c \in Cores, ok \in BOOLEAN : eos_multicore_stop(c, ok) \/ ResetByRestart(c, ok)
    \/ \E c \in Cores : ResetByBoard(c)
    \/ \E s \in McSlots, image \in Images : SlotChanges(s, image)

McSpec == McInit /\ [][McNext]_mcVars

-----------------------------------------------------------------------------
(* Properties.                                                             *)

McTypeOK ==
    /\ \A c \in Cores : core_table[c].cfg \in Configs \cup {Unconfigured}
    /\ \A c \in Cores : core_table[c].state \in {"OFF", "STARTING", "RUNNING", "ERROR", "STOPPED"}
    /\ content \in [McSlots -> Images] /\ rewrites \in 0..MaxRewrites

\* A core that runs an image from a slot was started, or restarted after a change
\* of the slot, from an image that was intact and signed at that moment and at the
\* entry point of its header.  A board's own reset operation is left out: it
\* restarts the core without a second look at the slot.
CoresRunVerified ==
    ~ops.reset => \A c \in Cores :
        (core[c].runs /\ core[c].cfg.mode = "AMP" /\ core[c].cfg.slot # NoSlot) =>
            /\ core[c].image.intact /\ core[c].image.signed
            /\ core[c].cfg.entry = core[c].image.entry

=============================================================================
