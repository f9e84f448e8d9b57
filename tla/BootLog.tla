------------------------------ MODULE BootLog ------------------------------
(***************************************************************************)
(* The boot log (core/boot_log.c): a ring of entries in flash, a head in   *)
(* RAM that is initialised from the boot control block on every boot and   *)
(* saved there now and then, and the read-out of recovery mode.            *)
(*                                                                         *)
(* Flash is NOR: programming a cell that was not erased leaves the AND of  *)
(* everything programmed since the erase.  A cell is therefore the set of  *)
(* the entries programmed into it, entries are numbered as appended, and   *)
(* an event is the set of bits that are one.                               *)
(***************************************************************************)
EXTENDS Naturals, Sequences, FiniteSets

CONSTANTS
    LogMax,         \* EOS_BOOT_LOG_MAX
    LogEvents,      \* events, each a set of bits
    LogBits,        \* the bits of an event
    MaxAppends,     \* bound: entries appended
    MaxLogFaults    \* bound: flash errors and resets

ASSUME LogAssumption ==
    /\ LogMax \in Nat \ {0}
    /\ LogEvents \subseteq SUBSET LogBits
    /\ MaxAppends \in Nat /\ MaxLogFaults \in Nat

VARIABLES
    log,        \* cells, RAM head, whether initialised, head in the control block
    appended,   \* history: the events in the order of eos_boot_log_append()
    recycled,   \* history: the ring came round, was cleared or its head was reset
    logFaults,  \* history: flash errors and resets so far
    inStep      \* history: no reset, failed write or failed erase since the log
                \* was last clear has put head and entries out of step

logVars == <<log, appended, recycled, logFaults, inStep>>

Cells == 0..LogMax - 1

LogInit ==
    /\ log = [cell |-> [i \in Cells |-> {}], head |-> 0,
              initialized |-> FALSE, saved |-> 0]
    /\ appended = <<>> /\ recycled = FALSE /\ logFaults = 0
    /\ inStep = TRUE

\* Stage-0 and stage-1 initialise the log from the boot control block.
StartHead_Zero(saved) == 0
StartHead(saved) == saved % LogMax

eos_boot_log_init ==
    /\ ~log.initialized
    /\ log' = [log EXCEPT !.head = StartHead(log.saved), !.initialized = TRUE]
    /\ UNCHANGED <<appended, recycled, logFaults, inStep>>

\* The head moves only when the write succeeded; a write that reports an error
\* may have programmed the cell all the same.
HeadAfter_Always(ok) == (log.head + 1) % LogMax
HeadAfter(ok) == IF ok THEN (log.head + 1) % LogMax ELSE log.head

eos_boot_log_append(ok, programmed) ==
    /\ log.initialized /\ Len(appended) < MaxAppends
    /\ ok => programmed
    /\ ok \/ logFaults < MaxLogFaults
    /\ logFaults' = IF ok THEN logFaults ELSE logFaults + 1
    /\ \E e \in LogEvents : appended' = Append(appended, e)
    /\ log' = [log EXCEPT
          !.cell[log.head] = IF programmed THEN @ \cup {Len(appended) + 1} ELSE @,
          !.head = HeadAfter(ok)]
    /\ inStep' = (inStep /\ (ok \/ ~programmed))
    /\ recycled' = (recycled \/ (ok /\ log.head = LogMax - 1))

\* Stage-0 before it jumps, stage-1 before it jumps and the entry into recovery
\* save the head with the control block.
SaveLogHead ==
    /\ log.initialized
    /\ log' = [log EXCEPT !.saved = log.head]
    /\ UNCHANGED <<appended, recycled, logFaults, inStep>>

\* A factory reset returns the control block to its defaults, head included.
FactoryDefaults ==
    /\ log.initialized
    /\ log' = [log EXCEPT !.saved = 0]
    /\ recycled' = TRUE
    /\ UNCHANGED <<appended, logFaults, inStep>>

\* Reset or power loss: the RAM head is gone.
LogReset ==
    /\ log.initialized /\ logFaults < MaxLogFaults
    /\ logFaults' = logFaults + 1
    /\ log' = [log EXCEPT !.head = 0, !.initialized = FALSE]
    /\ inStep' = (inStep /\ log.saved = log.head)
    /\ UNCHANGED <<appended, recycled>>

\* An erase that fails leaves the head, and possibly some cells, as they were.
eos_boot_log_clear(ok, erased) ==
    /\ log.initialized
    /\ ok \/ logFaults < MaxLogFaults
    /\ ok => erased = Cells
    /\ logFaults' = IF ok THEN logFaults ELSE logFaults + 1
    /\ log' = [log EXCEPT !.cell = [i \in Cells |-> IF i \in erased THEN {} ELSE @[i]],
                         !.head = IF ok THEN 0 ELSE @]
    /\ recycled' = TRUE
    /\ inStep' = (ok \/ (inStep /\ erased = {}))
    /\ UNCHANGED appended

LogNext ==
    \/ eos_boot_log_init
    \/ \E ok, programmed \in BOOLEAN : eos_boot_log_append(ok, programmed)
    \/ SaveLogHead \/ FactoryDefaults \/ LogReset
    \/ \E ok \in BOOLEAN, erased \in SUBSET Cells : eos_boot_log_clear(ok, erased)

LogSpec == LogInit /\ [][LogNext]_logVars

-----------------------------------------------------------------------------
(* The read-out                                                            *)

\* The event an entry reads back as: all ones when erased, else the AND of what
\* was programmed.
EventRead(c) == {b \in LogBits : \A n \in c : b \in appended[n]}

\* eos_boot_log_read() of every cell; an entry counts when its event is not 0,
\* so erased entries count.  A full ring is read from the head.
ReadIndex_FromZero(i, valid) == i
ReadIndex(i, valid) == IF valid = LogMax THEN (log.head + i) % LogMax ELSE i

recovery_collect_boot_log_entries ==
    LET valid == Cardinality({i \in Cells : EventRead(log.cell[i]) # {}})
        entries_out[i \in 0..valid] ==
            IF i = 0 THEN <<>>
            ELSE LET c == log.cell[ReadIndex(i - 1, valid)]
                 IN  IF EventRead(c) = {} THEN entries_out[i - 1]
                     ELSE Append(entries_out[i - 1], c)
    IN entries_out[valid]

-----------------------------------------------------------------------------
(* Properties                                                              *)

LogTypeOK ==
    /\ log.cell \in [Cells -> SUBSET (1..Len(appended))]
    /\ log.head \in Cells /\ log.saved \in Cells
    /\ log.initialized \in BOOLEAN

\* Entries below the head that the control block holds are never programmed
\* again before the ring comes round, whatever power loss, failed write or
\* missed save comes in between.
SavedEntriesKept ==
    [][~recycled' => \A i \in Cells : i < log.saved => log.cell'[i] = log.cell[i]]_logVars

\* Before the ring comes round there is no hole below the head: a write that
\* failed is not skipped, so the reader finds no erased cell between entries.
NoLogGap ==
    ~recycled => \A i \in Cells :
        (i < log.saved \/ (log.initialized /\ i < log.head)) => log.cell[i] # {}

\* As long as head and entries are in step and no overwritten cell reads back
\* as event 0, the read-out visits every written cell, in the order in which the
\* cells were last written, although the ring wraps over entries that were never
\* erased and erased cells count as entries.
ReadOutInOrder ==
    (log.initialized /\ inStep /\ \A i \in Cells : EventRead(log.cell[i]) # {}) =>
        LET out == recovery_collect_boot_log_entries
            written == {k \in DOMAIN out : out[k] # {}}
        IN /\ {out[k] : k \in written} = {log.cell[i] : i \in Cells} \ {{}}
           /\ \A j, k \in written : j < k =>
                \E n \in out[k] : \A m \in out[j] : m < n

=============================================================================
