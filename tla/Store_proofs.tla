---------------------------- MODULE Store_proofs ----------------------------
(***************************************************************************)
(* Proofs about what the boot loader keeps for later: the ring of the boot *)
(* log, for any length of it, and the runtime variables, for any set of    *)
(* names and values and any size of the array.                             *)
(***************************************************************************)
EXTENDS BootLog, Services, FiniteSetTheorems, WellFoundedInduction, TLAPS

-----------------------------------------------------------------------------
(* The boot log                                                            *)

LogState ==
    [cell : [Cells -> SUBSET Nat], head : Cells, initialized : BOOLEAN, saved : Cells]

(* The head in RAM never falls behind the one that the control block holds *)
(* before the ring comes round: that is what keeps saved entries from being*)
(* programmed again, and with it the cells below either head hold entries. *)
LogInv ==
    /\ log \in LogState
    /\ appended \in Seq(LogEvents)
    /\ recycled \in BOOLEAN
    /\ (~recycled /\ log.initialized) => log.saved <= log.head
    /\ NoLogGap

(* A number that is below the length of the ring is its own remainder.     *)
LEMMA SmallRemainder ==
    ASSUME NEW n \in Cells
    PROVE  n % LogMax = n
    BY LogAssumption DEF Cells

(* The place after a cell is the next one, but after the last the first.   *)
LEMMA NextPlace ==
    ASSUME NEW n \in Cells
    PROVE  /\ (n + 1) % LogMax \in Cells
           /\ n # LogMax - 1 => (n + 1) % LogMax = n + 1
  <1>1. LogMax \in Nat /\ LogMax > 0 /\ n \in Nat /\ n < LogMax
    BY LogAssumption DEF Cells
  <1>2. CASE n = LogMax - 1
    <2>1. (n + 1) % LogMax = 0
      BY <1>1, <1>2
    <2> QED BY <1>1, <1>2, <2>1 DEF Cells
  <1>3. CASE n # LogMax - 1
    <2>1. n + 1 \in Cells
      BY <1>1, <1>3 DEF Cells
    <2> QED BY <2>1, SmallRemainder
  <1> QED BY <1>2, <1>3

(* An empty log has no hole.                                               *)
LEMMA LogInitInv == LogInit => LogInv
  <1> SUFFICES ASSUME LogInit PROVE LogInv
    OBVIOUS
  <1>1. 0 \in Cells
    BY LogAssumption DEF Cells
  <1>2. [i \in Cells |-> {}] \in [Cells -> SUBSET Nat]
    OBVIOUS
  <1>3. log \in LogState
    BY <1>1, <1>2 DEF LogInit, LogState
  <1>4. \A i \in Cells : ~(i < 0)
    BY LogAssumption DEF Cells
  <1>5. NoLogGap
    BY <1>4 DEF LogInit, NoLogGap
  <1>6. appended \in Seq(LogEvents) /\ ~recycled /\ recycled \in BOOLEAN
    <2>1. appended = <<>> /\ recycled = FALSE
      BY Zenon DEF LogInit
    <2>2. <<>> \in Seq(LogEvents)
      OBVIOUS
    <2> QED BY <2>1, <2>2, Zenon
  <1>7. ~log.initialized
    BY DEF LogInit
  <1> QED BY <1>3, <1>5, <1>6, <1>7 DEF LogInv

(* Every step of the log, reset, failed write and failed erase included.   *)
LEMMA LogNextInv == LogInv /\ [LogNext]_logVars => LogInv'
  <1> SUFFICES ASSUME LogInv, [LogNext]_logVars PROVE LogInv'
    OBVIOUS
  <1> USE DEF LogInv
  <1>0. log.head \in Cells /\ log.saved \in Cells /\ log.initialized \in BOOLEAN
        /\ log.cell \in [Cells -> SUBSET Nat] /\ Cells \subseteq Nat
    BY LogAssumption DEF LogState, Cells
  <1>1. CASE eos_boot_log_init
    <2>1. log' = [log EXCEPT !.head = log.saved, !.initialized = TRUE]
      BY <1>0, <1>1, SmallRemainder DEF eos_boot_log_init, StartHead
    <2>2. log' \in LogState /\ log'.head = log.saved /\ log'.saved = log.saved
          /\ log'.cell = log.cell
      BY <1>0, <2>1 DEF LogState
    <2> QED BY <1>0, <1>1, <2>2 DEF eos_boot_log_init, NoLogGap
  <1>2. ASSUME NEW ok \in BOOLEAN, NEW programmed \in BOOLEAN,
               eos_boot_log_append(ok, programmed)
        PROVE  LogInv'
    <2>1. log.initialized /\ (ok => programmed)
      BY <1>2 DEF eos_boot_log_append
    <2>2. Len(appended) + 1 \in Nat
      OBVIOUS
    <2> DEFINE n == Len(appended) + 1
               cell == [log.cell EXCEPT ![log.head] =
                          IF programmed THEN @ \cup {n} ELSE @]
    <2>3. log' = [log EXCEPT !.cell = cell, !.head = HeadAfter(ok)]
      BY <1>2, <1>0 DEF eos_boot_log_append, LogState
    <2>4. appended' \in Seq(LogEvents)
      BY <1>2 DEF eos_boot_log_append
    <2>5. recycled' = (recycled \/ (ok /\ log.head = LogMax - 1))
      BY <1>2 DEF eos_boot_log_append
    <2>6. cell \in [Cells -> SUBSET Nat]
      <3> HIDE DEF n
      <3> QED BY <1>0, <2>2 DEF n
    <2>7. HeadAfter(ok) \in Cells
      BY <1>0, NextPlace DEF HeadAfter
    <2>8. \A i \in Cells : (i # log.head => cell[i] = log.cell[i])
                           /\ (programmed => cell[log.head] # {})
                           /\ (log.cell[i] # {} => cell[i] # {})
      <3> HIDE DEF n
      <3> QED BY <1>0
    <2> HIDE DEF cell, n
    <2>9. /\ log' \in LogState /\ log'.cell = cell /\ log'.head = HeadAfter(ok)
          /\ log'.saved = log.saved /\ log'.initialized
      BY <1>0, <2>1, <2>3, <2>6, <2>7 DEF LogState
    <2>10. ~recycled' => HeadAfter(ok) = (IF ok THEN log.head + 1 ELSE log.head)
      BY <1>0, <2>5, NextPlace DEF HeadAfter
    <2>11. ~recycled' => log.saved <= log.head
      BY <2>1, <2>5 DEF LogInv
    <2>12. log.head \in Nat /\ log.saved \in Nat
      BY <1>0
    <2>13. ~recycled' => log.saved <= HeadAfter(ok)
      <3> SUFFICES ASSUME ~recycled' PROVE log.saved <= HeadAfter(ok)
        OBVIOUS
      <3>1. HeadAfter(ok) = log.head \/ HeadAfter(ok) = log.head + 1
        BY <2>10
      <3> HIDE DEF LogInv
      <3> QED BY <2>11, <2>12, <3>1
    <2>14. NoLogGap'
      <3> SUFFICES ASSUME ~recycled', NEW i \in Cells,
                          i < log.saved \/ i < HeadAfter(ok)
                   PROVE  cell[i] # {}
        BY <2>9 DEF NoLogGap, Cells
      <3>1. i < log.head => log.cell[i] # {}
        BY <2>1, <2>5 DEF NoLogGap
      <3>2. i < log.head \/ (ok /\ i = log.head)
        <4>1. i \in Nat
          BY <1>0
        <4>2. HeadAfter(ok) = log.head \/ (ok /\ HeadAfter(ok) = log.head + 1)
          BY <2>10
        <4> HIDE DEF LogInv
        <4> QED BY <4>1, <4>2, <2>11, <2>12
      <3> QED BY <2>1, <2>8, <3>1, <3>2
    <2>15. recycled' \in BOOLEAN
      BY <2>5
    <2> QED BY <2>4, <2>9, <2>13, <2>14, <2>15
  <1>3. CASE SaveLogHead
    <2>1. log' \in LogState /\ log'.head = log.head /\ log'.saved = log.head
          /\ log'.cell = log.cell /\ log'.initialized = log.initialized
      BY <1>0, <1>3 DEF SaveLogHead, LogState
    <2> QED BY <1>0, <1>3, <2>1 DEF SaveLogHead, NoLogGap
  <1>4. CASE FactoryDefaults
    <2>0. 0 \in Cells
      BY LogAssumption DEF Cells
    <2>1. log' \in LogState
      BY <1>0, <2>0, <1>4 DEF FactoryDefaults, LogState
    <2> QED BY <1>4, <2>1 DEF FactoryDefaults, NoLogGap
  <1>5. CASE LogReset
    <2>0. 0 \in Cells
      BY LogAssumption DEF Cells
    <2>1. log' \in LogState /\ log'.saved = log.saved
          /\ log'.cell = log.cell /\ ~log'.initialized
      BY <1>0, <2>0, <1>5 DEF LogReset, LogState
    <2> QED BY <1>0, <1>5, <2>1 DEF LogReset, NoLogGap
  <1>6. ASSUME NEW ok \in BOOLEAN, NEW erased \in SUBSET Cells,
               eos_boot_log_clear(ok, erased)
        PROVE  LogInv'
    <2>0. 0 \in Cells
      BY LogAssumption DEF Cells
    <2> DEFINE cell == [i \in Cells |-> IF i \in erased THEN {} ELSE log.cell[i]]
               head == IF ok THEN 0 ELSE log.head
    <2>1. cell \in [Cells -> SUBSET Nat] /\ head \in Cells
      BY <1>0, <2>0
    <2>2. log' = [log EXCEPT !.cell = cell, !.head = head]
      BY <1>6 DEF eos_boot_log_clear
    <2> HIDE DEF cell, head
    <2>3. log' \in LogState
      BY <1>0, <2>1, <2>2 DEF LogState
    <2> QED BY <1>6, <2>3 DEF eos_boot_log_clear, NoLogGap
  <1>7. CASE UNCHANGED logVars
    BY <1>7 DEF logVars, NoLogGap
  <1> QED BY <1>1, <1>2, <1>3, <1>4, <1>5, <1>6, <1>7 DEF LogNext

(* The invariant of the boot log.                                          *)
THEOREM LogInvariant == LogSpec => []LogInv
  BY LogInitInv, LogNextInv, PTL DEF LogSpec

(* eos_boot_log_append(): before the ring comes round no cell below the    *)
(* head, in RAM or in the control block, is empty.                         *)
THEOREM LogHasNoGap == LogSpec => []NoLogGap
  <1>1. LogInv => NoLogGap
    BY DEF LogInv
  <1> QED BY LogInvariant, <1>1, PTL

(* eos_boot_log_init() and eos_boot_log_append(): an entry below the saved *)
(* head is not programmed again before the ring comes round, however often *)
(* the device is reset without saving the head.                            *)
THEOREM SavedEntriesStay == LogSpec => SavedEntriesKept
  <1> DEFINE Kept == ~recycled' => \A i \in Cells :
                        i < log.saved => log.cell'[i] = log.cell[i]
  <1>1. LogInv /\ [LogNext]_logVars => [Kept]_logVars
    <2> SUFFICES ASSUME LogInv, LogNext, ~recycled' ,
                        NEW i \in Cells, i < log.saved
                 PROVE  log.cell'[i] = log.cell[i]
      OBVIOUS
    <2> USE DEF LogInv
    <2>0. log.head \in Cells /\ log.saved \in Cells
          /\ log.cell \in [Cells -> SUBSET Nat] /\ Cells \subseteq Nat
      BY LogAssumption DEF LogState, Cells
    <2>1. CASE eos_boot_log_init
      BY <2>1 DEF eos_boot_log_init, LogState
    <2>2. ASSUME NEW ok \in BOOLEAN, NEW programmed \in BOOLEAN,
                 eos_boot_log_append(ok, programmed)
          PROVE  log.cell'[i] = log.cell[i]
      <3>1. i # log.head
        BY <2>0, <2>2 DEF eos_boot_log_append
      <3> DEFINE new == IF programmed THEN log.cell[log.head] \cup {Len(appended) + 1}
                        ELSE log.cell[log.head]
                 head == HeadAfter(ok)
      <3>2. log' = [log EXCEPT !.cell = [log.cell EXCEPT ![log.head] = new],
                               !.head = head]
        BY <2>2 DEF eos_boot_log_append, LogState
      <3> HIDE DEF new, head
      <3> QED BY <2>0, <3>1, <3>2 DEF LogState
    <2>3. CASE SaveLogHead
      BY <2>3 DEF SaveLogHead, LogState
    <2>4. CASE LogReset
      BY <2>4 DEF LogReset, LogState
    <2>5. ~FactoryDefaults
      BY DEF FactoryDefaults
    <2>6. \A ok \in BOOLEAN, erased \in SUBSET Cells : ~eos_boot_log_clear(ok, erased)
      BY DEF eos_boot_log_clear
    <2> QED BY <2>1, <2>2, <2>3, <2>4, <2>5, <2>6 DEF LogNext
  <1> QED BY LogInvariant, <1>1, PTL DEF LogSpec, SavedEntriesKept

-----------------------------------------------------------------------------
(* The read-out of the log                                                 *)

\* The cell i places after h in the ring.
Place(h, i) == (h + i) % LogMax

\* From h on round the ring: first the cells that were never written, then each cell
\* with an entry later than all entries of the cells before it.
RingFrom(h) ==
    \A i, j \in Cells : i < j /\ log.cell[Place(h, i)] # {} =>
        \E n \in log.cell[Place(h, j)] : \A m \in log.cell[Place(h, i)] : m < n

\* The head, or what it will be once the log is initialised.
NextHead == IF log.initialized THEN log.head ELSE log.saved

(* As long as head and entries are in step, the ring is in order from the  *)
(* head on.                                                                *)
RingInv ==
    /\ LogInv
    /\ \A i \in Cells : \A n \in log.cell[i] : n <= Len(appended)
    /\ inStep \in BOOLEAN
    /\ inStep => RingFrom(NextHead)

(* Places are cells, and those of the next head are one further on.        *)
LEMMA Places ==
    ASSUME NEW h \in Cells, NEW i \in Cells
    PROVE  /\ Place(h, i) \in Cells
           /\ i + 1 \in Cells => Place(Place(h, 1), i) = Place(h, i + 1)
           /\ i = LogMax - 1 => Place(Place(h, 1), i) = h
           /\ i # 0 => Place(h, i) # h
           /\ Place(h, 0) = h
  <1>1. LogMax \in Nat \ {0} /\ h \in 0..LogMax - 1 /\ i \in 0..LogMax - 1
    BY LogAssumption DEF Cells
  <1>2. \A n \in Nat : n < LogMax => n % LogMax = n
    BY <1>1
  <1>3. \A n \in Nat : LogMax <= n /\ n < 2 * LogMax => n % LogMax = n - LogMax
    BY <1>1
  <1>4. Place(h, i) = IF h + i < LogMax THEN h + i ELSE h + i - LogMax
    BY <1>1, <1>2, <1>3 DEF Place
  <1>5. Place(h, 1) = IF h + 1 < LogMax THEN h + 1 ELSE 0
    BY <1>1, <1>2, <1>3 DEF Place
  <1>6. Place(Place(h, 1), i) =
           IF Place(h, 1) + i < LogMax THEN Place(h, 1) + i ELSE Place(h, 1) + i - LogMax
    <2>1. Place(h, 1) \in 0..LogMax - 1
      BY <1>1, <1>5
    <2> QED BY <1>1, <1>2, <1>3, <2>1 DEF Place
  <1>7. i + 1 \in Cells =>
           Place(h, i + 1) = IF h + i + 1 < LogMax THEN h + i + 1 ELSE h + i + 1 - LogMax
    BY <1>1, <1>2, <1>3 DEF Place, Cells
  <1>8. Place(h, 0) = h
    BY <1>1, <1>2 DEF Place
  <1> QED BY <1>1, <1>4, <1>5, <1>6, <1>7, <1>8 DEF Cells

LEMMA RingInitInv == LogInit => RingInv
  <1> SUFFICES ASSUME LogInit PROVE RingInv
    OBVIOUS
  <1>1. LogInv
    BY LogInitInv
  <1>2. \A i \in Cells : log.cell[i] = {}
    BY DEF LogInit
  <1>3. 0 \in Cells /\ NextHead = 0
    BY LogAssumption DEF LogInit, NextHead, Cells
  <1>4. RingFrom(NextHead)
    BY <1>2, <1>3, Places DEF RingFrom
  <1>5. inStep = TRUE
    BY DEF LogInit
  <1> QED BY <1>1, <1>2, <1>4, <1>5 DEF RingInv

(* A step that leaves the cells alone leaves them in order.                *)
LEMMA RingKept ==
    ASSUME RingInv, LogInv', appended' = appended, log'.cell = log.cell, inStep' \in BOOLEAN,
           inStep' => inStep /\ NextHead' = NextHead
    PROVE  RingInv'
  <1>1. \A i \in Cells : \A n \in log'.cell[i] : n <= Len(appended')
    BY DEF RingInv
  <1>2. ASSUME inStep' PROVE RingFrom(NextHead)'
    <2>1. RingFrom(NextHead) /\ NextHead' = NextHead
      BY <1>2 DEF RingInv
    <2> QED BY <2>1 DEF RingFrom, Place
  <1> QED BY <1>1, <1>2 DEF RingInv

(* Appending an entry, whatever comes of it.                               *)
LEMMA RingAppend ==
    ASSUME RingInv, LogInv', NEW ok \in BOOLEAN, NEW programmed \in BOOLEAN,
           eos_boot_log_append(ok, programmed)
    PROVE  RingInv'
  <1> DEFINE n == Len(appended) + 1
             h == log.head
             cell == [log.cell EXCEPT ![h] = IF programmed THEN @ \cup {n} ELSE @]
  <1>1. /\ h \in Cells /\ log.cell \in [Cells -> SUBSET Nat] /\ Cells \subseteq Nat
        /\ log \in LogState /\ appended \in Seq(LogEvents)
    BY LogAssumption DEF RingInv, LogInv, LogState, Cells
  <1>2. Len(appended) \in Nat /\ n \in Nat /\ Len(appended') = n
    BY <1>1 DEF eos_boot_log_append
  <1>3. log' = [log EXCEPT !.cell = cell, !.head = HeadAfter(ok)]
    BY <1>1 DEF eos_boot_log_append, LogState
  <1>4. /\ log'.cell = cell /\ log'.head = HeadAfter(ok)
        /\ log.initialized /\ log'.initialized = log.initialized /\ (ok => programmed)
    BY <1>1, <1>3 DEF LogState, eos_boot_log_append
  <1>5. inStep' = (inStep /\ (ok \/ ~programmed)) /\ inStep \in BOOLEAN
    BY DEF eos_boot_log_append, RingInv
  <1>6. cell \in [Cells -> SUBSET Nat]
    BY <1>1, <1>2
  <1>7. \A i \in Cells : i # h => cell[i] = log.cell[i]
    BY <1>1
  <1>8. cell[h] = IF programmed THEN log.cell[h] \cup {n} ELSE log.cell[h]
    BY <1>1
  <1>9. \A i \in Cells : \A m \in log.cell[i] : m \in Nat /\ m <= Len(appended)
    BY <1>1 DEF RingInv
  <1> HIDE DEF cell, n, h
  <1>10. \A i \in Cells : \A m \in log'.cell[i] : m <= Len(appended')
    <2> SUFFICES ASSUME NEW i \in Cells, NEW m \in cell[i] PROVE m <= n
      BY <1>2, <1>4
    <2>1. m \in log.cell[i] \/ m = n
      BY <1>7, <1>8
    <2> QED BY <2>1, <1>2, <1>9 DEF n
  <1>11. ASSUME inStep' PROVE RingFrom(NextHead)'
    <2>1. RingFrom(h) /\ NextHead' = HeadAfter(ok)
      BY <1>4, <1>5, <1>11 DEF RingInv, NextHead, h
    <2>2. CASE ~ok
      <3>1. cell = log.cell
        BY <1>1, <1>5, <1>11, <2>2 DEF cell
      <3>2. NextHead' = h
        BY <2>1, <2>2 DEF HeadAfter, h
      <3> QED BY <3>1, <3>2, <2>1, <1>4 DEF RingFrom, Place
    <2>3. CASE ok
      <3> DEFINE h2 == Place(h, 1)
      <3>1. NextHead' = h2
        BY <2>1, <2>3 DEF HeadAfter, Place, h
      <3>2. h2 \in Cells
        BY <1>1, LogAssumption DEF Place, Cells
      <3>3. SUFFICES ASSUME NEW i \in Cells, NEW j \in Cells, i < j, cell[Place(h2, i)] # {}
                     PROVE  \E k \in cell[Place(h2, j)] : \A m \in cell[Place(h2, i)] : m < k
        BY <3>1, <1>4 DEF RingFrom, Place
      <3>4. i + 1 \in Cells /\ i # LogMax - 1 /\ i \in Nat /\ j \in Nat
        BY <3>3, LogAssumption DEF Cells
      <3>5. Place(h2, i) = Place(h, i + 1) /\ Place(h, i + 1) \in Cells /\ Place(h, i + 1) # h
        BY <3>4, <1>1, Places
      <3>6. cell[Place(h2, i)] = log.cell[Place(h, i + 1)]
        BY <3>5, <1>7
      <3>7. CASE j = LogMax - 1
        <4>1. Place(h2, j) = h
          BY <3>7, <1>1, Places
        <4>2. n \in cell[Place(h2, j)]
          BY <4>1, <1>8, <2>3, <1>4
        <4>3. \A m \in cell[Place(h2, i)] : m < n
          BY <3>5, <3>6, <1>9, <1>2 DEF n
        <4> QED BY <4>2, <4>3
      <3>8. CASE j # LogMax - 1
        <4>1. j + 1 \in Cells /\ i + 1 < j + 1
          BY <3>3, <3>4, <3>8, LogAssumption DEF Cells
        <4>2. Place(h2, j) = Place(h, j + 1) /\ Place(h, j + 1) \in Cells /\ Place(h, j + 1) # h
          BY <4>1, <3>4, <1>1, Places
        <4>3. cell[Place(h2, j)] = log.cell[Place(h, j + 1)]
          BY <4>2, <1>7
        <4>4. \E k \in log.cell[Place(h, j + 1)] : \A m \in log.cell[Place(h, i + 1)] : m < k
          BY <2>1, <3>3, <3>4, <3>6, <4>1 DEF RingFrom
        <4> QED BY <4>3, <4>4, <3>6
      <3> QED BY <3>7, <3>8
    <2> QED BY <2>2, <2>3
  <1> QED BY <1>5, <1>10, <1>11 DEF RingInv

LEMMA RingNextInv == RingInv /\ [LogNext]_logVars => RingInv'
  <1> SUFFICES ASSUME RingInv, [LogNext]_logVars PROVE RingInv'
    OBVIOUS
  <1>1. LogInv /\ LogInv' /\ inStep \in BOOLEAN
    BY LogNextInv DEF RingInv
  <1>2. log \in LogState /\ log.saved \in Cells /\ log.head \in Cells
    BY <1>1 DEF LogInv, LogState
  <1>3. CASE eos_boot_log_init
    <2>1. log' = [log EXCEPT !.head = log.saved, !.initialized = TRUE]
      BY <1>2, <1>3, SmallRemainder DEF eos_boot_log_init, StartHead
    <2>2. log'.cell = log.cell /\ NextHead' = NextHead
      BY <1>2, <1>3, <2>1 DEF LogState, NextHead, eos_boot_log_init
    <2> QED BY <1>1, <1>3, <2>2, RingKept DEF eos_boot_log_init
  <1>4. ASSUME NEW ok \in BOOLEAN, NEW programmed \in BOOLEAN,
               eos_boot_log_append(ok, programmed)
        PROVE  RingInv'
    BY <1>1, <1>4, RingAppend
  <1>5. CASE SaveLogHead \/ FactoryDefaults
    <2>1. log'.cell = log.cell /\ NextHead' = NextHead
      BY <1>2, <1>5 DEF LogState, NextHead, SaveLogHead, FactoryDefaults
    <2> QED BY <1>1, <1>5, <2>1, RingKept DEF SaveLogHead, FactoryDefaults
  <1>6. CASE LogReset
    <2>1. log'.cell = log.cell /\ log'.saved = log.saved /\ ~log'.initialized /\ log.initialized
      BY <1>2, <1>6 DEF LogState, LogReset
    <2>2. inStep' = (inStep /\ log.saved = log.head)
      BY <1>6 DEF LogReset
    <2>3. inStep' => inStep /\ NextHead' = NextHead
      BY <2>1, <2>2 DEF NextHead
    <2>4. inStep' \in BOOLEAN
      BY <2>2, <1>1
    <2> QED BY <1>1, <1>6, <2>1, <2>3, <2>4, RingKept DEF LogReset
  <1>7. ASSUME NEW ok \in BOOLEAN, NEW erased \in SUBSET Cells, eos_boot_log_clear(ok, erased)
        PROVE  RingInv'
    <2> DEFINE cell == [i \in Cells |-> IF i \in erased THEN {} ELSE log.cell[i]]
    <2>1. log' = [log EXCEPT !.cell = cell, !.head = IF ok THEN 0 ELSE @]
      BY <1>2, <1>7 DEF LogState, eos_boot_log_clear
    <2>2. /\ log'.cell = cell /\ log'.head = (IF ok THEN 0 ELSE log.head)
          /\ log'.initialized /\ log.initialized
      BY <1>2, <2>1, <1>7 DEF LogState, eos_boot_log_clear
    <2>3. inStep' = (ok \/ (inStep /\ erased = {})) /\ appended' = appended
          /\ (ok => erased = Cells)
      BY <1>7 DEF eos_boot_log_clear
    <2>4. CASE ok
      <3>1. \A i \in Cells : log'.cell[i] = {}
        BY <2>2, <2>3, <2>4
      <3>2. NextHead' = 0 /\ 0 \in Cells
        BY <2>2, <2>4, LogAssumption DEF NextHead, Cells
      <3>3. RingFrom(NextHead)'
        <4>1. \A i \in Cells : (0 + i) % LogMax \in Cells
          BY <3>2, Places DEF Place
        <4> QED BY <3>1, <3>2, <4>1 DEF RingFrom, Place
      <3> QED BY <1>1, <2>3, <2>4, <3>1, <3>3 DEF RingInv
    <2>5. CASE ~ok /\ erased = {}
      <3>1. cell = log.cell
        BY <1>2, <2>5 DEF LogState
      <3>2. NextHead' = NextHead /\ inStep' = inStep
        BY <2>2, <2>3, <2>5, <1>1 DEF NextHead
      <3> QED BY <1>1, <2>2, <2>3, <3>1, <3>2, RingKept
    <2>6. CASE ~ok /\ erased # {}
      <3>1. inStep' = FALSE
        BY <2>3, <2>6
      <3>2. \A i \in Cells : \A k \in cell[i] : k \in log.cell[i]
        OBVIOUS
      <3>3. \A i \in Cells : \A k \in log'.cell[i] : k <= Len(appended')
        BY <2>2, <2>3, <3>2 DEF RingInv
      <3> QED BY <1>1, <3>1, <3>3 DEF RingInv
    <2> QED BY <2>4, <2>5, <2>6
  <1>8. CASE UNCHANGED logVars
    <2>1. NextHead' = NextHead /\ log' = log /\ appended' = appended /\ inStep' = inStep
      BY <1>8 DEF logVars, NextHead
    <2> QED BY <1>1, <2>1, RingKept
  <1> QED BY <1>3, <1>4, <1>5, <1>6, <1>7, <1>8 DEF LogNext

(* A set of numbers that is not empty has a least element.                 *)
LEMMA LeastNumber ==
    ASSUME NEW T \in SUBSET Nat, T # {}
    PROVE  \E x \in T : \A y \in T : x <= y
  <1> DEFINE R == OpToRel(<, Nat)
  <1>1. IsWellFoundedOn(R, Nat)
    BY NatLessThanWellFounded
  <1>2. \A x, y \in Nat : y < x => <<y, x>> \in R
    BY DEF OpToRel
  <1> HIDE DEF R
  <1>3. PICK x \in T : \A y \in T : ~ (<<y, x>> \in R)
    BY <1>1, WFMin
  <1>4. \A y \in T : x \in Nat /\ y \in Nat /\ ~(y < x)
    BY <1>2, <1>3, Zenon
  <1>5. \A y \in T : x <= y
    BY <1>4
  <1> QED BY <1>5

(* The loop of recovery_collect_boot_log_entries() over a ring in which    *)
(* every cell reads back as an event: the cells from the head on.          *)
LEMMA CollectedInOrder ==
    ASSUME RingInv, \A i \in Cells : EventRead(log.cell[i]) # {}
    PROVE  recovery_collect_boot_log_entries =
              [k \in 1..LogMax |-> log.cell[Place(log.head, k - 1)]]
  <1> DEFINE c(k) == log.cell[ReadIndex(k - 1, LogMax)]
             body(f) == [i \in 0..LogMax |->
                           IF i = 0 THEN <<>>
                           ELSE IF EventRead(c(i)) = {} THEN f[i - 1]
                                ELSE Append(f[i - 1], c(i))]
             g == [i \in 0..LogMax |-> [k \in 1..i |-> c(k)]]
             out == CHOOSE f : f = body(f)
  <1>1. LogMax \in Nat \ {0} /\ log.head \in Cells
    BY LogAssumption DEF RingInv, LogInv, LogState
  <1>2. Cardinality({i \in Cells : EventRead(log.cell[i]) # {}}) = LogMax
    <2>1. {i \in Cells : EventRead(log.cell[i]) # {}} = 0..LogMax - 1
      BY DEF Cells
    <2>2. Cardinality(0..LogMax - 1) = LogMax
      BY <1>1, FS_Interval
    <2> QED BY <2>1, <2>2
  <1>3. \A k \in 1..LogMax :
           c(k) = log.cell[Place(log.head, k - 1)] /\ EventRead(c(k)) # {}
    <2> SUFFICES ASSUME NEW k \in 1..LogMax
                 PROVE  c(k) = log.cell[Place(log.head, k - 1)] /\ EventRead(c(k)) # {}
      OBVIOUS
    <2>1. k - 1 \in Cells
      BY <1>1 DEF Cells
    <2>2. ReadIndex(k - 1, LogMax) = Place(log.head, k - 1)
      BY DEF ReadIndex, Place
    <2>3. Place(log.head, k - 1) \in Cells
      BY <1>1, <2>1, Places
    <2> QED BY <2>2, <2>3
  <1>4. recovery_collect_boot_log_entries = out[LogMax]
    BY <1>2 DEF recovery_collect_boot_log_entries
  <1> HIDE DEF c
  <1>5. g = body(g)
    <2>1. ASSUME NEW i \in 0..LogMax PROVE g[i] = body(g)[i]
      <3>1. CASE i = 0
        BY <3>1
      <3>2. CASE i # 0
        <4>1. i - 1 \in 0..LogMax /\ i \in 1..LogMax
          BY <3>2, <1>1
        <4>2. g[i - 1] = [k \in 1..i - 1 |-> c(k)]
          BY <4>1
        <4>3. Append(g[i - 1], c(i)) = [k \in 1..i |-> c(k)]
          BY <4>1, <4>2
        <4> QED BY <4>1, <4>3, <3>2, <1>3
      <3> QED BY <3>1, <3>2
    <2> QED BY <2>1, Zenon
  <1>6. out = body(out)
    <2> HIDE DEF g, body
    <2> QED BY <1>5
  <1>7. \A i \in 0..LogMax : out[i] = g[i]
    <2> DEFINE bad == {i \in 0..LogMax : out[i] # g[i]}
    <2> SUFFICES ASSUME bad # {} PROVE FALSE
      OBVIOUS
    <2>1. bad \in SUBSET Nat
      BY <1>1
    <2> HIDE DEF out, g
    <2>2. PICK i \in bad : \A j \in bad : i <= j
      <3> HIDE DEF bad
      <3> QED BY <2>1, LeastNumber
    <2>3. i \in 0..LogMax /\ out[i] = body(out)[i] /\ g[i] = body(g)[i]
      <3> HIDE DEF body
      <3> QED BY <2>2, <1>5, <1>6
    <2>4. i = 0 \/ (i - 1 \in 0..LogMax /\ out[i - 1] = g[i - 1])
      BY <1>1, <2>2
    <2>5. out[i] = g[i]
      BY <2>3, <2>4
    <2> QED BY <2>2, <2>5
  <1>8. out[LogMax] = [k \in 1..LogMax |-> c(k)]
    <2> HIDE DEF out
    <2> QED BY <1>1, <1>7
  <1> QED BY <1>3, <1>4, <1>8

LEMMA RingReadOut == RingInv => ReadOutInOrder
  <1> DEFINE out == recovery_collect_boot_log_entries
             written == {k \in DOMAIN out : out[k] # {}}
             cell == log.cell
             h == log.head
  <1> SUFFICES ASSUME RingInv, log.initialized, inStep,
                      \A i \in Cells : EventRead(cell[i]) # {}
               PROVE  /\ {out[k] : k \in written} = {cell[i] : i \in Cells} \ {{}}
                      /\ \A j, k \in written : j < k =>
                           \E n \in out[k] : \A m \in out[j] : m < n
    BY DEF ReadOutInOrder
  <1>1. h \in Cells /\ LogMax \in Nat \ {0}
    BY LogAssumption DEF RingInv, LogInv, LogState
  <1>2. out = [k \in 1..LogMax |-> cell[Place(h, k - 1)]]
    BY CollectedInOrder
  <1>3. RingFrom(h)
    BY DEF RingInv, NextHead
  <1> HIDE DEF out, h
  <1>4. \A k \in 1..LogMax : k - 1 \in Cells /\ Place(h, k - 1) \in Cells
    BY <1>1, Places DEF Cells
  <1>5. \A i \in Cells : \E k \in 1..LogMax : Place(h, k - 1) = i
    <2> SUFFICES ASSUME NEW i \in Cells PROVE \E k \in 1..LogMax : Place(h, k - 1) = i
      OBVIOUS
    <2> DEFINE k == IF h <= i THEN i - h + 1 ELSE i - h + LogMax + 1
    <2>1. /\ i \in Nat /\ h \in Nat /\ i < LogMax /\ h < LogMax
          /\ \A n \in Nat : n < LogMax => n % LogMax = n
          /\ \A n \in Nat : LogMax <= n /\ n < 2 * LogMax => n % LogMax = n - LogMax
      BY <1>1 DEF Cells
    <2>2. k \in 1..LogMax
      BY <1>1, <2>1
    <2>3. Place(h, k - 1) = i
      BY <1>1, <2>1 DEF Place
    <2> QED BY <2>2, <2>3
  <1>6. {out[k] : k \in written} = {cell[i] : i \in Cells} \ {{}}
    <2>1. DOMAIN out = 1..LogMax /\ \A k \in 1..LogMax : out[k] = cell[Place(h, k - 1)]
      BY <1>2
    <2>2. {out[k] : k \in written} \subseteq {cell[i] : i \in Cells} \ {{}}
      BY <2>1, <1>4
    <2>3. ASSUME NEW i \in Cells, cell[i] # {} PROVE cell[i] \in {out[k] : k \in written}
      <3>1. PICK k \in 1..LogMax : Place(h, k - 1) = i
        BY <1>5
      <3>2. k \in written /\ out[k] = cell[i]
        BY <3>1, <2>1, <2>3
      <3> QED BY <3>2
    <2> QED BY <2>2, <2>3
  <1>7. ASSUME NEW j \in written, NEW k \in written, j < k
        PROVE  \E n \in out[k] : \A m \in out[j] : m < n
    <2>1. /\ j \in 1..LogMax /\ k \in 1..LogMax /\ out[j] # {}
          /\ out[j] = cell[Place(h, j - 1)] /\ out[k] = cell[Place(h, k - 1)]
      BY <1>2
    <2>2. j - 1 \in Cells /\ k - 1 \in Cells /\ j - 1 < k - 1
      BY <1>1, <1>4, <1>7, <2>1
    <2> QED BY <1>3, <2>1, <2>2 DEF RingFrom
  <1> QED BY <1>6, <1>7

(* The ring stays in order.                                                *)
THEOREM RingInvariant == LogSpec => []RingInv
  BY RingInitInv, RingNextInv, PTL DEF LogSpec

(* recovery_collect_boot_log_entries(): while head and entries are in step *)
(* and no cell reads back as event 0, recovery reads out every written     *)
(* cell, in the order in which the cells were last written.                *)
THEOREM LogIsReadInOrder == LogSpec => []ReadOutInOrder
  BY RingInvariant, RingReadOut, PTL

-----------------------------------------------------------------------------
(* The runtime variables                                                   *)

VarEntries ==
    [name : VarNames \cup {NoName}, data : [1..MaxVarSize -> Bytes \cup {0}],
     size : 0..MaxVarSize]

UsedNames == {m \in VarNames : find_var(m) # {}}

(* No name occurs twice among the first n entries of an array.             *)
NoTwins(store, n) ==
    \A i, j \in 1..n : store[i].name = store[j].name => i = j

(* The array holds each name once, and as many names as entries are in     *)
(* use: the first makes a look-up have one answer, the second makes the    *)
(* limit of the array the limit of the map.                                *)
SvcInv ==
    /\ var_store \in [1..MaxVars -> VarEntries]
    /\ var_count \in 0..MaxVars
    /\ \A i \in 1..var_count : var_store[i].name \in VarNames
    /\ NoTwins(var_store, var_count)
    /\ IsFiniteSet(UsedNames) /\ Cardinality(UsedNames) = var_count

(* The value that an entry holds.                                          *)
Value(e) == [i \in 1..e.size |-> e.data[i]]

(* A name of the array is found at one place.                              *)
LEMMA OnePlace ==
    ASSUME NEW store, NEW n \in Nat, NoTwins(store, n), NEW i \in 1..n
    PROVE  LET found == {k \in 1..n : store[k].name = store[i].name}
           IN  /\ found = {i}
               /\ (CHOOSE k \in found : \A j \in found : k <= j) = i
  <1> DEFINE found == {k \in 1..n : store[k].name = store[i].name}
  <1>1. found = {i}
    BY DEF NoTwins
  <1> HIDE DEF found
  <1>2. (CHOOSE k \in found : \A j \in found : k <= j) = i
    <2>1. i \in found /\ \A j \in found : i <= j
      BY <1>1
    <2>2. \A k \in found : k = i
      BY <1>1
    <2> QED BY <2>1, <2>2
  <1> QED BY <1>1, <1>2 DEF found

(* eos_rtsvc_get_variable() returns what the one entry of a name holds.    *)
LEMMA LookUp ==
    ASSUME SvcInv, NEW i \in 1..var_count, NEW n, n = var_store[i].name
    PROVE  /\ n \in UsedNames /\ find_var(n) = {i}
           /\ eos_rtsvc_get_variable(n) = Value(var_store[i])
  <1>1. var_count \in Nat /\ NoTwins(var_store, var_count)
        /\ var_store[i].name \in VarNames
    BY ServicesAssumption DEF SvcInv
  <1>2. /\ find_var(n) = {i}
        /\ (CHOOSE k \in find_var(n) : \A j \in find_var(n) : k <= j) = i
    BY <1>1, OnePlace DEF find_var
  <1> QED BY <1>1, <1>2 DEF UsedNames, eos_rtsvc_get_variable, Value

(* The same of the state that a step leads to.                             *)
LEMMA LookUpNext ==
    ASSUME SvcInv', NEW i \in 1..var_count', NEW n, n = var_store'[i].name
    PROVE  /\ n \in UsedNames' /\ find_var(n)' = {i}
           /\ eos_rtsvc_get_variable(n)' = Value(var_store'[i])
  <1>1. var_count' \in Nat /\ NoTwins(var_store', var_count')
        /\ var_store'[i].name \in VarNames
    BY ServicesAssumption DEF SvcInv, NoTwins
  <1>2. /\ find_var(n)' = {i}
        /\ (CHOOSE k \in find_var(n)' : \A j \in find_var(n)' : k <= j) = i
    BY <1>1, OnePlace DEF find_var
  <1> QED BY <1>1, <1>2 DEF UsedNames, eos_rtsvc_get_variable, Value

(* A used name is the name of an entry.                                    *)
LEMMA NameHasEntry ==
    /\ \A m \in UsedNames : \E i \in 1..var_count : var_store[i].name = m
    /\ \A m \in UsedNames' : \E i \in 1..var_count' : var_store'[i].name = m
    BY DEF UsedNames, find_var

(* The names of an array are those of its entries in use.                  *)
LEMMA NamesOfEntries ==
    /\ (\A i \in 1..var_count : var_store[i].name \in VarNames)
          => UsedNames = {var_store[i].name : i \in 1..var_count}
    /\ (\A i \in 1..var_count' : var_store'[i].name \in VarNames)
          => UsedNames' = {var_store'[i].name : i \in 1..var_count'}
    BY DEF UsedNames, find_var

(* An entry that has not been used.                                        *)
LEMMA EmptyEntryType == EmptyEntry \in VarEntries
  <1>1. 0 \in 0..MaxVarSize
    BY ServicesAssumption
  <1>2. [i \in 1..MaxVarSize |-> 0] \in [1..MaxVarSize -> Bytes \cup {0}]
    OBVIOUS
  <1> QED BY <1>1, <1>2 DEF EmptyEntry, VarEntries

(* A stored value is the value given, whatever the buffer held before.     *)
LEMMA StoredEntry ==
    ASSUME NEW old \in VarEntries, NEW n \in VarNames, NEW v \in VarValues
    PROVE  /\ StoredValue(old, n, v) \in VarEntries
           /\ StoredValue(old, n, v).name = n
           /\ Value(StoredValue(old, n, v)) = v
  <1>1. PICK k \in 1..MaxVarSize : v \in [1..k -> Bytes]
    BY DEF VarValues
  <1>2. MaxVarSize \in Nat /\ k \in Nat /\ k <= MaxVarSize /\ 1 <= k
    BY ServicesAssumption
  <1>3. Len(v) = k
    BY <1>1, <1>2
  <1> DEFINE data == [i \in 1..MaxVarSize |-> IF i <= k THEN v[i] ELSE old.data[i]]
  <1>4. data \in [1..MaxVarSize -> Bytes \cup {0}]
    <2>1. old.data \in [1..MaxVarSize -> Bytes \cup {0}]
      BY DEF VarEntries
    <2> SUFFICES ASSUME NEW i \in 1..MaxVarSize
                 PROVE  (IF i <= k THEN v[i] ELSE old.data[i]) \in Bytes \cup {0}
      OBVIOUS
    <2>2. i <= k => i \in 1..k
      BY <1>2
    <2> QED BY <1>1, <2>1, <2>2
  <1>5. StoredValue(old, n, v) = [name |-> n, size |-> k, data |-> data]
    BY <1>3 DEF StoredValue
  <1>6. \A i \in 1..k : data[i] = v[i]
    BY <1>2
  <1> HIDE DEF data
  <1>7. k \in 0..MaxVarSize
    BY <1>2
  <1>8. StoredValue(old, n, v) \in VarEntries
    BY <1>4, <1>5, <1>7 DEF VarEntries
  <1>9. Value(StoredValue(old, n, v)) = [i \in 1..k |-> data[i]]
    BY <1>5 DEF Value
  <1>10. [i \in 1..k |-> data[i]] = v
    BY <1>1, <1>6
  <1> QED BY <1>5, <1>8, <1>9, <1>10

(* eos_rtsvc_set_variable(): it keeps the array in order, and what can be  *)
(* read afterwards is what could be read before, but for the name set.     *)
LEMMA SetStep ==
    ASSUME SvcInv, NEW n \in VarNames, NEW v \in VarValues,
           eos_rtsvc_set_variable(n, v)
    PROVE  /\ SvcInv'
           /\ n \in UsedNames \/ Cardinality(UsedNames) < MaxVars
           /\ UsedNames' = UsedNames \cup {n}
           /\ \A m \in UsedNames' : eos_rtsvc_get_variable(m)' =
                 IF m = n THEN v ELSE eos_rtsvc_get_variable(m)
  <1> DEFINE at == IF find_var(n) = {} THEN var_count + 1
                   ELSE CHOOSE i \in find_var(n) : TRUE
             e == StoredValue(var_store[at], n, v)
  <1>1. MaxVars \in Nat /\ var_count \in Nat /\ var_count <= MaxVars
    BY ServicesAssumption DEF SvcInv
  <1>2. \/ at = var_count + 1 /\ at <= MaxVars /\ n \notin UsedNames
        \/ at \in 1..var_count /\ n \in UsedNames /\ find_var(n) = {at}
    <2>1. CASE find_var(n) = {}
      BY <1>1, <2>1 DEF eos_rtsvc_set_variable, Room, UsedNames
    <2>2. CASE find_var(n) # {}
      <3>1. PICK i \in 1..var_count : var_store[i].name = n
        BY <2>2 DEF find_var
      <3>2. find_var(n) = {i}
        BY <3>1, LookUp
      <3>3. at = i
        BY <3>2
      <3> QED BY <2>2, <3>2, <3>3 DEF UsedNames
    <2> QED BY <2>1, <2>2
  <1>3. /\ var_store' = [var_store EXCEPT ![at] = e]
        /\ var_count' = IF at > var_count THEN at ELSE var_count
    <2>1. at \in 1..MaxVars
      BY <1>1, <1>2
    <2> QED BY <2>1 DEF eos_rtsvc_set_variable, SvcInv
  <1> HIDE DEF at
  <1>4. /\ at \in 1..MaxVars /\ at \in 1..var_count' /\ var_count' \in 0..MaxVars
        /\ \A i \in 1..var_count' : i # at => i \in 1..var_count
        /\ \A i \in 1..var_count : i \in 1..var_count' /\ i \in 1..MaxVars
    BY <1>1, <1>2, <1>3
  <1>5. e \in VarEntries /\ e.name = n /\ Value(e) = v
    BY <1>4, StoredEntry DEF SvcInv
  <1> HIDE DEF e
  <1>6. /\ var_store' \in [1..MaxVars -> VarEntries] /\ var_store'[at] = e
        /\ \A i \in 1..MaxVars : i # at => var_store'[i] = var_store[i]
    BY <1>3, <1>4, <1>5 DEF SvcInv
  <1>7. \A i \in 1..var_count : i # at => var_store[i].name # n
    BY <1>1, <1>2 DEF find_var, UsedNames
  <1>8. \A i \in 1..var_count' : var_store'[i].name \in VarNames
    BY <1>4, <1>5, <1>6 DEF SvcInv
  <1>9. NoTwins(var_store, var_count)' /\ NoTwins(var_store', var_count')
    <2>1. NoTwins(var_store', var_count')
      <3> SUFFICES ASSUME NEW i \in 1..var_count', NEW j \in 1..var_count',
                          var_store'[i].name = var_store'[j].name
                   PROVE  i = j
        BY DEF NoTwins
      <3>1. i \in 1..MaxVars /\ j \in 1..MaxVars
        BY <1>4
      <3> QED BY <3>1, <1>4, <1>5, <1>6, <1>7 DEF SvcInv, NoTwins
    <2> QED BY <2>1 DEF NoTwins
  <1>10. UsedNames' = UsedNames \cup {n}
    <2>1. /\ UsedNames = {var_store[i].name : i \in 1..var_count}
          /\ UsedNames' = {var_store'[i].name : i \in 1..var_count'}
      BY <1>8, NamesOfEntries DEF SvcInv
    <2>2. ASSUME NEW i \in 1..var_count, i = at PROVE var_store[i].name = n
      BY <1>1, <1>2, <2>2 DEF find_var
    <2> QED BY <1>4, <1>5, <1>6, <2>1, <2>2
  <1>11. IsFiniteSet(UsedNames') /\ Cardinality(UsedNames') = var_count'
    <2>1. IsFiniteSet(UsedNames) /\ Cardinality(UsedNames) = var_count
      BY DEF SvcInv
    <2>2. /\ IsFiniteSet(UsedNames \cup {n})
          /\ Cardinality(UsedNames \cup {n}) =
                IF n \in UsedNames THEN Cardinality(UsedNames)
                ELSE Cardinality(UsedNames) + 1
      BY <2>1, FS_AddElement
    <2>3. var_count' = IF n \in UsedNames THEN var_count ELSE var_count + 1
      BY <1>1, <1>2, <1>3
    <2> QED BY <1>10, <2>1, <2>2, <2>3
  <1>12. SvcInv'
    BY <1>4, <1>6, <1>8, <1>9, <1>11 DEF SvcInv
  <1>13. n \in UsedNames \/ Cardinality(UsedNames) < MaxVars
    BY <1>1, <1>2 DEF SvcInv
  <1>14. ASSUME NEW m \in UsedNames'
         PROVE  eos_rtsvc_get_variable(m)' =
                   IF m = n THEN v ELSE eos_rtsvc_get_variable(m)
    <2>1. PICK i \in 1..var_count' : var_store'[i].name = m
      BY NameHasEntry
    <2>2. eos_rtsvc_get_variable(m)' = Value(var_store'[i])
      BY <1>12, <2>1, LookUpNext
    <2>3. CASE i = at
      BY <1>5, <1>6, <2>1, <2>2, <2>3
    <2>4. CASE i # at
      <3>1. i \in 1..var_count /\ i \in 1..MaxVars
        BY <1>4, <2>4
      <3>2. var_store'[i] = var_store[i] /\ m # n
        BY <1>6, <1>7, <2>1, <2>4, <3>1
      <3>3. eos_rtsvc_get_variable(m) = Value(var_store[i])
        BY <2>1, <3>1, <3>2, LookUp
      <3> QED BY <2>2, <3>2, <3>3
    <2> QED BY <2>3, <2>4
  <1> QED BY <1>10, <1>12, <1>13, <1>14

(* eos_rtsvc_delete_variable(): shifting the entries down loses the name   *)
(* deleted and no other.                                                   *)
LEMMA DeleteStep ==
    ASSUME SvcInv, NEW n \in VarNames, eos_rtsvc_delete_variable(n)
    PROVE  /\ SvcInv'
           /\ n \in UsedNames
           /\ UsedNames' = UsedNames \ {n}
           /\ \A m \in UsedNames' :
                 eos_rtsvc_get_variable(m)' = eos_rtsvc_get_variable(m)
  <1>1. PICK at \in find_var(n) : var_store' = Shifted(at) /\ var_count' = var_count - 1
    BY DEF eos_rtsvc_delete_variable
  <1>2. MaxVars \in Nat /\ var_count \in Nat /\ var_count <= MaxVars
        /\ at \in 1..var_count /\ var_store[at].name = n
    BY <1>1, ServicesAssumption DEF SvcInv, find_var
  <1> DEFINE From(i) == IF i < at THEN i ELSE i + 1
  <1>3. /\ var_count' \in 0..MaxVars /\ var_count' \in Nat
        /\ \A i \in 1..var_count' : i \in 1..MaxVars /\ From(i) \in 1..var_count
                                    /\ From(i) # at
        /\ \A i, j \in 1..var_count' : From(i) = From(j) => i = j
    BY <1>1, <1>2
  <1>4. \A k \in 1..var_count : k # at => \E i \in 1..var_count' : From(i) = k
    <2> SUFFICES ASSUME NEW k \in 1..var_count, k # at
                 PROVE  \E i \in 1..var_count' : From(i) = k
      OBVIOUS
    <2>1. CASE k < at
      BY <1>1, <1>2, <2>1
    <2>2. CASE k > at
      <3>1. k - 1 \in 1..var_count' /\ From(k - 1) = k
        BY <1>1, <1>2, <2>2
      <3> QED BY <3>1
    <2> QED BY <1>2, <2>1, <2>2
  <1>5. \A i \in 1..var_count' : var_store'[i] = var_store[From(i)]
    BY <1>1, <1>2 DEF Shifted
  <1>6. var_store' \in [1..MaxVars -> VarEntries]
    BY <1>1, <1>2, EmptyEntryType DEF Shifted, SvcInv
  <1> HIDE DEF From
  <1>7. \A i \in 1..var_count' : var_store'[i].name \in VarNames
    BY <1>3, <1>5 DEF SvcInv
  <1>8. NoTwins(var_store', var_count')
    BY <1>3, <1>5 DEF SvcInv, NoTwins
  <1>9. n \in UsedNames
    BY <1>1 DEF UsedNames
  <1>10. UsedNames' = UsedNames \ {n}
    <2>1. /\ UsedNames = {var_store[i].name : i \in 1..var_count}
          /\ UsedNames' = {var_store'[i].name : i \in 1..var_count'}
      BY <1>7, NamesOfEntries DEF SvcInv
    <2>2. \A i \in 1..var_count : i # at => var_store[i].name # n
      BY <1>2 DEF SvcInv, NoTwins
    <2>3. ASSUME NEW m \in UsedNames' PROVE m \in UsedNames \ {n}
      BY <1>3, <1>5, <2>1, <2>2
    <2>4. ASSUME NEW m \in UsedNames, m # n PROVE m \in UsedNames'
      <3>1. PICK k \in 1..var_count : var_store[k].name = m
        BY <2>1
      <3>2. PICK i \in 1..var_count' : From(i) = k
        BY <1>2, <1>4, <2>4, <3>1
      <3> QED BY <1>5, <2>1, <3>1, <3>2
    <2> QED BY <2>3, <2>4
  <1>11. IsFiniteSet(UsedNames') /\ Cardinality(UsedNames') = var_count'
    <2>1. IsFiniteSet(UsedNames) /\ Cardinality(UsedNames) = var_count
      BY DEF SvcInv
    <2>2. /\ IsFiniteSet(UsedNames \ {n})
          /\ Cardinality(UsedNames \ {n}) =
                IF n \in UsedNames THEN Cardinality(UsedNames) - 1
                ELSE Cardinality(UsedNames)
      BY <2>1, FS_RemoveElement
    <2> QED BY <1>1, <1>9, <1>10, <2>1, <2>2
  <1>12. SvcInv'
    BY <1>3, <1>6, <1>7, <1>8, <1>11 DEF SvcInv, NoTwins
  <1>13. ASSUME NEW m \in UsedNames'
         PROVE  eos_rtsvc_get_variable(m)' = eos_rtsvc_get_variable(m)
    <2>1. PICK i \in 1..var_count' : var_store'[i].name = m
      BY NameHasEntry
    <2>2. eos_rtsvc_get_variable(m)' = Value(var_store'[i])
      BY <1>12, <2>1, LookUpNext
    <2>3. eos_rtsvc_get_variable(m) = Value(var_store[From(i)])
      BY <1>3, <1>5, <2>1, LookUp
    <2> QED BY <1>5, <2>2, <2>3
  <1> QED BY <1>9, <1>10, <1>12, <1>13

(* eos_rtsvc_init() leaves an array without names.                         *)
LEMMA ClearedStore ==
    /\ (var_store = Cleared /\ var_count = 0) => SvcInv /\ UsedNames = {}
    /\ (var_store = Cleared /\ var_count = 0)' => SvcInv' /\ UsedNames' = {}
  <1>1. Cleared \in [1..MaxVars -> VarEntries]
    BY EmptyEntryType DEF Cleared
  <1>2. 0 \in 0..MaxVars /\ 1..0 = {}
    BY ServicesAssumption
  <1>3. IsFiniteSet({}) /\ Cardinality({}) = 0
    BY FS_EmptySet
  <1>4. ASSUME var_store = Cleared, var_count = 0 PROVE SvcInv /\ UsedNames = {}
    <2>1. UsedNames = {}
      BY <1>2, <1>4 DEF UsedNames, find_var
    <2> QED BY <1>1, <1>2, <1>3, <1>4, <2>1 DEF SvcInv, NoTwins
  <1>5. ASSUME var_store' = Cleared, var_count' = 0 PROVE SvcInv' /\ UsedNames' = {}
    <2>1. UsedNames' = {}
      BY <1>2, <1>5 DEF UsedNames, find_var
    <2> QED BY <1>1, <1>2, <1>3, <1>5, <2>1 DEF SvcInv, NoTwins
  <1> QED BY <1>4, <1>5

(* Steps that leave the array alone.                                       *)
LEMMA SameStore ==
    ASSUME SvcInv, UNCHANGED <<var_store, var_count>>
    PROVE  /\ SvcInv' /\ UsedNames' = UsedNames
           /\ \A m : eos_rtsvc_get_variable(m)' = eos_rtsvc_get_variable(m)
    BY DEF SvcInv, NoTwins, UsedNames, find_var, eos_rtsvc_get_variable

(* Every operation keeps the array in order.                               *)
LEMMA SvcNextInv == SvcInv /\ [SvcNext]_svcVars => SvcInv'
  <1> SUFFICES ASSUME SvcInv, [SvcNext]_svcVars PROVE SvcInv'
    OBVIOUS
  <1>1. CASE eos_rtsvc_init
    BY <1>1, ClearedStore DEF eos_rtsvc_init
  <1>2. ASSUME NEW n \in VarNames, NEW v \in VarValues, eos_rtsvc_set_variable(n, v)
        PROVE  SvcInv'
    BY <1>2, SetStep
  <1>3. ASSUME NEW n \in VarNames, eos_rtsvc_delete_variable(n)
        PROVE  SvcInv'
    BY <1>3, DeleteStep
  <1>4. ASSUME NEW slot \in BootSlots, eos_rtsvc_set_next_boot(slot)
        PROVE  SvcInv'
    BY <1>4, SameStore DEF eos_rtsvc_set_next_boot
  <1>5. CASE UNCHANGED svcVars
    BY <1>5, SameStore DEF svcVars
  <1> QED BY <1>1, <1>2, <1>3, <1>4, <1>5 DEF SvcNext

(* The invariant of the array of variables.                                *)
THEOREM StoreInvariant == SvcSpec => []SvcInv
  <1>1. SvcInit => SvcInv
    BY ClearedStore DEF SvcInit
  <1> QED BY <1>1, SvcNextInv, PTL DEF SvcSpec

(* What the array stands for.                                              *)
MapOf == [n \in UsedNames |-> eos_rtsvc_get_variable(n)]

(* The runtime variables are the map with a limit that VarMap describes:   *)
(* setting, deleting and clearing act on the array as on the map, and a    *)
(* new name is taken only while fewer than MaxVars names are in use.       *)
THEOREM StoreImplementsMap == SvcSpec => StoreIsMap
  <1> DEFINE MapNext == \/ Map!Clear
                        \/ \E n \in VarNames, v \in VarValues : Map!Put(n, v)
                        \/ \E n \in VarNames : Map!Remove(n)
  <1>1. Map!Clear <=> (MapOf' = Map!Empty /\ svcOp' = <<"init">>)
    BY Zenon DEF Map!Clear, MapOf, UsedNames
  <1>2. ASSUME NEW S PROVE Map!Cardinality(S) = Cardinality(S)
    BY Zenon DEF Map!Cardinality, Cardinality
  <1>3. ASSUME NEW n, NEW v
        PROVE  Map!Put(n, v) <=>
              /\ n \in DOMAIN MapOf \/ Cardinality(DOMAIN MapOf) < MaxVars
              /\ MapOf' = [m \in DOMAIN MapOf \cup {n} |-> IF m = n THEN v ELSE MapOf[m]]
              /\ svcOp' = <<"set", n, v>>
    BY <1>2, Zenon DEF Map!Put, MapOf, UsedNames
  <1>4. ASSUME NEW n
        PROVE  Map!Remove(n) <=>
              /\ n \in DOMAIN MapOf
              /\ MapOf' = [m \in DOMAIN MapOf \ {n} |-> MapOf[m]]
              /\ svcOp' = <<"delete", n>>
    BY Zenon DEF Map!Remove, MapOf, UsedNames
  <1>5. DOMAIN MapOf = UsedNames
    BY DEF MapOf
  <1>6. SvcInit => MapOf = Map!Empty /\ svcOp = <<"init">>
    BY ClearedStore DEF SvcInit, MapOf, Map!Empty
  <1>7. SvcInv /\ [SvcNext]_svcVars => MapNext \/ UNCHANGED <<MapOf, svcOp>>
    <2> SUFFICES ASSUME SvcInv, [SvcNext]_svcVars
                 PROVE  MapNext \/ UNCHANGED <<MapOf, svcOp>>
      OBVIOUS
    <2>1. CASE eos_rtsvc_init
      <3>1. UsedNames' = {}
        BY <2>1, ClearedStore DEF eos_rtsvc_init
      <3>2. MapOf' = Map!Empty
        BY <3>1 DEF MapOf, Map!Empty
      <3> QED BY <1>1, <2>1, <3>2 DEF eos_rtsvc_init
    <2>2. ASSUME NEW n \in VarNames, NEW v \in VarValues, eos_rtsvc_set_variable(n, v)
          PROVE  Map!Put(n, v)
      <3>1. /\ n \in UsedNames \/ Cardinality(UsedNames) < MaxVars
            /\ UsedNames' = UsedNames \cup {n}
            /\ \A m \in UsedNames' : eos_rtsvc_get_variable(m)' =
                  IF m = n THEN v ELSE eos_rtsvc_get_variable(m)
        BY <2>2, SetStep
      <3>2. MapOf' = [m \in UsedNames \cup {n} |-> IF m = n THEN v ELSE MapOf[m]]
        BY <3>1 DEF MapOf
      <3> QED BY <1>3, <1>5, <2>2, <3>1, <3>2 DEF eos_rtsvc_set_variable
    <2>3. ASSUME NEW n \in VarNames, eos_rtsvc_delete_variable(n)
          PROVE  Map!Remove(n)
      <3>1. /\ n \in UsedNames /\ UsedNames' = UsedNames \ {n}
            /\ \A m \in UsedNames' :
                  eos_rtsvc_get_variable(m)' = eos_rtsvc_get_variable(m)
        BY <2>3, DeleteStep
      <3>2. MapOf' = [m \in UsedNames \ {n} |-> MapOf[m]]
        BY <3>1 DEF MapOf
      <3> QED BY <1>4, <1>5, <2>3, <3>1, <3>2 DEF eos_rtsvc_delete_variable
    <2>4. ASSUME UNCHANGED <<var_store, var_count, svcOp>>
          PROVE  UNCHANGED <<MapOf, svcOp>>
      BY <2>4, SameStore DEF MapOf
    <2> QED BY <2>1, <2>2, <2>3, <2>4 DEF SvcNext, eos_rtsvc_set_next_boot, svcVars
  <1> QED BY StoreInvariant, <1>6, <1>7, PTL
          DEF SvcSpec, StoreIsMap, Map!Spec, MapOf, UsedNames

=============================================================================
