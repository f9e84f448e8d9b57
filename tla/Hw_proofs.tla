----------------------------- MODULE Hw_proofs ------------------------------
(***************************************************************************)
(* Proofs about the description of the hardware: the look-up in a device   *)
(* tree, for any tree and path, the device table that the operating system *)
(* is given, for every port of the repository and any limits, the flash    *)
(* regions of those ports, and what the memory protection unit covers.     *)
(***************************************************************************)
EXTENDS Fdt, Boards, Mpu, WellFoundedInduction, TLAPS

-----------------------------------------------------------------------------
(* The device tree                                                         *)

Results == {"called", "walking", "value", "too long", "not found", "bad blob"}

WalkType ==
    /\ walk \in [path : NodePaths, depth : Nat, matched : Nat, in_target : BOOLEAN,
                 target_depth : Int]
    /\ open \in Seq(NodeNames) /\ found \in Results
    /\ Len(open) = IF walk.depth = 0 THEN 0 ELSE walk.depth - 1

Agree(nodes, path, i) == fdt_name_matches(nodes[i], path[i])

(* The counter is the length of the longest prefix of the path that the    *)
(* open nodes match: what a stack of open nodes would have told.           *)
MatchedPrefix ==
    /\ walk.matched <= Len(open) /\ walk.matched <= ncomp
    /\ \A i \in 1..walk.matched : Agree(open, walk.path, i)
    /\ (walk.matched < Len(open) /\ walk.matched < ncomp) =>
          ~Agree(open, walk.path, walk.matched + 1)

(* The target is open exactly while the whole path is matched by open      *)
(* nodes and the node below the last of them has been entered.             *)
TargetOpen ==
    /\ walk.in_target => walk.target_depth = ncomp + 1
    /\ walk.in_target <=> (walk.matched = ncomp /\ walk.depth >= ncomp + 1)

FdtInv == WalkType /\ MatchedPrefix /\ TargetOpen /\ skipped = FALSE /\ PropOfNodeAsked

(* The number of components of a path.                                     *)
LEMMA PathLength == walk.path \in NodePaths => ncomp \in Nat
    BY FdtAssumption DEF ncomp

(* Before the walk.                                                        *)
LEMMA FdtInitInv == FdtInit => FdtInv
  <1> SUFFICES ASSUME FdtInit PROVE FdtInv
    OBVIOUS
  <1>1. /\ walk \in [path : NodePaths, depth : Nat, matched : Nat, in_target : BOOLEAN,
                     target_depth : Int]
        /\ walk.path \in NodePaths /\ walk.depth = 0 /\ walk.matched = 0
        /\ ~walk.in_target
    <2>1. walk \in [path : NodePaths, depth : {0}, matched : {0}, in_target : {FALSE},
                    target_depth : {-1}]
      BY Zenon DEF FdtInit
    <2>2. PICK path \in NodePaths :
             walk = [path |-> path, depth |-> 0, matched |-> 0, in_target |-> FALSE,
                     target_depth |-> -1]
      BY <2>1
    <2>3. -1 \in Int
      OBVIOUS
    <2> QED BY <2>2, <2>3
  <1>2. found = "called" /\ open = <<>> /\ skipped = FALSE
    BY Zenon DEF FdtInit
  <1>3. <<>> \in Seq(NodeNames) /\ Len(<<>>) = 0
    OBVIOUS
  <1>4. WalkType
    BY <1>1, <1>2, <1>3 DEF WalkType, Results
  <1>5. ncomp \in Nat
    BY <1>1, PathLength
  <1>6. MatchedPrefix
    BY <1>1, <1>2, <1>3, <1>5 DEF MatchedPrefix
  <1>7. TargetOpen
    BY <1>1, <1>5 DEF TargetOpen
  <1> QED BY <1>2, <1>4, <1>6, <1>7 DEF FdtInv, PropOfNodeAsked

(* In the target at its own depth: the node is the one that was asked for, *)
(* and nowhere else.                                                       *)
LEMMA TargetIsPath ==
    ASSUME WalkType, MatchedPrefix, TargetOpen
    PROVE  (walk.in_target /\ walk.depth = walk.target_depth) <=> AtPath
  <1>1. ncomp \in Nat /\ walk.depth \in Nat /\ walk.matched \in Nat
        /\ walk.in_target \in BOOLEAN
    BY PathLength DEF WalkType
  <1>2. ASSUME AtPath PROVE walk.matched = ncomp
    <2>1. walk.depth = ncomp + 1 /\ Len(open) = ncomp
      BY <1>1, <1>2 DEF AtPath, WalkType
    <2>2. walk.matched < ncomp => walk.matched + 1 \in 1..ncomp
      BY <1>1
    <2> QED BY <1>1, <1>2, <2>1, <2>2 DEF AtPath, MatchedPrefix, Agree
  <1>3. ASSUME walk.matched = ncomp, walk.depth = ncomp + 1 PROVE AtPath
    BY <1>3 DEF AtPath, MatchedPrefix, Agree
  <1>4. AtPath => walk.depth = ncomp + 1
    BY DEF AtPath
  <1> QED BY <1>1, <1>2, <1>3, <1>4 DEF TargetOpen

(* FDT_BEGIN_NODE.                                                         *)
LEMMA BeginKeeps ==
    ASSUME FdtInv, NEW name \in NodeNames, BeginNode(name)
    PROVE  FdtInv'
  <1> DEFINE d == walk.depth + 1
             m == MatchedBy(d, name)
             enter == ~walk.in_target /\ d = ncomp + 1 /\ m = ncomp
             inside == walk.in_target \/ enter
             target == IF enter THEN d ELSE walk.target_depth
  <1>1. ncomp \in Nat /\ walk.depth \in Nat /\ walk.matched \in Nat
        /\ walk.in_target \in BOOLEAN /\ walk.target_depth \in Int
        /\ open \in Seq(NodeNames) /\ walk.path \in NodePaths
    BY PathLength DEF FdtInv, WalkType
  <1>2. m \in Nat /\ d \in Nat /\ inside \in BOOLEAN /\ target \in Int
    BY <1>1 DEF MatchedBy
  <1>3. /\ walk' = [walk EXCEPT !.depth = d, !.matched = m,
                                      !.in_target = inside, !.target_depth = target]
        /\ open' = IF d = 1 THEN open ELSE Append(open, name)
        /\ found' = found /\ skipped' = skipped /\ found = "walking"
    BY DEF BeginNode, FdtInv, WalkType
  <1> HIDE DEF m, d, enter, inside, target
  <1>4. /\ walk' \in [path : NodePaths, depth : Nat, matched : Nat, in_target : BOOLEAN,
                      target_depth : Int]
        /\ walk'.path = walk.path /\ walk'.depth = d /\ walk'.matched = m
        /\ walk'.in_target = inside /\ walk'.target_depth = target
    BY <1>1, <1>2, <1>3 DEF FdtInv, WalkType
  <1>5. ncomp' = ncomp
    BY <1>4 DEF ncomp
  <1>6. /\ open' \in Seq(NodeNames) /\ Len(open') = d - 1
        /\ \A i \in 1..Len(open) : open'[i] = open[i]
        /\ d # 1 => open'[Len(open) + 1] = name
        /\ d # 1 => Len(open) = d - 2
        /\ d = 1 => Len(open) = 0
    BY <1>1, <1>3 DEF FdtInv, WalkType, d
  <1>7. WalkType'
    BY <1>2, <1>3, <1>4, <1>6 DEF WalkType, FdtInv, d
  <1>8. \A i \in 1..Len(open) : Agree(open', walk.path, i) <=> Agree(open, walk.path, i)
    BY <1>4, <1>6 DEF Agree, fdt_name_matches
  <1>9. d # 1 => (Agree(open', walk.path, Len(open) + 1)
                     <=> fdt_name_matches(name, walk.path[d - 1]))
    <2>1. ASSUME d # 1 PROVE Len(open) + 1 = d - 1
      BY <1>2, <1>6, <2>1
    <2> QED BY <1>4, <1>6, <2>1 DEF Agree, fdt_name_matches
  <1>10. m = IF /\ d # 1 /\ walk.matched = Len(open) /\ Len(open) < ncomp
                /\ Agree(open', walk.path, Len(open) + 1)
             THEN Len(open) + 1 ELSE walk.matched
    <2>1. CASE d = 1
      BY <2>1, <1>1 DEF m, MatchedBy
    <2>2. CASE d # 1
      <3>1. d >= 2 /\ d - 2 = Len(open) /\ d - 1 = Len(open) + 1
        BY <1>1, <1>2, <1>6, <2>2 DEF d
      <3>2. m = IF /\ walk.matched = Len(open) /\ Len(open) < ncomp
                   /\ fdt_name_matches(name, walk.path[d - 1])
                THEN Len(open) + 1 ELSE walk.matched
        BY <3>1, Zenon DEF m, MatchedBy
      <3> QED BY <1>9, <2>2, <3>2, Zenon
    <2> QED BY <2>1, <2>2
  <1>11. MatchedPrefix /\ Len(open) \in Nat /\ Len(open') \in Nat
         /\ Len(open') = (IF d = 1 THEN 0 ELSE Len(open) + 1) /\ (d = 1 => Len(open) = 0)
    BY <1>1, <1>2, <1>6 DEF FdtInv
  <1>12. walk.matched <= Len(open) /\ walk.matched <= ncomp
    BY <1>11 DEF MatchedPrefix
  <1>13. MatchedPrefix'
    <2>1. m <= Len(open') /\ m <= ncomp
      BY <1>1, <1>10, <1>11, <1>12
    <2>2. \A i \in 1..m : Agree(open', walk.path, i)
      <3> SUFFICES ASSUME NEW i \in 1..m PROVE Agree(open', walk.path, i)
        OBVIOUS
      <3>1. CASE i \in 1..walk.matched
        <4>1. i \in 1..Len(open) /\ Agree(open, walk.path, i)
          BY <1>1, <1>11, <3>1 DEF MatchedPrefix
        <4> QED BY <1>8, <4>1
      <3>2. CASE i \notin 1..walk.matched
        <4>1. i = Len(open) + 1 /\ Agree(open', walk.path, Len(open) + 1)
          BY <1>1, <1>10, <1>11, <1>12, <3>2
        <4> QED BY <4>1
      <3> QED BY <3>1, <3>2
    <2>3. ASSUME m < Len(open'), m < ncomp PROVE ~Agree(open', walk.path, m + 1)
      <3>1. m = walk.matched /\ d # 1
        BY <1>1, <1>10, <1>11, <1>12, <2>3
      <3>2. CASE walk.matched < Len(open)
        <4>1. /\ walk.matched + 1 \in 1..Len(open)
              /\ ~Agree(open, walk.path, walk.matched + 1)
          BY <1>1, <1>11, <2>3, <3>1, <3>2 DEF MatchedPrefix
        <4> QED BY <1>8, <3>1, <4>1
      <3>3. CASE walk.matched = Len(open)
        BY <1>1, <1>10, <1>11, <2>3, <3>1, <3>3
      <3> QED BY <1>1, <1>11, <1>12, <3>2, <3>3
    <2> QED BY <1>4, <1>5, <2>1, <2>2, <2>3 DEF MatchedPrefix
  <1>14. TargetOpen'
    <2>1. TargetOpen /\ MatchedPrefix
      BY DEF FdtInv
    <2>2. Len(open) = IF walk.depth = 0 THEN 0 ELSE walk.depth - 1
      BY DEF FdtInv, WalkType
    <2>3. walk'.in_target => walk'.target_depth = ncomp + 1
      BY <1>1, <1>4, <2>1 DEF TargetOpen, inside, target, enter
    <2>4. inside <=> (m = ncomp /\ d >= ncomp + 1)
      BY <1>1, <1>10, <1>11, <1>12, <2>1, <2>2 DEF TargetOpen, inside, enter, d
    <2> QED BY <1>4, <1>5, <2>3, <2>4 DEF TargetOpen
  <1> QED BY <1>3, <1>7, <1>13, <1>14 DEF FdtInv, PropOfNodeAsked

(* FDT_END_NODE.                                                           *)
LEMMA EndKeeps ==
    ASSUME FdtInv, EndNode
    PROVE  FdtInv'
  <1>1. ncomp \in Nat /\ walk.depth \in Nat /\ walk.matched \in Nat
        /\ walk.in_target \in BOOLEAN /\ walk.target_depth \in Int
        /\ open \in Seq(NodeNames) /\ walk.path \in NodePaths
    BY PathLength DEF FdtInv, WalkType
  <1>2. CASE walk.depth = 0
    <2>1. found' = "bad blob" /\ UNCHANGED <<walk, open, skipped>>
      <3>1. ~(walk.depth > 0)
        BY <1>2
      <3> QED BY <3>1, Zenon DEF EndNode
    <2> QED BY <2>1 DEF FdtInv, WalkType, MatchedPrefix, TargetOpen, PropOfNodeAsked,
                        ncomp, Agree, Results, fdt_name_matches
  <1>3. CASE walk.depth # 0
    <2> DEFINE d == walk.depth
               m == Unmatched(d)
               inside == walk.in_target /\ d # walk.target_depth
    <2>1. m \in Nat /\ d \in Nat /\ d > 0 /\ inside \in BOOLEAN /\ d - 1 \in Nat
      BY <1>1, <1>3 DEF Unmatched
    <2>2. /\ walk' = [walk EXCEPT !.depth = d - 1, !.matched = m, !.in_target = inside]
          /\ open' = IF open = <<>> THEN open ELSE SubSeq(open, 1, Len(open) - 1)
          /\ found' = found /\ skipped' = skipped /\ found = "walking"
      BY <1>3 DEF EndNode, FdtInv, WalkType
    <2>3. m = IF walk.matched >= d - 1 /\ d >= 2 THEN d - 2 ELSE walk.matched
      BY DEF Unmatched
    <2>4. inside <=> walk.in_target /\ d # walk.target_depth
      OBVIOUS
    <2> HIDE DEF m, inside
    <2>5. /\ walk' \in [path : NodePaths, depth : Nat, matched : Nat, in_target : BOOLEAN,
                        target_depth : Int]
          /\ walk'.path = walk.path /\ walk'.depth = d - 1 /\ walk'.matched = m
          /\ walk'.in_target = inside /\ walk'.target_depth = walk.target_depth
      BY <2>1, <2>2 DEF FdtInv, WalkType
    <2>6. ncomp' = ncomp
      BY <2>5 DEF ncomp
    <2>7. Len(open) = d - 1
      BY <1>3 DEF FdtInv, WalkType
    <2>8. /\ open' \in Seq(NodeNames) /\ Len(open') = IF d = 1 THEN 0 ELSE d - 2
          /\ \A i \in 1..Len(open') : open'[i] = open[i] /\ i \in 1..Len(open)
      <3>1. CASE d = 1
        <4>1. open = <<>>
          BY <1>1, <2>7, <3>1
        <4> QED BY <1>1, <2>2, <3>1, <4>1
      <3>2. CASE d # 1
        <4>1. open # <<>> /\ Len(open) - 1 = d - 2 /\ d - 2 \in 0..Len(open)
          BY <1>1, <2>1, <2>7, <3>2
        <4>2. open' = SubSeq(open, 1, d - 2)
          BY <2>2, <4>1
        <4> HIDE DEF d
        <4> QED BY <1>1, <3>2, <4>1, <4>2
      <3> QED BY <3>1, <3>2
    <2>9. WalkType'
      BY <2>1, <2>2, <2>5, <2>8 DEF WalkType, FdtInv
    <2>10. /\ walk.matched <= Len(open) /\ walk.matched <= ncomp
           /\ \A i \in 1..walk.matched : Agree(open, walk.path, i)
           /\ (walk.matched < Len(open) /\ walk.matched < ncomp) =>
                 ~Agree(open, walk.path, walk.matched + 1)
      BY DEF FdtInv, MatchedPrefix
    <2>11. \A i \in 1..Len(open') : Agree(open', walk.path, i) <=> Agree(open, walk.path, i)
      BY <2>8 DEF Agree, fdt_name_matches
    <2> HIDE DEF d
    <2>12. MatchedPrefix'
      <3>1. m <= Len(open') /\ m <= ncomp /\ m <= walk.matched
        BY <1>1, <2>1, <2>3, <2>7, <2>8, <2>10
      <3>2. \A i \in 1..m : Agree(open', walk.path, i)
        <4> SUFFICES ASSUME NEW i \in 1..m PROVE Agree(open', walk.path, i)
          OBVIOUS
        <4>1. i \in 1..walk.matched /\ i \in 1..Len(open')
          BY <1>1, <2>1, <2>8, <3>1
        <4> QED BY <2>10, <2>11, <4>1
      <3>3. ASSUME m < Len(open'), m < ncomp PROVE ~Agree(open', walk.path, m + 1)
        <4>1. m = walk.matched /\ m + 1 \in 1..Len(open') /\ walk.matched < Len(open)
          BY <1>1, <2>1, <2>3, <2>7, <2>8, <3>3
        <4> QED BY <2>10, <2>11, <3>3, <4>1
      <3> QED BY <2>5, <2>6, <3>1, <3>2, <3>3 DEF MatchedPrefix
    <2>13. TargetOpen'
      <3>1. /\ walk.in_target => walk.target_depth = ncomp + 1
            /\ walk.in_target <=> (walk.matched = ncomp /\ d >= ncomp + 1)
        BY DEF FdtInv, TargetOpen, d
      <3>2. inside => walk.target_depth = ncomp + 1
        BY <2>4, <3>1
      <3>3. inside <=> (m = ncomp /\ d - 1 >= ncomp + 1)
        BY <1>1, <2>1, <2>3, <2>4, <2>7, <2>10, <3>1
      <3> QED BY <2>5, <2>6, <3>2, <3>3 DEF TargetOpen
    <2> QED BY <2>2, <2>9, <2>12, <2>13 DEF FdtInv, PropOfNodeAsked
  <1> QED BY <1>2, <1>3

(* Every token keeps the invariant, balanced or not.                       *)
LEMMA FdtNextInv == FdtInv /\ [FdtNext]_fdtVars => FdtInv'
  <1> SUFFICES ASSUME FdtInv, [FdtNext]_fdtVars PROVE FdtInv'
    OBVIOUS
  <1>1. ASSUME UNCHANGED <<walk, open, skipped>>, found' \in Results,
               found' \in {"value", "too long"} => AtPath
        PROVE  FdtInv'
    <2>1. WalkType' /\ MatchedPrefix' /\ TargetOpen' /\ skipped' = FALSE
      BY <1>1 DEF FdtInv, WalkType, MatchedPrefix, TargetOpen, ncomp, Agree, fdt_name_matches
    <2>2. AtPath' <=> AtPath
      BY <1>1 DEF AtPath, ncomp, fdt_name_matches
    <2> QED BY <1>1, <2>1, <2>2 DEF FdtInv, PropOfNodeAsked
  <1>2. CASE eos_fdt_validate
    BY <1>1, <1>2 DEF eos_fdt_validate, Results
  <1>3. ASSUME NEW name \in NodeNames, BeginNode(name) PROVE FdtInv'
    BY <1>3, BeginKeeps
  <1>4. CASE EndNode
    BY <1>4, EndKeeps
  <1>5. CASE WantedProp
    <2>1. (walk.in_target /\ walk.depth = walk.target_depth) <=> AtPath
      BY TargetIsPath DEF FdtInv
    <2>2. CASE AtPath
      BY <1>1, <1>5, <2>1, <2>2 DEF WantedProp, Results
    <2>3. CASE ~AtPath
      <3>1. skipped' = (skipped \/ AtPath) /\ UNCHANGED <<walk, open, found>>
        BY <1>5, <2>1, <2>3 DEF WantedProp
      <3>2. skipped' = skipped
        BY <2>3, <3>1 DEF FdtInv, WantedProp
      <3> QED BY <1>1, <1>5, <2>3, <3>1, <3>2 DEF FdtInv, WalkType, WantedProp
    <2> QED BY <2>2, <2>3
  <1>6. CASE End
    BY <1>1, <1>6 DEF End, Results
  <1>7. CASE BadToken
    BY <1>1, <1>7 DEF BadToken, Results
  <1>8. CASE UNCHANGED fdtVars
    BY <1>1, <1>8 DEF fdtVars, FdtInv, WalkType, PropOfNodeAsked
  <1> QED BY <1>2, <1>3, <1>4, <1>5, <1>6, <1>7, <1>8 DEF FdtNext

(* The invariant of the walk.                                              *)
THEOREM WalkInvariant == FdtSpec => []FdtInv
  BY FdtInitInv, FdtNextInv, PTL DEF FdtSpec

(* eos_fdt_get_prop(): without a stack, and on a blob with any nesting, it *)
(* returns a property only of the node that the path names, and says "not  *)
(* found" only if it met none.                                             *)
THEOREM PropertyOfNode == FdtSpec => []PropOfNodeAsked
  <1>1. FdtInv => PropOfNodeAsked
    BY DEF FdtInv
  <1> QED BY WalkInvariant, <1>1, PTL

-----------------------------------------------------------------------------
(* The device table                                                        *)

(* A port that has a device table, and more than 384 KiB of flash that     *)
(* fits the address space, places its images and its control block in      *)
(* order inside the flash.                                                 *)
OrderedPort(p) ==
    (p.id # 0 /\ p.flash > 384 * KiB /\ FlashFits(p)) =>
        /\ 0 < p.start.slotA /\ p.start.slotA < p.start.slotB
        /\ p.start.slotB < p.start.recovery /\ p.start.recovery < p.start.bootctl
        /\ p.start.bootctl < p.flash

(* The generated layout needs those 384 KiB: a third of the flash must be  *)
(* larger than the 128 KiB of the boot loader.  Flash has whole KiB: with  *)
(* 384 KiB and one byte slot B and the recovery image would coincide.      *)
LEMMA ThirdsOrdered ==
    ASSUME NEW id, NEW base, NEW size \in Nat, NEW rb, NEW rs, NEW u,
           size <= 384 * KiB \/ size >= 385 * KiB
    PROVE  OrderedPort(Port(id, Thirds(base, size), rb, rs, u))
  <1> DEFINE p == Port(id, Thirds(base, size), rb, rs, u)
             third == size \div 3
             thirds == (2 * size) \div 3
  <1>1. /\ p.flash = size /\ p.start.slotA = 128 * KiB
        /\ p.start.slotB = third + 128 * KiB
        /\ p.start.recovery = thirds
        /\ p.start.bootctl = size - 8 * KiB
    BY DEF Port, Thirds, Layout
  <1>2. third \in Int /\ 3 * third <= size /\ size < 3 * third + 3
    OBVIOUS
  <1>3. thirds \in Int /\ 3 * thirds <= 2 * size /\ 2 * size < 3 * thirds + 3
    OBVIOUS
  <1> HIDE DEF p, third, thirds
  <1>4. size > 384 * KiB =>
           /\ 0 < 128 * KiB /\ 128 * KiB < third + 128 * KiB
           /\ third + 128 * KiB < thirds /\ thirds < size - 8 * KiB
           /\ size - 8 * KiB < size
    BY <1>2, <1>3 DEF KiB
  <1>5. OrderedPort(p)
    BY <1>1, <1>4 DEF OrderedPort
  <1> QED BY <1>5, Zenon DEF p

(* A layout that is written out is in order when its numbers are.          *)
LEMMA LayoutOrdered ==
    ASSUME NEW id, NEW base, NEW size \in Nat, NEW a \in Nat, NEW b \in Nat,
           NEW r \in Nat, NEW c \in Nat, NEW rb, NEW rs, NEW u,
           0 < a, a < b, b < r, r < c, c < size
    PROVE  OrderedPort(Port(id, Layout(base, size, a, b, r, c), rb, rs, u))
  <1> DEFINE p == Port(id, Layout(base, size, a, b, r, c), rb, rs, u)
  <1>1. /\ p.flash = size /\ p.start.slotA = a /\ p.start.slotB = b
        /\ p.start.recovery = r /\ p.start.bootctl = c
    BY DEF Port, Layout
  <1> QED BY <1>1 DEF OrderedPort

(* Only one port with a driver, x86, has a device table.                   *)
LEMMA DriverPorts ==
    ASSUME NEW base, NEW size, NEW a, NEW b, NEW r, NEW c, NEW d, NEW z, NEW x, NEW y
    PROVE  WithDriver(Layout(base, size, a, b, r, c), d, z, x, y).id = 0
    BY DEF WithDriver, Layout

(* Every port of the repository.                                           *)
LEMMA PortsOrdered == \A p \in AllPorts : OrderedPort(p)
  <1>1. \A p \in {i8051, alpha, arc, arm11, arm7tdmi, arm9, avr, avr32,
                  blackfin, c166} : OrderedPort(p)
    BY ThirdsOrdered, SMT DEF
       i8051, alpha, arc, arm11, arm7tdmi, arm9, avr, avr32, blackfin, c166,
       KiB, MiB
  <1>2. \A p \in {c28x, c6000, ceva, cortex_a15, cortex_a35, cortex_a5,
                  cortex_a55, cortex_a76, cortex_a9,
                  cortex_m0} : OrderedPort(p)
    BY ThirdsOrdered, SMT DEF
       c28x, c6000, ceva, cortex_a15, cortex_a35, cortex_a5, cortex_a55,
       cortex_a76, cortex_a9, cortex_m0, KiB, MiB
  <1>3. \A p \in {cortex_m0plus, cortex_m23, cortex_m3, cortex_m33,
                  cortex_m55, cortex_m85, cortex_r4,
                  cortex_r52, cris, dspic} : OrderedPort(p)
    BY ThirdsOrdered, SMT DEF
       cortex_m0plus, cortex_m23, cortex_m3, cortex_m33, cortex_m55,
       cortex_m85, cortex_r4, cortex_r52, cris, dspic, KiB, MiB
  <1>4. \A p \in {esp32c3, esp32s3, hexagon, ia64, kalimba, lm32, loongarch,
                  microblaze, mips64, msp430} : OrderedPort(p)
    BY ThirdsOrdered, SMT DEF
       esp32c3, esp32s3, hexagon, ia64, kalimba, lm32, loongarch,
       microblaze, mips64, msp430, KiB, MiB
  <1>5. \A p \in {nios2, openrisc, parisc, pic16, pic18, pic24, pic32,
                  ppc64, pru, riscv32} : OrderedPort(p)
    BY ThirdsOrdered, SMT DEF
       nios2, openrisc, parisc, pic16, pic18, pic24, pic32, ppc64, pru,
       riscv32, KiB, MiB
  <1>6. \A p \in {rl78, rx, s390, sharc, sparc64, tricore, xtensa_hifi} : OrderedPort(p)
    BY ThirdsOrdered, SMT DEF
       rl78, rx, s390, sharc, sparc64, tricore, xtensa_hifi, KiB, MiB
  <1>7. \A p \in {frv, h8300, m68k, mips, mn103, nrf52, powerpc, sh4, sparc,
                  stm32h7} : OrderedPort(p)
    BY LayoutOrdered, SMT DEF
       frv, h8300, m68k, mips, mn103, nrf52, powerpc, sh4, sparc, stm32h7,
       KiB, MiB
  <1>8. \A p \in {strongarm, v850, xscale} : OrderedPort(p)
    BY LayoutOrdered, SMT DEF
       strongarm, v850, xscale, KiB, MiB
  <1>9. \A p \in {am64x, cortex_r5, esp32, imx8m, qemu_arm64, riscv64_virt,
                  rpi4} : p.id = 0
    <2>1. am64x.id = 0
      BY DriverPorts DEF am64x
    <2>2. cortex_r5.id = 0
      BY DriverPorts DEF cortex_r5
    <2>3. esp32.id = 0
      BY DriverPorts DEF esp32
    <2>4. imx8m.id = 0
      BY DriverPorts DEF imx8m
    <2>5. qemu_arm64.id = 0
      BY DriverPorts DEF qemu_arm64
    <2>6. riscv64_virt.id = 0
      BY DriverPorts DEF riscv64_virt
    <2>7. rpi4.id = 0
      BY DriverPorts DEF rpi4
    <2> QED BY <2>1, <2>2, <2>3, <2>4, <2>5, <2>6, <2>7, Zenon
  <1>10. \A p \in {samd51, sifive_u, stm32f4, stm32mp1, x86_64_efi} : p.id = 0
    <2>1. samd51.id = 0
      BY DriverPorts DEF samd51
    <2>2. sifive_u.id = 0
      BY DriverPorts DEF sifive_u
    <2>3. stm32f4.id = 0
      BY DriverPorts DEF stm32f4
    <2>4. stm32mp1.id = 0
      BY DriverPorts DEF stm32mp1
    <2>5. x86_64_efi.id = 0
      BY DriverPorts DEF x86_64_efi
    <2> QED BY <2>1, <2>2, <2>3, <2>4, <2>5, Zenon
  <1>11. \A p : p.id = 0 => OrderedPort(p)
    BY DEF OrderedPort
  <1>13. OrderedPort(x86)
    <2>1. x86.base = <<\hFFF0, 0>> /\ x86.flash = 16 * MiB
      BY DEF x86, Port, WithDriver, Layout
    <2>2. 65520 + (0 + 16777216 - 1) \div 65536 = 65775
      BY SMT
    <2>3. 2^16 = 65536
      BY SMT
    <2>4. ~FlashFits(x86)
      BY <2>1, <2>2, <2>3, SMT DEF FlashFits, MiB, KiB
    <2> QED BY <2>4 DEF OrderedPort
  <1> SUFFICES ASSUME NEW p \in AllPorts PROVE OrderedPort(p)
    OBVIOUS
  <1>12. \/ p \in {i8051, alpha, arc, arm11, arm7tdmi, arm9, avr, avr32,
                     blackfin, c166}
         \/ p \in {c28x, c6000, ceva, cortex_a15, cortex_a35, cortex_a5,
                     cortex_a55, cortex_a76, cortex_a9,
                     cortex_m0}
         \/ p \in {cortex_m0plus, cortex_m23, cortex_m3, cortex_m33,
                     cortex_m55, cortex_m85, cortex_r4,
                     cortex_r52, cris, dspic}
         \/ p \in {esp32c3, esp32s3, hexagon, ia64, kalimba, lm32,
                     loongarch, microblaze, mips64,
                     msp430}
         \/ p \in {nios2, openrisc, parisc, pic16, pic18, pic24, pic32,
                     ppc64, pru, riscv32}
         \/ p \in {rl78, rx, s390, sharc, sparc64, tricore, xtensa_hifi}
         \/ p \in {frv, h8300, m68k, mips, mn103, nrf52, powerpc, sh4,
                     sparc, stm32h7}
         \/ p \in {strongarm, v850, xscale}
         \/ p \in {am64x, cortex_r5, esp32, imx8m, qemu_arm64,
                     riscv64_virt, rpi4}
         \/ p \in {samd51, sifive_u, stm32f4, stm32mp1, x86_64_efi}
         \/ p = x86
    BY SMT DEF AllPorts
  <1> QED BY <1>1, <1>2, <1>3, <1>4, <1>5, <1>6, <1>7, <1>8, <1>9, <1>10,
             <1>11, <1>12, <1>13, Zenon

(* A record with the fields of a device table.                             *)
IsTable(t) ==
    t = [port |-> t.port, memory |-> t.memory, periphs |-> t.periphs, crc |-> t.crc,
         intact |-> t.intact]

(* What a table that was begun says first is the flash of its port.        *)
BegunTable(t) ==
    /\ IsTable(t) /\ t.port \in AllPorts /\ t.port.id # 0
    /\ \E S : t.memory \in Seq(S)
    /\ Len(t.memory) >= 1 /\ t.memory[1].size = Halves(t.port.flash)

(* Once finalised, the checksum is the one of what was finalised for the   *)
(* same port: nothing but the checksum keeps track of later changes.       *)
SealedTable ==
    table.crc # <<>> =>
        /\ IsTable(sealed) /\ sealed.port = table.port /\ sealed.crc = table.crc
        /\ sealed.crc = <<Checksum(sealed)>>

TableInv ==
    /\ built \in Builds
    /\ registry \in Seq(built) /\ g_ops \in built \cup {NoBoard}
    /\ table = NoTable \/ (BegunTable(table) /\ SealedTable)

(* A set of numbers that is not empty has a least element.                 *)
LEMMA LeastNatural ==
    ASSUME NEW T \in SUBSET Nat, T # {}
    PROVE  \E x \in T : \A y \in T : x <= y
  <1> DEFINE R == OpToRel(<, Nat)
  <1>1. IsWellFoundedOn(R, Nat)
    BY NatLessThanWellFounded
  <1>2. \A x, y \in Nat : y < x => <<y, x>> \in R
    BY DEF OpToRel
  <1> HIDE DEF R
  <1>3. PICK x \in T : \A y \in T : ~ (<<y, x>> \in R)
    BY <1>1, WFMin
  <1>4. \A y \in T : x \in Nat /\ y \in Nat /\ ~(y < x)
    BY <1>2, <1>3, Zenon
  <1>5. \A y \in T : x <= y
    BY <1>4
  <1> QED BY <1>5

(* Detecting a board finds one that is registered.                         *)
LEMMA DetectedIsRegistered ==
    ASSUME registry \in Seq(built), registry # <<>>, NEW detected
    PROVE  eos_board_detect(detected) \in built
  <1> DEFINE hits == {i \in DOMAIN registry : registry[i] \in detected}
  <1>1. CASE hits = {}
    BY <1>1 DEF eos_board_detect
  <1>2. CASE hits # {}
    <2>1. hits \subseteq Nat
      OBVIOUS
    <2>2. PICK i \in hits : \A j \in hits : i <= j
      <3> HIDE DEF hits
      <3> QED BY <1>2, <2>1, LeastNatural
    <2>3. (CHOOSE k \in hits : \A j \in hits : k <= j) \in hits
      <3> HIDE DEF hits
      <3> QED BY <2>2
    <2>4. eos_board_detect(detected) =
             registry[CHOOSE k \in hits : \A j \in hits : k <= j]
      BY <1>2, Zenon DEF eos_board_detect
    <2>5. \A k \in hits : registry[k] \in built
      OBVIOUS
    <2> QED BY <2>3, <2>4, <2>5, Zenon
  <1> QED BY <1>1, <1>2

(* Nothing happens to the table while boards are registered and flashed.   *)
LEMMA OtherSteps ==
    ASSUME TableInv, RegistryNext \/ FlashNext
    PROVE  TableInv'
  <1>1. built' = built /\ table' = table /\ sealed' = sealed
    BY DEF RegistryNext, FlashNext, eos_board_register, eos_board_activate, eos_hal_init,
           eos_board_activate_auto, eos_hal_flash_erase, eos_hal_flash_write
  <1>2. registry' \in Seq(built) /\ g_ops' \in built \cup {NoBoard}
    <2>1. ASSUME NEW p \in built, eos_board_register(p)
          PROVE  registry' \in Seq(built) /\ g_ops' \in built \cup {NoBoard}
      BY <2>1 DEF eos_board_register, TableInv
    <2>2. ASSUME NEW p \in built, eos_hal_init(p)
          PROVE  registry' \in Seq(built) /\ g_ops' \in built \cup {NoBoard}
      BY <2>2 DEF eos_hal_init, TableInv
    <2>3. ASSUME NEW detected, eos_board_activate_auto(detected)
          PROVE  registry' \in Seq(built) /\ g_ops' \in built \cup {NoBoard}
      <3>1. registry # <<>> /\ eos_hal_init(eos_board_detect(detected))
        BY <2>3 DEF eos_board_activate_auto
      <3>2. eos_board_detect(detected) \in built
        BY <3>1, DetectedIsRegistered DEF TableInv
      <3> QED BY <2>2, <3>1, <3>2
    <2>4. CASE FlashNext
      BY <2>4 DEF FlashNext, eos_hal_flash_erase, eos_hal_flash_write, TableInv
    <2> QED BY <2>1, <2>2, <2>3, <2>4 DEF RegistryNext, eos_board_activate
  <1> QED BY <1>1, <1>2 DEF TableInv, BegunTable, IsTable, SealedTable, Checksum

(* Building, finalising and damaging the table.                            *)
LEMMA TableSteps ==
    ASSUME TableInv, TableNext
    PROVE  TableInv'
  <1>1. UNCHANGED <<built, registry, g_ops>>
    BY DEF TableNext, init_device_table, eos_device_table_add_memory,
           eos_device_table_add_peripheral, eos_device_table_finalize, OverwriteTable
  <1>2. SUFFICES table' = NoTable \/ (BegunTable(table') /\ SealedTable')
    BY <1>1 DEF TableInv, BegunTable, IsTable
  <1>3. CASE init_device_table
    <2> DEFINE fw == [type |-> "FIRMWARE", base |-> g_ops.base, size |-> Halves(g_ops.flash)]
               ram == [type |-> "USABLE", base |-> g_ops.ram.base, size |-> g_ops.ram.size]
    <2>1. table' = [NoTable EXCEPT !.port = g_ops, !.periphs = g_ops.uarts,
                                   !.memory = <<fw, ram>>]
      BY <1>3 DEF init_device_table
    <2>2. g_ops \in AllPorts /\ g_ops.id # 0
      BY <1>3, BoardsAssumption DEF init_device_table, TableInv
    <2>3. fw.size = Halves(g_ops.flash)
      OBVIOUS
    <2> HIDE DEF fw, ram
    <2>4. table' = [port |-> g_ops, memory |-> <<fw, ram>>, periphs |-> g_ops.uarts,
                    crc |-> <<>>, intact |-> TRUE]
      BY <2>1 DEF NoTable
    <2>5. <<fw, ram>> \in Seq({fw, ram}) /\ Len(<<fw, ram>>) >= 1 /\ <<fw, ram>>[1] = fw
      OBVIOUS
    <2>6. BegunTable(table')
      BY <2>2, <2>3, <2>4, <2>5 DEF BegunTable, IsTable
    <2> QED BY <2>4, <2>6 DEF SealedTable
  <1>4. ASSUME NEW region, eos_device_table_add_memory(region)
        PROVE  BegunTable(table') /\ SealedTable'
    <2>1. BegunTable(table) /\ SealedTable /\ sealed' = sealed
          /\ table' = [table EXCEPT !.memory = Append(table.memory, region)]
      BY <1>4 DEF eos_device_table_add_memory, TableInv, BegunTable, IsTable
    <2>2. PICK S : table.memory \in Seq(S)
      BY <2>1 DEF BegunTable
    <2> DEFINE longer == Append(table.memory, region)
    <2>3. table.memory \in Seq(S \cup {region})
      BY <2>2
    <2>4. longer \in Seq(S \cup {region}) /\ Len(longer) >= 1
          /\ longer[1] = table.memory[1]
      BY <2>1, <2>3 DEF BegunTable
    <2> HIDE DEF longer
    <2>5. table' = [port |-> table.port, memory |-> longer, periphs |-> table.periphs,
                    crc |-> table.crc, intact |-> table.intact]
      BY <2>1 DEF BegunTable, IsTable, longer
    <2>6. BegunTable(table')
      <3>1. \E T : longer \in Seq(T)
        BY <2>4, Zenon
      <3>2. /\ table'.port = table.port /\ table'.memory = longer /\ IsTable(table')
        BY <2>5 DEF IsTable
      <3> QED BY <2>1, <2>4, <3>1, <3>2 DEF BegunTable
    <2> QED BY <2>1, <2>5, <2>6 DEF SealedTable, IsTable, Checksum
  <1>5. CASE eos_device_table_add_peripheral
    <2>1. BegunTable(table) /\ SealedTable /\ sealed' = sealed
          /\ table' = [table EXCEPT !.periphs = table.periphs + 1]
      BY <1>5 DEF eos_device_table_add_peripheral, TableInv, BegunTable, IsTable
    <2> DEFINE more == table.periphs + 1
    <2> HIDE DEF more
    <2>2. table' = [port |-> table.port, memory |-> table.memory, periphs |-> more,
                    crc |-> table.crc, intact |-> table.intact]
      BY <2>1 DEF BegunTable, IsTable, more
    <2>3. BegunTable(table')
      BY <2>1, <2>2 DEF BegunTable, IsTable
    <2> QED BY <2>1, <2>2, <2>3 DEF SealedTable, IsTable, Checksum
  <1>6. CASE eos_device_table_finalize
    <2>1. BegunTable(table) /\ sealed' = table'
          /\ table' = [table EXCEPT !.crc = <<Checksum(table)>>]
      BY <1>6 DEF eos_device_table_finalize, TableInv
    <2> DEFINE sum == <<Checksum(table)>>
    <2> HIDE DEF sum
    <2>2. table' = [port |-> table.port, memory |-> table.memory, periphs |-> table.periphs,
                    crc |-> sum, intact |-> table.intact]
      BY <2>1 DEF BegunTable, IsTable, sum
    <2>3. BegunTable(table')
      BY <2>1, <2>2 DEF BegunTable, IsTable
    <2>4. sum = <<Checksum(table')>>
      BY <2>2 DEF Checksum, sum
    <2> QED BY <2>1, <2>2, <2>3, <2>4 DEF SealedTable, IsTable, Checksum
  <1>7. CASE OverwriteTable
    <2>1. BegunTable(table) /\ SealedTable /\ sealed' = sealed
          /\ table' = [table EXCEPT !.intact = FALSE]
      BY <1>7 DEF OverwriteTable, TableInv
    <2>2. table' = [port |-> table.port, memory |-> table.memory, periphs |-> table.periphs,
                    crc |-> table.crc, intact |-> FALSE]
      BY <2>1 DEF BegunTable, IsTable
    <2>3. BegunTable(table')
      BY <2>1, <2>2 DEF BegunTable, IsTable
    <2> QED BY <2>1, <2>2, <2>3 DEF SealedTable, IsTable, Checksum
  <1> QED BY <1>3, <1>4, <1>5, <1>6, <1>7 DEF TableNext

(* The invariant of the device table.                                      *)
THEOREM TableInvariant == BoardsSpec => []TableInv
  <1>1. BoardsInit => TableInv
    <2> SUFFICES ASSUME BoardsInit PROVE TableInv
      OBVIOUS
    <2>1. <<>> \in Seq(built)
      OBVIOUS
    <2> QED BY <2>1, Zenon DEF BoardsInit, TableInv
  <1>2. TableInv /\ [RegistryNext \/ FlashNext \/ TableNext]_boardVars => TableInv'
    <2>1. TableInv /\ UNCHANGED boardVars => TableInv'
      BY DEF boardVars, TableInv, BegunTable, IsTable, SealedTable, Checksum
    <2> QED BY <2>1, OtherSteps, TableSteps
  <1> QED BY <1>1, <1>2, PTL DEF BoardsSpec

(* eos_device_table_validate(): a table that validates is the one that     *)
(* was finalised, it tells the flash of its port, and on a port with more  *)
(* than 384 KiB of flash, inside the address space, the images lie in      *)
(* order inside that flash.                                                *)
THEOREM TableIsTold == BoardsSpec => []TableTells
  <1>1. TableInv => TableTells
    <2> SUFFICES ASSUME TableInv, eos_device_table_validate(table)
                 PROVE  /\ table = sealed
                        /\ table.memory[1].size = Halves(table.port.flash)
                        /\ OrderedPort(table.port) /\ table.port.id # 0
      BY DEF TableTells, OrderedPort
    <2>1. table # NoTable /\ table.crc = <<Checksum(table)>>
      BY DEF eos_device_table_validate
    <2>2. BegunTable(table) /\ SealedTable
      BY <2>1 DEF TableInv
    <2>3. table.crc # <<>>
      BY <2>1
    <2>4. /\ IsTable(sealed) /\ IsTable(table) /\ sealed.port = table.port
          /\ sealed.crc = table.crc /\ Checksum(sealed) = Checksum(table)
      BY <2>1, <2>2, <2>3 DEF SealedTable, BegunTable
    <2>5. sealed.memory = table.memory /\ sealed.periphs = table.periphs
          /\ sealed.intact = table.intact
      BY <2>4 DEF Checksum
    <2>6. table = sealed
      BY <2>4, <2>5 DEF IsTable
    <2> QED BY <2>2, <2>6, PortsOrdered DEF BegunTable
  <1> QED BY TableInvariant, <1>1, PTL

-----------------------------------------------------------------------------
(* Flash through the HAL                                                   *)

Aims == Regions \ {"boot"}

\* A port whose erase clears nothing, whatever it returns.
IdlePort(p) ==
    /\ p.driver \in {"none", "failing", "window", "inert"}
    /\ \A s \in Aims : p.start[s] \in Int

LEMMA AimsAre == Aims = {"slotA", "slotB", "recovery", "bootctl", "backup", "log"}
  BY DEF Aims, Regions, Slots

LEMMA UnsetIsInt == \A base : Unset(base) \in Int
  BY DEF Unset, MiB, KiB

LEMMA LayoutIdle ==
    ASSUME NEW id, NEW base, NEW size, NEW a \in Int, NEW b \in Int,
           NEW r \in Int, NEW c \in Int, NEW rb, NEW rs, NEW u
    PROVE  IdlePort(Port(id, Layout(base, size, a, b, r, c), rb, rs, u))
  <1> DEFINE p == Port(id, Layout(base, size, a, b, r, c), rb, rs, u)
             none == Unset(base)
  <1>1. /\ p.driver = "none" /\ p.start.slotA = a /\ p.start.slotB = b
        /\ p.start.recovery = r /\ p.start.bootctl = c
        /\ p.start.backup = none /\ p.start.log = none
    BY DEF Port, Layout
  <1>2. none \in Int
    BY UnsetIsInt
  <1> HIDE DEF p, none
  <1>3. IdlePort(p)
    BY <1>1, <1>2, AimsAre DEF IdlePort
  <1> QED BY <1>3 DEF p

LEMMA ThirdsIdle ==
    ASSUME NEW id, NEW base, NEW size \in Nat, NEW rb, NEW rs, NEW u
    PROVE  IdlePort(Port(id, Thirds(base, size), rb, rs, u))
  <1>1. /\ 128 * KiB \in Int /\ (size \div 3) + 128 * KiB \in Int
        /\ (2 * size) \div 3 \in Int /\ size - 8 * KiB \in Int
    BY DEF KiB
  <1> QED BY <1>1, LayoutIdle DEF Thirds

\* A port whose driver was filled in.
Driven(p, size, a, b, r, c, d, z, x, y) ==
    /\ p.driver = d /\ p.size = z /\ p.flash = size
    /\ p.start.slotA = a /\ p.start.slotB = b /\ p.start.recovery = r
    /\ p.start.bootctl = c /\ p.start.backup = x /\ p.start.log = y

LEMMA DrivenFields ==
    ASSUME NEW base, NEW size, NEW a, NEW b, NEW r, NEW c, NEW d, NEW z, NEW x, NEW y
    PROVE  Driven(WithDriver(Layout(base, size, a, b, r, c), d, z, x, y),
                  size, a, b, r, c, d, z, x, y)
  BY DEF Driven, WithDriver, Layout

LEMMA IdlePorts == \A p \in AllPorts \ {riscv64_virt, stm32f4} : IdlePort(p)
  <1>1. \A p \in {i8051, alpha, arc, arm11, arm7tdmi, arm9, avr, avr32,
                  blackfin, c166} : IdlePort(p)
    BY ThirdsIdle, SMT DEF
       i8051, alpha, arc, arm11, arm7tdmi, arm9, avr, avr32, blackfin, c166,
       KiB, MiB
  <1>2. \A p \in {c28x, c6000, ceva, cortex_a15, cortex_a35, cortex_a5,
                  cortex_a55, cortex_a76, cortex_a9,
                  cortex_m0} : IdlePort(p)
    BY ThirdsIdle, SMT DEF
       c28x, c6000, ceva, cortex_a15, cortex_a35, cortex_a5, cortex_a55,
       cortex_a76, cortex_a9, cortex_m0, KiB, MiB
  <1>3. \A p \in {cortex_m0plus, cortex_m23, cortex_m3, cortex_m33,
                  cortex_m55, cortex_m85, cortex_r4,
                  cortex_r52, cris, dspic} : IdlePort(p)
    BY ThirdsIdle, SMT DEF
       cortex_m0plus, cortex_m23, cortex_m3, cortex_m33, cortex_m55,
       cortex_m85, cortex_r4, cortex_r52, cris, dspic, KiB, MiB
  <1>4. \A p \in {esp32c3, esp32s3, hexagon, ia64, kalimba, lm32, loongarch,
                  microblaze, mips64, msp430} : IdlePort(p)
    BY ThirdsIdle, SMT DEF
       esp32c3, esp32s3, hexagon, ia64, kalimba, lm32, loongarch,
       microblaze, mips64, msp430, KiB, MiB
  <1>5. \A p \in {nios2, openrisc, parisc, pic16, pic18, pic24, pic32,
                  ppc64, pru, riscv32} : IdlePort(p)
    BY ThirdsIdle, SMT DEF
       nios2, openrisc, parisc, pic16, pic18, pic24, pic32, ppc64, pru,
       riscv32, KiB, MiB
  <1>6. \A p \in {rl78, rx, s390, sharc, sparc64, tricore, xtensa_hifi} : IdlePort(p)
    BY ThirdsIdle, SMT DEF
       rl78, rx, s390, sharc, sparc64, tricore, xtensa_hifi, KiB, MiB
  <1>7. \A p \in {frv, h8300, m68k, mips, mn103, nrf52, powerpc, sh4, sparc,
                  stm32h7} : IdlePort(p)
    BY LayoutIdle, SMT DEF
       frv, h8300, m68k, mips, mn103, nrf52, powerpc, sh4, sparc, stm32h7,
       KiB, MiB
  <1>8. \A p \in {strongarm, v850, xscale} : IdlePort(p)
    BY LayoutIdle, SMT DEF
       strongarm, v850, xscale, KiB, MiB
  <1>9. IdlePort(am64x)
    <2>1. Driven(am64x, 64 * MiB, \h200000, \h1200000, \h2200000, \h2F00000, am64x_flash,
                 Sizes(16 * MiB, 16 * MiB, 8 * MiB), Unset(<<\h5000, 0>>), Unset(<<\h5000, 0>>))
      BY DrivenFields, SMT DEF am64x
    <2>2. am64x_flash \in {"failing", "window", "inert"}
      BY DEF am64x_flash
    <2> QED BY <2>1, <2>2, AimsAre, UnsetIsInt, SMT DEF Driven, IdlePort
  <1>10. IdlePort(cortex_r5)
    <2>1. Driven(cortex_r5, 2 * MiB, \h10000, \h80000, \hF0000, \hF4000, cortex_r5_flash,
                 Sizes(448 * KiB, 448 * KiB, 16 * KiB), \hF6000, \hF8000)
      BY DrivenFields, SMT DEF cortex_r5
    <2>2. cortex_r5_flash \in {"failing", "window", "inert"}
      BY DEF cortex_r5_flash
    <2> QED BY <2>1, <2>2, AimsAre, UnsetIsInt, SMT DEF Driven, IdlePort
  <1>11. IdlePort(esp32)
    <2>1. Driven(esp32, 4 * MiB, \h10000, \h190000, \h310000, \h3F0000, esp32_flash,
                 Sizes(1536 * KiB, 1536 * KiB, 512 * KiB), Unset(<<0, 0>>), Unset(<<0, 0>>))
      BY DrivenFields, SMT DEF esp32
    <2>2. esp32_flash \in {"failing", "window", "inert"}
      BY DEF esp32_flash
    <2> QED BY <2>1, <2>2, AimsAre, UnsetIsInt, SMT DEF Driven, IdlePort
  <1>12. IdlePort(imx8m)
    <2>1. Driven(imx8m, 64 * MiB, \h100000, \h1100000, \h2100000, \h2F00000, imx8m_flash,
                 Sizes(16 * MiB, 16 * MiB, 8 * MiB), Unset(<<\h800, 0>>), Unset(<<\h800, 0>>))
      BY DrivenFields, SMT DEF imx8m
    <2>2. imx8m_flash \in {"failing", "window", "inert"}
      BY DEF imx8m_flash
    <2> QED BY <2>1, <2>2, AimsAre, UnsetIsInt, SMT DEF Driven, IdlePort
  <1>13. IdlePort(qemu_arm64)
    <2>1. Driven(qemu_arm64, 64 * MiB, \h200000, \h1A00000, Unset(<<0, 0>>), \h3F00000, qemu_arm64_flash,
                 Sizes(24 * MiB, 24 * MiB, 0), Unset(<<0, 0>>), Unset(<<0, 0>>))
      BY DrivenFields, SMT DEF qemu_arm64
    <2>2. qemu_arm64_flash \in {"failing", "window", "inert"}
      BY DEF qemu_arm64_flash
    <2> QED BY <2>1, <2>2, AimsAre, UnsetIsInt, SMT DEF Driven, IdlePort
  <1>14. IdlePort(rpi4)
    <2>1. Driven(rpi4, 0, \h80000, \h2080000, \h4080000, \h6000000, rpi4_flash,
                 Sizes(32 * MiB, 32 * MiB, 16 * MiB), \h3FF80000, \h3FFC0000)
      BY DrivenFields, SMT DEF rpi4
    <2>2. rpi4_flash \in {"failing", "window", "inert"}
      BY DEF rpi4_flash
    <2> QED BY <2>1, <2>2, AimsAre, UnsetIsInt, SMT DEF Driven, IdlePort
  <1>15. IdlePort(samd51)
    <2>1. Driven(samd51, 512 * KiB, \h10000, \h48000, \h7C000, \h7E000, samd51_flash,
                 Sizes(224 * KiB, 224 * KiB, 8 * KiB), Unset(<<0, 0>>), Unset(<<0, 0>>))
      BY DrivenFields, SMT DEF samd51
    <2>2. samd51_flash \in {"failing", "window", "inert"}
      BY DEF samd51_flash
    <2> QED BY <2>1, <2>2, AimsAre, UnsetIsInt, SMT DEF Driven, IdlePort
  <1>16. IdlePort(sifive_u)
    <2>1. Driven(sifive_u, 32 * MiB, \h200000, \hA00000, \h1200000, \h1F00000, sifive_u_flash,
                 Sizes(8 * MiB, 8 * MiB, 4 * MiB), Unset(<<\h2000, 0>>), Unset(<<\h2000, 0>>))
      BY DrivenFields, SMT DEF sifive_u
    <2>2. sifive_u_flash \in {"failing", "window", "inert"}
      BY DEF sifive_u_flash
    <2> QED BY <2>1, <2>2, AimsAre, UnsetIsInt, SMT DEF Driven, IdlePort
  <1>17. IdlePort(stm32mp1)
    <2>1. Driven(stm32mp1, 0, \h100000, \h4100000, Unset(<<0, 0>>), \h9100000, stm32mp1_flash,
                 Sizes(64 * MiB, 64 * MiB, 0), Unset(<<0, 0>>), Unset(<<0, 0>>))
      BY DrivenFields, SMT DEF stm32mp1
    <2>2. stm32mp1_flash \in {"failing", "window", "inert"}
      BY DEF stm32mp1_flash
    <2> QED BY <2>1, <2>2, AimsAre, UnsetIsInt, SMT DEF Driven, IdlePort
  <1>18. IdlePort(x86)
    <2>1. Driven(x86, 16 * MiB, -\hEC0000, -\h8C0000, -\h2C0000, -\h1000, x86_flash,
                 Sizes(0, 0, 0), Unset(<<\hFFF0, 0>>), Unset(<<\hFFF0, 0>>))
      BY DrivenFields, SMT DEF x86, Port, Driven
    <2>2. x86_flash \in {"failing", "window", "inert"}
      BY DEF x86_flash
    <2> QED BY <2>1, <2>2, AimsAre, UnsetIsInt, SMT DEF Driven, IdlePort
  <1>19. IdlePort(x86_64_efi)
    <2>1. Driven(x86_64_efi, 0, \h100000, \h4100000, \h8100000, \hA100000, x86_64_efi_flash,
                 Sizes(64 * MiB, 64 * MiB, 32 * MiB), Unset(<<0, 0>>), Unset(<<0, 0>>))
      BY DrivenFields, SMT DEF x86_64_efi
    <2>2. x86_64_efi_flash \in {"failing", "window", "inert"}
      BY DEF x86_64_efi_flash
    <2> QED BY <2>1, <2>2, AimsAre, UnsetIsInt, SMT DEF Driven, IdlePort
  <1> SUFFICES ASSUME NEW p \in AllPorts, p # riscv64_virt, p # stm32f4 PROVE IdlePort(p)
    OBVIOUS
  <1>20. \/ p \in {i8051, alpha, arc, arm11, arm7tdmi, arm9, avr, avr32,
                     blackfin, c166}
         \/ p \in {c28x, c6000, ceva, cortex_a15, cortex_a35, cortex_a5,
                     cortex_a55, cortex_a76, cortex_a9,
                     cortex_m0}
         \/ p \in {cortex_m0plus, cortex_m23, cortex_m3, cortex_m33,
                     cortex_m55, cortex_m85, cortex_r4,
                     cortex_r52, cris, dspic}
         \/ p \in {esp32c3, esp32s3, hexagon, ia64, kalimba, lm32,
                     loongarch, microblaze, mips64,
                     msp430}
         \/ p \in {nios2, openrisc, parisc, pic16, pic18, pic24, pic32,
                     ppc64, pru, riscv32}
         \/ p \in {rl78, rx, s390, sharc, sparc64, tricore, xtensa_hifi}
         \/ p \in {frv, h8300, m68k, mips, mn103, nrf52, powerpc, sh4,
                     sparc, stm32h7}
         \/ p \in {strongarm, v850, xscale}
         \/ p \in {am64x, cortex_r5, esp32, imx8m, qemu_arm64,
                     riscv64_virt, rpi4}
         \/ p \in {samd51, sifive_u, stm32f4, stm32mp1, x86, x86_64_efi}
    BY SMT DEF AllPorts
  <1> QED BY <1>1, <1>2, <1>3, <1>4, <1>5, <1>6, <1>7, <1>8, <1>9, <1>10, <1>11, <1>12, <1>13,
             <1>14, <1>15, <1>16, <1>17, <1>18, <1>19, <1>20, Zenon

(* The boot loader ends where the first region begins.                     *)
LEMMA BootEnds ==
    ASSUME NEW p, p.flash \in Int, \A s \in Aims : p.start[s] \in Int,
           NEW first \in Aims, Placed(p, first)
    PROVE  /\ EndOf(p, "boot") \in Int
           /\ \A s \in Aims : Placed(p, s) => EndOf(p, "boot") <= p.start[s]
  <1> DEFINE starts == {p.start[s] : s \in {q \in Aims : Placed(p, q)}}
             choice == starts \cup {p.flash}
  <1>1. \A s \in Aims : Placed(p, s) <=> p.start[s] > 0
    BY AimsAre DEF Placed
  <1>2. starts \in SUBSET Nat /\ starts # {}
    BY <1>1
  <1>3. EndOf(p, "boot") = CHOOSE o \in choice : \A q \in starts : o <= q
    BY Zenon DEF EndOf, Aims
  <1> HIDE DEF starts
  <1>4. PICK o \in starts : \A q \in starts : o <= q
    BY <1>2, LeastNatural
  <1>5. EndOf(p, "boot") \in choice /\ \A q \in starts : EndOf(p, "boot") <= q
    <2>1. o \in choice
      OBVIOUS
    <2> HIDE DEF choice
    <2> QED BY <1>3, <1>4, <2>1, Zenon
  <1>6. EndOf(p, "boot") \in Int
    <2>1. \A x \in choice : x \in Int
      BY <1>2
    <2> HIDE DEF choice
    <2> QED BY <1>5, <2>1, Zenon
  <1>7. \A s \in Aims : Placed(p, s) => p.start[s] \in starts
    BY DEF starts
  <1> QED BY <1>5, <1>6, <1>7

\* An erase of r with this outcome: nothing else is touched, and success means that
\* the whole of it was cleared.
Kept(p, r, e) ==
    /\ \A s \in Regions \ {r} : Placed(p, s) => ~Touches(p, s, e.range)
    /\ (e.rc = "OK" /\ p.driver # "inert" /\ Placed(p, r)) => Covers(p, r, e.range)

\* An erase of r that fails before it starts, or clears from its start up to a point
\* that no other region has before it and behind its start.
Aimed(p, r, e) ==
    \/ e.rc = "ERROR" /\ e.range = Nowhere
    \/ /\ e.range.from = p.start[r] /\ e.range.to \in Int
       /\ \A s \in Aims \ {r} :
             Placed(p, s) => e.range.to <= p.start[s] \/ EndOf(p, s) <= p.start[r]
       /\ ~Placed(p, r) => e.range.to <= 0
       /\ (e.rc = "OK" /\ Placed(p, r)) => /\ p.start[r] < EndOf(p, r)
                                          /\ EndOf(p, r) <= e.range.to

LEMMA NowhereTouches ==
    ASSUME NEW p, \A s \in Aims : p.start[s] \in Int, NEW s \in Regions, Placed(p, s)
    PROVE  ~Touches(p, s, Nowhere)
  <1>1. CASE s = "boot"
    BY <1>1 DEF Touches, StartOf, Nowhere
  <1>2. CASE s # "boot"
    <2>1. s \in Aims /\ p.start[s] > 0
      BY <1>2 DEF Aims, Placed
    <2> QED BY <1>2, <2>1 DEF Touches, StartOf, Nowhere
  <1> QED BY <1>1, <1>2

LEMMA AimedIsKept ==
    ASSUME NEW p, p.flash \in Int, \A s \in Aims : p.start[s] \in Int,
           \A s \in Aims : EndOf(p, s) \in Int,
           NEW first \in Aims, Placed(p, first), NEW r \in Aims, NEW e, Aimed(p, r, e)
    PROVE  Kept(p, r, e)
  <1>1. CASE e.rc = "ERROR" /\ e.range = Nowhere
    BY <1>1, NowhereTouches DEF Kept
  <1>2. CASE ~(e.rc = "ERROR" /\ e.range = Nowhere)
    <2>1. /\ e.range.from = p.start[r] /\ e.range.to \in Int
          /\ \A s \in Aims \ {r} :
                Placed(p, s) => e.range.to <= p.start[s] \/ EndOf(p, s) <= p.start[r]
          /\ ~Placed(p, r) => e.range.to <= 0
          /\ (e.rc = "OK" /\ Placed(p, r)) => /\ p.start[r] < EndOf(p, r)
                                             /\ EndOf(p, r) <= e.range.to
      BY <1>2 DEF Aimed
    <2>2. r # "boot" /\ r \in Regions /\ StartOf(p, r) = p.start[r]
      BY DEF Aims, StartOf
    <2>3. ASSUME NEW s \in Regions \ {r}, Placed(p, s) PROVE ~Touches(p, s, e.range)
      <3>1. CASE s = "boot"
        <4>1. StartOf(p, s) = 0 /\ EndOf(p, s) \in Int
              /\ (Placed(p, r) => EndOf(p, s) <= p.start[r])
          BY <3>1, BootEnds DEF StartOf
        <4> QED BY <2>1, <4>1 DEF Touches
      <3>2. CASE s # "boot"
        <4>1. s \in Aims \ {r} /\ StartOf(p, s) = p.start[s]
          BY <3>2 DEF Aims, StartOf
        <4> QED BY <2>1, <2>3, <4>1 DEF Touches
      <3> QED BY <3>1, <3>2
    <2>4. ASSUME e.rc = "OK", Placed(p, r) PROVE Covers(p, r, e.range)
      BY <2>1, <2>2, <2>4 DEF Covers, Touches
    <2> QED BY <2>3, <2>4 DEF Kept
  <1> QED BY <1>1, <1>2

(* The emulated flash of riscv64_virt.                                     *)
LEMMA EmulatedErase ==
    ASSUME NEW r \in Aims, NEW e,
           e \in EraseOutcomes(riscv64_virt, StartOf(riscv64_virt, r), LengthOf(riscv64_virt, r))
    PROVE  Kept(riscv64_virt, r, e)
  <1> DEFINE p == riscv64_virt
             sizes == Sizes(8 * MiB, 8 * MiB, 4 * MiB)
             off == Unset(<<\h2000, 0>>)
  <1>1. Driven(p, 32 * MiB, \h100000, \h900000, \h1100000, \h1F00000, riscv64_virt_flash,
               sizes, off, off)
    BY DrivenFields, SMT DEF riscv64_virt
  <1>2. off = -1073741824
    BY SMT DEF Unset, MiB, KiB
  <1>3. sizes.slotA = 8388608 /\ sizes.slotB = 8388608 /\ sizes.recovery = 4194304
    BY SMT DEF Sizes, MiB, KiB
  <1> HIDE DEF p, sizes, off
  <1>4. /\ p.driver = "memory" /\ p.flash = 33554432
        /\ p.start.slotA = 1048576 /\ p.start.slotB = 9437184
        /\ p.start.recovery = 17825792 /\ p.start.bootctl = 32505856
        /\ p.start.backup = -1073741824 /\ p.start.log = -1073741824
        /\ p.size.slotA = 8388608 /\ p.size.slotB = 8388608 /\ p.size.recovery = 4194304
    BY <1>1, <1>2, <1>3, SMT DEF Driven, riscv64_virt_flash, MiB, KiB
  <1>5. /\ EndOf(p, "slotA") = 9437184 /\ EndOf(p, "slotB") = 17825792
        /\ EndOf(p, "recovery") = 22020096 /\ EndOf(p, "bootctl") = 32505948
        /\ EndOf(p, "backup") = -1073741732 /\ EndOf(p, "log") = -1073741312
    BY <1>4, SMT DEF EndOf, LengthOf, Slots, CtlBytes, LogBytes
  <1>6. \A s \in Aims : p.start[s] \in Int /\ EndOf(p, s) \in Int /\ p.flash \in Int
    BY <1>4, <1>5, AimsAre, SMT
  <1>7. \A s \in Aims : Placed(p, s) <=> p.start[s] > 0
    BY AimsAre, SMT DEF Placed
  <1>8. e.rc = "OK" /\ e.range.from = p.start[r] /\ e.range.to = EndOf(p, r)
    BY <1>4, AimsAre, SMT DEF EraseOutcomes, StartOf, EndOf, p
  <1>9. \A s \in Aims \ {r} : Placed(p, s) => EndOf(p, r) <= p.start[s] \/ EndOf(p, s) <= p.start[r]
    BY <1>4, <1>5, <1>7, AimsAre, SMT
  <1>10. ~Placed(p, r) => EndOf(p, r) <= 0
    BY <1>4, <1>5, <1>7, AimsAre, SMT
  <1>11. p.start[r] < EndOf(p, r)
    BY <1>4, <1>5, AimsAre, SMT
  <1>12. Aimed(p, r, e)
    BY <1>6, <1>8, <1>9, <1>10, <1>11, SMT DEF Aimed
  <1>13. "slotA" \in Aims /\ Placed(p, "slotA") /\ p.flash \in Int
    BY <1>4, <1>7, AimsAre, SMT
  <1>14. Kept(p, r, e)
    BY <1>6, <1>12, <1>13, AimedIsKept
  <1> QED BY <1>14 DEF p

(* The sectors of the STM32F4: each of its regions begins with a sector and has *)
(* its sectors to itself.                                                       *)
LEMMA SectorErase ==
    ASSUME NEW r \in Aims, NEW e,
           e \in EraseOutcomes(stm32f4, StartOf(stm32f4, r), LengthOf(stm32f4, r))
    PROVE  Kept(stm32f4, r, e)
  <1> DEFINE p == stm32f4
             sizes == Sizes(256 * KiB, 256 * KiB, 128 * KiB)
             first == SectorOf(p.start[r])
             all == SectorRange(p, p.start[r], LengthOf(p, r))
  <1>1. Driven(p, 1 * MiB, \h20000, \h60000, \hA0000, \hC0000, stm32f4_flash,
               sizes, \hE0000, \h10000)
    BY DrivenFields, SMT DEF stm32f4
  <1>2. sizes.slotA = 262144 /\ sizes.slotB = 262144 /\ sizes.recovery = 131072
    BY SMT DEF Sizes, KiB
  <1>3. e \in EraseOutcomes(p, StartOf(p, r), LengthOf(p, r))
    OBVIOUS
  <1> HIDE DEF p, sizes
  <1>4. /\ p.driver = "sectors" /\ p.flash = 1048576
        /\ p.start.slotA = 131072 /\ p.start.slotB = 393216
        /\ p.start.recovery = 655360 /\ p.start.bootctl = 786432
        /\ p.start.backup = 917504 /\ p.start.log = 65536
        /\ p.size.slotA = 262144 /\ p.size.slotB = 262144 /\ p.size.recovery = 131072
    BY <1>1, <1>2, SMT DEF Driven, stm32f4_flash, MiB, KiB
  <1>5. /\ LengthOf(p, "slotA") = 262144 /\ LengthOf(p, "slotB") = 262144
        /\ LengthOf(p, "recovery") = 131072 /\ LengthOf(p, "bootctl") = 92
        /\ LengthOf(p, "backup") = 92 /\ LengthOf(p, "log") = 512
    BY <1>4, SMT DEF LengthOf, Slots, CtlBytes, LogBytes
  <1>6. /\ EndOf(p, "slotA") = 393216 /\ EndOf(p, "slotB") = 655360
        /\ EndOf(p, "recovery") = 786432 /\ EndOf(p, "bootctl") = 786524
        /\ EndOf(p, "backup") = 917596 /\ EndOf(p, "log") = 66048
    BY <1>4, <1>5, SMT DEF EndOf
  <1>7. \A s \in Aims : p.start[s] \in Int /\ EndOf(p, s) \in Int /\ p.start[s] < EndOf(p, s)
    BY <1>4, <1>6, AimsAre, SMT
  <1>8. \A s \in Aims : Placed(p, s)
    BY <1>4, AimsAre, SMT DEF Placed
  <1>9. /\ SectorOf(65536) = 4 /\ SectorOf(131072) = 5 /\ SectorOf(393216) = 7
        /\ SectorOf(655360) = 9 /\ SectorOf(786432) = 10 /\ SectorOf(917504) = 11
        /\ SectorOf(66047) = 4 /\ SectorOf(393215) = 6 /\ SectorOf(655359) = 8
        /\ SectorOf(786431) = 9 /\ SectorOf(786523) = 10 /\ SectorOf(917595) = 11
    BY SMT DEF SectorOf, KiB
  <1>10. /\ SectorStart(4) = 65536 /\ SectorStart(5) = 131072 /\ SectorStart(6) = 262144
         /\ SectorStart(7) = 393216 /\ SectorStart(8) = 524288 /\ SectorStart(9) = 655360
         /\ SectorStart(10) = 786432 /\ SectorStart(11) = 917504 /\ SectorStart(12) = 1048576
    BY SMT DEF SectorStart, KiB
  <1>11. \/ r = "slotA" /\ first = 5 /\ all = 5..6
         \/ r = "slotB" /\ first = 7 /\ all = 7..8
         \/ r = "recovery" /\ first = 9 /\ all = 9..9
         \/ r = "bootctl" /\ first = 10 /\ all = 10..10
         \/ r = "backup" /\ first = 11 /\ all = 11..11
         \/ r = "log" /\ first = 4 /\ all = 4..4
    BY <1>4, <1>5, <1>9, AimsAre, SMT DEF SectorRange
  <1>12. \/ e = [rc |-> "ERROR", range |-> Nowhere]
         \/ \E n \in all : e.range = [from |-> SectorStart(first), to |-> SectorStart(n + 1)]
                           /\ (e.rc = "ERROR" \/ (e.rc = "OK" /\ n + 1 \notin all))
    <2>1. StartOf(p, r) = p.start[r]
      BY AimsAre DEF StartOf
    <2> HIDE DEF all, first
    <2> DEFINE Upto(n) == [from |-> SectorStart(first), to |-> SectorStart(n + 1)]
    <2>2. e \in {[rc |-> "ERROR", range |-> Upto(n)] : n \in all} \cup
                {[rc |-> "ERROR", range |-> Nowhere]} \cup
                {[rc |-> "OK", range |-> Upto(n)] : n \in {m \in all : m + 1 \notin all}}
      BY <1>3, <1>4, <2>1 DEF EraseOutcomes, all, first
    <2> QED BY <2>2
  <1> HIDE DEF all, first
  <1>13. e = [rc |-> "ERROR", range |-> Nowhere] => Aimed(p, r, e)
    BY DEF Aimed
  <1>14. ASSUME NEW n \in all, e.range = [from |-> SectorStart(first), to |-> SectorStart(n + 1)],
                e.rc = "ERROR" \/ (e.rc = "OK" /\ n + 1 \notin all)
         PROVE  Aimed(p, r, e)
    <2>1. e.range.from = p.start[r]
      BY <1>4, <1>10, <1>11, <1>14, SMT
    <2>2. /\ e.range.to \in Int
          /\ \A s \in Aims \ {r} : e.range.to <= p.start[s] \/ EndOf(p, s) <= p.start[r]
      BY <1>4, <1>6, <1>10, <1>11, <1>14, AimsAre, SMT
    <2>3. e.rc = "OK" => EndOf(p, r) <= e.range.to
      BY <1>6, <1>10, <1>11, <1>14, SMT
    <2> QED BY <1>7, <1>8, <2>1, <2>2, <2>3 DEF Aimed
  <1>15. Aimed(p, r, e)
    BY <1>12, <1>13, <1>14
  <1>16. p.flash \in Int /\ \A s \in Aims : p.start[s] \in Int /\ EndOf(p, s) \in Int
    BY <1>4, <1>7, SMT
  <1>17. Kept(p, r, e)
    BY <1>8, <1>15, <1>16, AimedIsKept
  <1> QED BY <1>17 DEF p

(* Any other port clears nothing, and its driver then fails or does nothing.    *)
LEMMA IdleErase ==
    ASSUME NEW p, IdlePort(p), NEW r \in Aims, NEW o, NEW len,
           NEW e \in EraseOutcomes(p, o, len)
    PROVE  Kept(p, r, e)
  <1>1. e.range = Nowhere /\ (e.rc = "ERROR" \/ p.driver = "inert")
    BY DEF IdlePort, EraseOutcomes
  <1>2. \A s \in Regions \ {r} : Placed(p, s) => ~Touches(p, s, Nowhere)
    BY NowhereTouches DEF IdlePort
  <1> QED BY <1>1, <1>2 DEF Kept

LEMMA EraseKeeps ==
    ASSUME NEW p \in AllPorts, NEW r \in Aims,
           NEW e \in EraseOutcomes(p, StartOf(p, r), LengthOf(p, r))
    PROVE  Kept(p, r, e)
  <1>1. CASE p = riscv64_virt
    BY <1>1, EmulatedErase
  <1>2. CASE p = stm32f4
    BY <1>2, SectorErase
  <1>3. CASE p # riscv64_virt /\ p # stm32f4
    BY <1>3, IdlePorts, IdleErase
  <1> QED BY <1>1, <1>2, <1>3

(* The region of the last erase is still as that erase left it, until the next *)
(* operation: the property speaks of the last operation on every later step.   *)
Cleared(p, content, last) ==
    (/\ last.op = "erase" /\ last.rc = "OK"
     /\ p.driver # "inert" /\ Placed(p, last.region))
    => content[last.region] = "erased"

FlashInv == DOMAIN flash = Regions /\ Cleared(g_ops, flash, flashOp)

LEMMA EraseStep ==
    ASSUME TableInv, NEW r \in Aims, eos_hal_flash_erase(r)
    PROVE  /\ DOMAIN flash' = Regions /\ g_ops' = g_ops /\ flashOp'.region = r
           /\ \A s \in Regions \ {r} : flash'[s] = flash[s]
           /\ Cleared(g_ops, flash', flashOp')
  <1>1. PICK e \in EraseOutcomes(g_ops, StartOf(g_ops, r), LengthOf(g_ops, r)) :
          /\ flash' = [s \in Regions |->
                          IF Placed(g_ops, s) THEN Erased(g_ops, s, e.range) ELSE flash[s]]
          /\ flashOp' = [op |-> "erase", region |-> r, rc |-> e.rc]
    BY Zenon DEF eos_hal_flash_erase
  <1>2. g_ops \in AllPorts /\ g_ops' = g_ops
    BY BoardsAssumption DEF TableInv, eos_hal_flash_erase
  <1>3. Kept(g_ops, r, e)
    BY <1>2, EraseKeeps
  <1>4. r \in Regions
    BY DEF Aims
  <1>5. ASSUME NEW s \in Regions \ {r} PROVE flash'[s] = flash[s]
    <2>1. Placed(g_ops, s) => ~Touches(g_ops, s, e.range)
      BY <1>3 DEF Kept
    <2> QED BY <1>1, <2>1 DEF Erased, Covers
  <1>6. Cleared(g_ops, flash', flashOp')
    <2> SUFFICES ASSUME e.rc = "OK", g_ops.driver # "inert", Placed(g_ops, r)
                 PROVE  flash'[r] = "erased"
      BY <1>1 DEF Cleared
    <2>1. Covers(g_ops, r, e.range)
      BY <1>3 DEF Kept
    <2> QED BY <1>1, <1>4, <2>1 DEF Erased
  <1> QED BY <1>1, <1>2, <1>5, <1>6

LEMMA WriteStep ==
    ASSUME FlashInv, NEW r \in Aims, eos_hal_flash_write(r)
    PROVE  /\ DOMAIN flash' = Regions /\ g_ops' = g_ops /\ flashOp'.region = r
           /\ \A s \in Regions \ {r} : flash'[s] = flash[s]
           /\ Cleared(g_ops, flash', flashOp')
  <1>1. PICK w \in WriteOutcomes(g_ops, flash[r]) :
          /\ flash' = [flash EXCEPT ![r] = w.now]
          /\ flashOp' = [op |-> "write", region |-> r, rc |-> w.rc]
    BY Zenon DEF eos_hal_flash_write
  <1>2. flashOp'.op # "erase" /\ flashOp'.region = r /\ g_ops' = g_ops
    BY <1>1 DEF eos_hal_flash_write
  <1> QED BY <1>1, <1>2 DEF FlashInv, Cleared

\* A step of RegionsKept.
KeepsRegions ==
    g_ops' = g_ops =>
       /\ \A r \in Regions : flash'[r] # flash[r] => r = flashOp'.region
       /\ Cleared(g_ops', flash', flashOp')

LEMMA FlashSteps ==
    ASSUME TableInv, FlashInv, [RegistryNext \/ FlashNext \/ TableNext]_boardVars
    PROVE  FlashInv' /\ KeepsRegions
  <1>1. ASSUME UNCHANGED <<g_ops, flash, flashOp>> PROVE FlashInv' /\ KeepsRegions
    BY <1>1 DEF FlashInv, Cleared, KeepsRegions, Placed
  <1>2. ASSUME NEW p, eos_hal_init(p) PROVE FlashInv' /\ KeepsRegions
    <2>1. CASE p = g_ops
      BY <1>1, <1>2, <2>1 DEF eos_hal_init
    <2>2. CASE p # g_ops
      <3>1. flash' = [r \in Regions |-> "data"] /\ flashOp' = NoOp /\ g_ops' # g_ops
        BY <1>2, <2>2 DEF eos_hal_init
      <3>2. flashOp'.op # "erase"
        BY <3>1 DEF NoOp
      <3> QED BY <3>1, <3>2 DEF FlashInv, Cleared, KeepsRegions
    <2> QED BY <2>1, <2>2
  <1>3. CASE RegistryNext
    <2>1. ASSUME NEW p, eos_board_register(p) PROVE FlashInv' /\ KeepsRegions
      BY <1>1, <2>1 DEF eos_board_register
    <2> QED BY <1>2, <1>3, <2>1 DEF RegistryNext, eos_board_activate, eos_board_activate_auto
  <1>4. CASE FlashNext
    <2>1. PICK r \in Aims : eos_hal_flash_erase(r) \/ eos_hal_flash_write(r)
      BY <1>4 DEF FlashNext, Aims
    <2>2. /\ DOMAIN flash' = Regions /\ g_ops' = g_ops /\ flashOp'.region = r
          /\ \A s \in Regions \ {r} : flash'[s] = flash[s]
          /\ Cleared(g_ops, flash', flashOp')
      BY <2>1, EraseStep, WriteStep
    <2> QED BY <2>2 DEF FlashInv, Cleared, KeepsRegions, Placed
  <1>5. CASE TableNext
    BY <1>1, <1>5 DEF TableNext, init_device_table, eos_device_table_add_memory,
       eos_device_table_add_peripheral, eos_device_table_finalize, OverwriteTable
  <1>6. CASE UNCHANGED boardVars
    BY <1>1, <1>6 DEF boardVars
  <1> QED BY <1>3, <1>4, <1>5, <1>6

(* eos_hal_flash_erase() and eos_hal_flash_write(), on every port of the       *)
(* repository: an operation changes no region but the one it is aimed at, also *)
(* when it fails half way, and an erase that reports success has cleared it    *)
(* all, unless the driver does nothing.                                        *)
THEOREM RegionsAreKept == BoardsSpec => RegionsKept
  <1>1. BoardsInit => FlashInv
    BY DEF BoardsInit, FlashInv, Cleared, NoOp
  <1>2. TableInv /\ FlashInv /\ [RegistryNext \/ FlashNext \/ TableNext]_boardVars => FlashInv'
    BY FlashSteps
  <1>3. TableInv /\ FlashInv /\ [RegistryNext \/ FlashNext \/ TableNext]_boardVars
        => [KeepsRegions]_boardVars
    BY FlashSteps
  <1>4. [KeepsRegions]_boardVars =>
        [g_ops' = g_ops =>
         /\ \A r \in Regions : flash'[r] # flash[r] => r = flashOp'.region
         /\ (/\ flashOp'.op = "erase" /\ flashOp'.rc = "OK"
             /\ g_ops'.driver # "inert" /\ Placed(g_ops', flashOp'.region))
            => flash'[flashOp'.region] = "erased"]_boardVars
    BY DEF KeepsRegions, Cleared
  <1> QED BY TableInvariant, <1>1, <1>2, <1>3, <1>4, PTL DEF BoardsSpec, RegionsKept

-----------------------------------------------------------------------------
(* Memory protection                                                       *)

(* The powers of two, written out.                                         *)
LEMMA Powers ==
    /\ TwoTo(0) = 1
    /\ TwoTo(1) = 2
    /\ TwoTo(2) = 4
    /\ TwoTo(3) = 8
    /\ TwoTo(4) = 16
    /\ TwoTo(5) = 32
    /\ TwoTo(6) = 64
    /\ TwoTo(7) = 128
    /\ TwoTo(8) = 256
    /\ TwoTo(9) = 512
    /\ TwoTo(10) = 1024
    /\ TwoTo(11) = 2048
    /\ TwoTo(12) = 4096
    /\ TwoTo(13) = 8192
    /\ TwoTo(14) = 16384
    /\ TwoTo(15) = 32768
    /\ TwoTo(16) = 65536
    /\ TwoTo(17) = 131072
    /\ TwoTo(18) = 262144
  BY DEF TwoTo

(* Each of them is twice the one before.                                   *)
LEMMA Doubled ==
    \A n \in 0..17 : TwoTo(n) \in Nat \ {0} /\ TwoTo(n + 1) = 2 * TwoTo(n)
  <1>1. \A n \in 0..17 : n \in {0, 1, 2, 3, 4, 5, 6, 7, 8, 9, 10, 11, 12, 13, 14, 15, 16, 17}
    OBVIOUS
  <1>2. SUFFICES ASSUME NEW n \in 0..17
                 PROVE  TwoTo(n) \in Nat \ {0} /\ TwoTo(n + 1) = 2 * TwoTo(n)
    OBVIOUS
  <1>3. CASE n \in {0, 1, 2, 3, 4, 5}
    BY <1>3, Powers
  <1>4. CASE n \in {6, 7, 8, 9, 10, 11}
    BY <1>4, Powers
  <1>5. CASE n \in {12, 13, 14, 15, 16, 17}
    BY <1>5, Powers
  <1> QED BY <1>1, <1>2, <1>3, <1>4, <1>5

(* A larger exponent, a larger power.                                      *)
LEMMA PowersGrow ==
    ASSUME NEW i \in 0..18, NEW j \in 0..18, i < j
    PROVE  TwoTo(i) < TwoTo(j)
  <1>1. \A n \in 0..18 : n \in {0, 1, 2, 3, 4, 5, 6, 7, 8, 9, 10, 11, 12, 13, 14, 15, 16, 17, 18}
    OBVIOUS
  <1> QED BY <1>1, Powers

(* The loop of eos_mpu_apply() finds the exponent of the power below a size. *)
LEMMA ExponentOfSize ==
    ASSUME NEW size \in Nat, NEW n \in 0..17, TwoTo(n) <= size, size < TwoTo(n + 1)
    PROVE  SizeBits(size) = n
  <1>1. \A k \in 0..17 : TwoTo(k) <= size /\ size < TwoTo(k + 1) => k = n
    <2> SUFFICES ASSUME NEW k \in 0..17, TwoTo(k) <= size, size < TwoTo(k + 1), k # n
                 PROVE  FALSE
      OBVIOUS
    <2>1. TwoTo(k) \in Nat /\ TwoTo(n) \in Nat /\ TwoTo(k + 1) \in Nat /\ TwoTo(n + 1) \in Nat
      BY Doubled
    <2>2. CASE k < n
      <3>1. k + 1 = n \/ TwoTo(k + 1) < TwoTo(n)
        BY <2>2, PowersGrow
      <3> QED BY <3>1, <2>1
    <2>3. CASE n < k
      <3>1. n + 1 = k \/ TwoTo(n + 1) < TwoTo(k)
        BY <2>3, PowersGrow
      <3> QED BY <3>1, <2>1
    <2> QED BY <2>2, <2>3
  <1> QED BY <1>1 DEF SizeBits


\* What a region looks like, and what may stand at the sixth place of a profile and
\* behind.
MpuRegions == [base : Nat, size : Nat, access : MpuAccess, exec : BOOLEAN]
Added == {SystemControl} \cup ExtraRegions

\* A profile, with what a platform may have added.
Profile(s) ==
    /\ s \in Seq(MpuRegions) /\ Len(s) <= HW_REGIONS
    /\ \A i \in 6..Len(s) : s[i] \in Added

(* Sequences of four, five and six regions are profiles.                   *)
LEMMA ShortProfile ==
    ASSUME NEW a \in MpuRegions, NEW b \in MpuRegions, NEW c \in MpuRegions,
           NEW d \in MpuRegions, NEW e \in MpuRegions
    PROVE  /\ Profile(<<a, b, c, d>>)
           /\ Profile(<<a, b, c, d, e>>)
           /\ Profile(<<a, b, c, d, e, SystemControl>>)
  <1> HIDE DEF MpuRegions
  <1>1. SystemControl \in MpuRegions
    BY DEF SystemControl, MpuRegion, MpuRegions, MpuAccess, SystemBase, MB
  <1> HIDE DEF SystemControl
  <1>2. Profile(<<a, b, c, d>>)
    BY DEF Profile, HW_REGIONS
  <1>3. Profile(<<a, b, c, d, e>>)
    BY DEF Profile, HW_REGIONS
  <1>4. Profile(<<a, b, c, d, e, SystemControl>>)
    <2> DEFINE s == <<a, b, c, d, e, SystemControl>>
    <2>1. s \in Seq(MpuRegions) /\ Len(s) = 6 /\ s[6] = SystemControl
      BY <1>1
    <2> HIDE DEF s
    <2>2. \A i \in 6..Len(s) : i = 6
      BY <2>1
    <2>3. Profile(s)
      BY <2>1, <2>2 DEF Profile, HW_REGIONS, Added
    <2> QED BY <2>3 DEF s
  <1> QED BY <1>2, <1>3, <1>4

(* The regions that the boot loader asks for.                              *)
LEMMA RegionType ==
    ASSUME NEW base \in Nat, NEW size \in Nat, NEW access \in MpuAccess, NEW exec \in BOOLEAN
    PROVE  MpuRegion(base, size, access, exec) \in MpuRegions
  BY DEF MpuRegion, MpuRegions

(* The profiles of eos_mpu_set_default(), eos_mpu_set_bootloader() and     *)
(* eos_mpu_set_lockdown().                                                 *)
LEMMA BootProfiles ==
    Profile(DefaultProfile) /\ Profile(BootloaderProfile) /\ Profile(LockdownProfile)
  <1>0. /\ FlashBase \in Nat /\ FlashBase + 4 \in Nat /\ FlashBase + 8 \in Nat
        /\ RamBase \in Nat /\ RamBase + 1 \in Nat /\ PeriphBase \in Nat /\ SystemBase \in Nat
        /\ PeriphSize \in Nat /\ MB \in Nat /\ 2 * MB \in Nat
    BY DEF FlashBase, RamBase, PeriphBase, SystemBase, PeriphSize, MB
  <1>1. /\ "FULL_RO" \in MpuAccess /\ "FULL_RW" \in MpuAccess /\ "PRIV_RW" \in MpuAccess
        /\ "NO_ACCESS" \in MpuAccess
    BY DEF MpuAccess
  <1>2. \A x \in MpuAccess : Peripherals(x) \in MpuRegions
    BY <1>0, RegionType DEF Peripherals
  <1>3. SystemControl \in MpuRegions
    BY <1>0, <1>1, RegionType DEF SystemControl
  <1>4. /\ MpuRegion(FlashBase, 2 * MB, "FULL_RO", TRUE) \in MpuRegions
        /\ MpuRegion(RamBase, MB, "FULL_RW", FALSE) \in MpuRegions
        /\ MpuRegion(FlashBase, 4, "FULL_RO", TRUE) \in MpuRegions
        /\ MpuRegion(FlashBase + 4, 4, "FULL_RO", FALSE) \in MpuRegions
        /\ MpuRegion(RamBase, 1, "FULL_RW", FALSE) \in MpuRegions
        /\ MpuRegion(RamBase + 1, 3, "FULL_RW", FALSE) \in MpuRegions
        /\ MpuRegion(FlashBase + 8, 120, "FULL_RO", TRUE) \in MpuRegions
        /\ MpuRegion(FlashBase, 8, "NO_ACCESS", FALSE) \in MpuRegions
    BY <1>0, <1>1, RegionType
  <1> QED BY <1>1, <1>2, <1>3, <1>4, ShortProfile, Zenon
          DEF DefaultProfile, BootloaderProfile, LockdownProfile

(* The profiles of eos_rtos_configure_mpu().                               *)
LEMMA RtosProfiles ==
    ASSUME NEW c \in RtosConfigs
    PROVE  Profile(PrivilegedProfile(c)) /\ Profile(ProtectedProfile(c))
  <1>0. /\ MiBDown(c.entry) \in Nat /\ MiBDown(c.stack) \in Nat
        /\ MiBDown(c.stack) + 16 \in Nat /\ c.heap_start \in Nat /\ c.heap_size \in Nat
    BY MpuAssumption DEF MiBDown, MB
  <1>a. /\ PeriphBase \in Nat /\ PeriphSize \in Nat /\ SystemBase \in Nat
        /\ MB \in Nat /\ 2 * MB \in Nat /\ 4 \in Nat /\ 16 \in Nat
    BY SMT DEF PeriphBase, PeriphSize, SystemBase, MB
  <1>1. "PRIV_RO" \in MpuAccess /\ "PRIV_RW" \in MpuAccess /\ "FULL_RW" \in MpuAccess
    BY DEF MpuAccess
  <1>2. Peripherals("PRIV_RW") \in MpuRegions /\ SystemControl \in MpuRegions
    BY <1>a, <1>1, RegionType DEF Peripherals, SystemControl
  <1>3. /\ MpuRegion(MiBDown(c.entry), 2 * MB, "PRIV_RO", TRUE) \in MpuRegions
        /\ MpuRegion(MiBDown(c.entry), MB, "PRIV_RO", TRUE) \in MpuRegions
        /\ MpuRegion(MiBDown(c.stack), MB, "PRIV_RW", FALSE) \in MpuRegions
        /\ MpuRegion(MiBDown(c.stack), 16, "FULL_RW", FALSE) \in MpuRegions
        /\ MpuRegion(MiBDown(c.stack) + 16, 4, "FULL_RW", FALSE) \in MpuRegions
        /\ MpuRegion(c.heap_start, c.heap_size, "PRIV_RW", FALSE) \in MpuRegions
    BY <1>0, <1>a, <1>1, RegionType
  <1> QED BY <1>2, <1>3, ShortProfile, Zenon DEF PrivilegedProfile, ProtectedProfile

\* What was last applied is what the unit is programmed with; behind a profile of five
\* regions stands nothing, the system control space, or what a platform added.
MpuInv ==
    /\ Profile(mpu_ctx) /\ Profile(mpu_asked)
    /\ DOMAIN mpu_hw = 1..HW_REGIONS
    /\ \A i \in 1..Len(mpu_asked) : mpu_hw[i] = Programmed(mpu_asked[i])
    /\ \A i \in 6..HW_REGIONS :
         mpu_hw[i] = Unprogrammed \/ \E r \in Added : mpu_hw[i] = Programmed(r)

(* Programming a profile keeps the invariant.                              *)
LEMMA AppliedKeeps ==
    ASSUME MpuInv, NEW regions, Profile(regions), Applied(regions), Profile(mpu_ctx')
    PROVE  MpuInv'
  <1> HIDE DEF Added, Unprogrammed, Programmed
  <1>1. Len(regions) \in Nat /\ Len(regions) <= 8
    BY DEF Profile, HW_REGIONS
  <1>2. /\ DOMAIN mpu_hw' = 1..8 /\ mpu_asked' = regions
        /\ \A i \in 1..8 : mpu_hw'[i] = IF i <= Len(regions) THEN Programmed(regions[i])
                                        ELSE mpu_hw[i]
    BY DEF Applied, HW_REGIONS
  <1>3. \A i \in 1..Len(regions) : mpu_hw'[i] = Programmed(regions[i])
    BY <1>1, <1>2
  <1>4. ASSUME NEW i \in 6..8
        PROVE  mpu_hw'[i] = Unprogrammed \/ \E r \in Added : mpu_hw'[i] = Programmed(r)
    <2>1. CASE i <= Len(regions)
      <3>1. regions[i] \in Added
        BY <1>1, <2>1 DEF Profile
      <3> QED BY <1>2, <2>1, <3>1
    <2>2. CASE ~(i <= Len(regions))
      BY <1>2, <2>2 DEF MpuInv, HW_REGIONS
    <2> QED BY <2>1, <2>2
  <1> QED BY <1>2, <1>3, <1>4 DEF MpuInv, HW_REGIONS

(* So does every other step that edits the context only.                   *)
LEMMA MpuNextInv == MpuInv /\ [MpuNext]_mpuVars => MpuInv'
  <1> SUFFICES ASSUME MpuInv, [MpuNext]_mpuVars PROVE MpuInv'
    OBVIOUS
  <1>1. UNCHANGED <<mpu_hw, mpu_asked>> /\ Profile(mpu_ctx') => MpuInv'
    BY DEF MpuInv, Profile
  <1>2. Profile(mpu_ctx)
    BY DEF MpuInv
  <1>3. CASE UNCHANGED mpuVars
    BY <1>1, <1>2, <1>3 DEF mpuVars
  <1>4. CASE eos_mpu_init
    <2>1. Profile(<<>>)
      BY DEF Profile, HW_REGIONS
    <2> QED BY <1>1, <1>4, <2>1 DEF eos_mpu_init
  <1>5. CASE eos_mpu_set_default \/ eos_mpu_set_bootloader \/ eos_mpu_set_lockdown
    BY <1>1, <1>5, BootProfiles
       DEF eos_mpu_set_default, eos_mpu_set_bootloader, eos_mpu_set_lockdown
  <1>6. ASSUME NEW r \in ExtraRegions, eos_mpu_add_region(r)
        PROVE  MpuInv'
    <2>1. r \in MpuRegions
      BY MpuAssumption, Powers DEF MpuRegions
    <2>2. Len(mpu_ctx) < HW_REGIONS /\ mpu_ctx' = Append(mpu_ctx, r)
      BY <1>6 DEF eos_mpu_add_region
    <2> HIDE DEF MpuRegions
    <2>3. Profile(mpu_ctx')
      BY <1>2, <2>1, <2>2 DEF Profile, Added, HW_REGIONS
    <2> QED BY <1>1, <1>6, <2>3 DEF eos_mpu_add_region
  <1>7. CASE eos_mpu_apply
    BY <1>2, <1>7, AppliedKeeps DEF eos_mpu_apply
  <1>8. CASE eos_mpu_disable
    BY <1>1, <1>2, <1>8 DEF eos_mpu_disable
  <1>9. ASSUME NEW c \in RtosConfigs, eos_rtos_configure_mpu(c)
        PROVE  MpuInv'
    BY <1>1, <1>2, <1>9, AppliedKeeps, RtosProfiles DEF eos_rtos_configure_mpu
  <1> QED BY <1>3, <1>4, <1>5, <1>6, <1>7, <1>8, <1>9 DEF MpuNext

(* What eos_mpu_apply() programs for a region.                             *)
LEMMA ProgrammedFields ==
    ASSUME NEW r
    PROVE  /\ Programmed(r).base = Encoded(r.base, SizeBits(r.size)).base
           /\ Programmed(r).size = Encoded(r.base, SizeBits(r.size)).size
           /\ Programmed(r).access = r.access
  BY DEF Programmed, MpuRegion

(* The last three regions of the lockdown profile, as they are asked for.  *)
LEMMA LockRegions ==
    /\ Len(LockdownProfile) = 5
    /\ LockdownProfile[3].base = 8192 /\ LockdownProfile[3].size = 8
    /\ LockdownProfile[3].access = "NO_ACCESS"
    /\ LockdownProfile[4].base = 65536 /\ LockdownProfile[4].size = 32768
    /\ LockdownProfile[5] = SystemControl
    /\ SystemControl.base = 229376 /\ SystemControl.size = 4
  <1>1. FlashBase = 8192 /\ PeriphBase = 65536 /\ SystemBase = 229376 /\ PeriphSize = 32768
    BY SMT DEF FlashBase, PeriphBase, SystemBase, PeriphSize, MB
  <1>2. /\ LockdownProfile[3].base = FlashBase /\ LockdownProfile[3].size = 8
        /\ LockdownProfile[3].access = "NO_ACCESS"
    BY DEF LockdownProfile, MpuRegion
  <1>3. LockdownProfile[4].base = PeriphBase /\ LockdownProfile[4].size = PeriphSize
    BY DEF LockdownProfile, Peripherals, MpuRegion
  <1>4. SystemControl.base = SystemBase /\ SystemControl.size = 4
    BY DEF SystemControl, MpuRegion
  <1>5. Len(LockdownProfile) = 5 /\ LockdownProfile[5] = SystemControl
    BY DEF LockdownProfile
  <1> QED BY <1>1, <1>2, <1>3, <1>4, <1>5, SMT

(* And as they are programmed: twice the size asked for, from its base.    *)
LEMMA LockProgrammed ==
    /\ Programmed(LockdownProfile[3]).base = 8192 /\ Programmed(LockdownProfile[3]).size = 16
    /\ Programmed(LockdownProfile[3]).access = "NO_ACCESS"
    /\ Programmed(LockdownProfile[4]).base = 65536
    /\ Programmed(SystemControl).base = 229376
  <1>1. SizeBits(8) = 3 /\ SizeBits(4) = 2 /\ SizeBits(32768) = 15
    <2>1. TwoTo(3) <= 8 /\ 8 < TwoTo(3 + 1)
      BY Powers
    <2>2. TwoTo(2) <= 4 /\ 4 < TwoTo(2 + 1)
      BY Powers
    <2>3. TwoTo(15) <= 32768 /\ 32768 < TwoTo(15 + 1)
      BY Powers, SMT
    <2> QED BY <2>1, <2>2, <2>3, ExponentOfSize
  <1>2. TwoTo(3 + 1) = 16 /\ TwoTo(2 + 1) = 8 /\ TwoTo(15 + 1) = 65536
    BY Powers, SMT
  <1>3. (8192 \div 16) * 16 = 8192 /\ (229376 \div 8) * 8 = 229376
        /\ (65536 \div 65536) * 65536 = 65536
    BY SMT
  <1>4. /\ Encoded(8192, 3).base = 8192 /\ Encoded(8192, 3).size = 16
        /\ Encoded(229376, 2).base = 229376 /\ Encoded(65536, 15).base = 65536
    BY <1>2, <1>3, SMT DEF Encoded
  <1>5. /\ Programmed(LockdownProfile[3]).base = 8192
        /\ Programmed(LockdownProfile[3]).size = 16
        /\ Programmed(LockdownProfile[3]).access = "NO_ACCESS"
    BY <1>1, <1>4, LockRegions, ProgrammedFields, SMT
  <1>6. Programmed(LockdownProfile[4]).base = 65536
    BY <1>1, <1>4, LockRegions, ProgrammedFields, SMT
  <1>7. Programmed(SystemControl).base = 229376
    BY <1>1, <1>4, LockRegions, ProgrammedFields, SMT
  <1> QED BY <1>5, <1>6, <1>7, SMT

(* Nothing behind the profile reaches the boot loader's flash.             *)
LEMMA LaterElsewhere ==
    ASSUME MpuInv, NEW a \in BootLoaderFlash, NEW i \in 6..HW_REGIONS,
           \A r \in ExtraRegions : ~InRegion(Programmed(r), a)
    PROVE  ~InRegion(mpu_hw[i], a)
  <1>1. a \in Nat /\ 8192 <= a /\ a <= 8199
    BY SMT DEF BootLoaderFlash, FlashBase, MB
  <1>2. CASE mpu_hw[i] = Unprogrammed
    BY <1>1, <1>2 DEF Unprogrammed, InRegion
  <1>3. CASE \E r \in Added : mpu_hw[i] = Programmed(r)
    <2>1. ~InRegion(Programmed(SystemControl), a)
      BY <1>1, LockProgrammed, SMT DEF InRegion
    <2> QED BY <1>3, <2>1 DEF Added
  <1> QED BY <1>2, <1>3 DEF MpuInv

(* The invariant decides the third region of the lockdown profile.         *)
LEMMA MpuInvLocks == MpuInv => LockdownHolds
  <1> SUFFICES ASSUME MpuInv, LockedDown, NEW a \in BootLoaderFlash,
                      \A r \in ExtraRegions : ~InRegion(Programmed(r), a)
               PROVE  Governs(3, a) /\ mpu_hw[3].access = "NO_ACCESS"
    BY DEF LockdownHolds, HW_REGIONS
  <1>1. a \in Nat /\ 8192 <= a /\ a <= 8199
    BY SMT DEF BootLoaderFlash, FlashBase, MB
  <1>2. \A i \in {3, 4, 5} : mpu_hw[i] = Programmed(LockdownProfile[i])
    <2>1. Len(mpu_asked) \in Nat /\ Len(mpu_asked) >= 5
      BY LockRegions DEF LockedDown, MpuInv, Profile
    <2>2. \A i \in 1..5 : mpu_asked[i] = LockdownProfile[i]
      BY LockRegions DEF LockedDown
    <2>3. \A i \in 1..Len(mpu_asked) : mpu_hw[i] = Programmed(mpu_asked[i])
      BY DEF MpuInv
    <2>4. \A i \in {3, 4, 5} : i \in 1..5 /\ i \in 1..Len(mpu_asked)
      BY <2>1
    <2> QED BY <2>2, <2>3, <2>4
  <1>3. /\ mpu_hw[3] = Programmed(LockdownProfile[3])
        /\ mpu_hw[4] = Programmed(LockdownProfile[4])
        /\ mpu_hw[5] = Programmed(SystemControl)
    BY <1>2, LockRegions
  <1>4. InRegion(mpu_hw[3], a) /\ mpu_hw[3].access = "NO_ACCESS"
    BY <1>1, <1>3, LockProgrammed, SMT DEF InRegion
  <1>5. ~InRegion(mpu_hw[4], a)
    BY <1>1, <1>3, LockProgrammed, SMT DEF InRegion
  <1>6. ~InRegion(mpu_hw[5], a)
    BY <1>1, <1>3, LockProgrammed, SMT DEF InRegion
  <1>7. \A j \in 4..HW_REGIONS : j \in {4, 5} \/ j \in 6..HW_REGIONS
    BY DEF HW_REGIONS
  <1> QED BY <1>4, <1>5, <1>6, <1>7, LaterElsewhere DEF Governs

(* Once eos_mpu_apply() has programmed the lockdown profile, no access     *)
(* reaches the boot loader's flash, whatever profiles of the boot loader   *)
(* or of an RTOS were applied before, for any regions a platform adds that *)
(* are not programmed over it.                                             *)
THEOREM BootLoaderLocked == MpuSpec => []LockdownHolds
  <1>1. MpuInit => MpuInv
    <2>1. Profile(<<>>) /\ Len(<<>>) = 0
      BY DEF Profile, HW_REGIONS
    <2> QED BY <2>1 DEF MpuInit, MpuInv, HW_REGIONS
  <1> QED BY <1>1, MpuNextInv, MpuInvLocks, PTL DEF MpuSpec

=============================================================================
