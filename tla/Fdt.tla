-------------------------------- MODULE Fdt --------------------------------
(***************************************************************************)
(* Looking up a property in a flattened device tree (core/fdt_loader.c).   *)
(* eos_fdt_get_prop() walks the structure block once, token by token, and  *)
(* keeps no stack: a depth, how many leading components of the path the    *)
(* open nodes match, and whether the target is open.  The blob is whatever *)
(* was in flash, so the tokens are chosen as the walk meets them, balanced *)
(* or not.                                                                 *)
(*                                                                         *)
(* A node name and a path component are a name and a unit address, with "" *)
(* for none.  Where a token's length, name or offset fails a bounds check  *)
(* the walk ends with an error; the bytes themselves are left out.         *)
(***************************************************************************)
EXTENDS Integers, Sequences

CONSTANTS
    NodeNames,      \* names of nodes: <<name, unit address>>
    NodePaths,      \* paths that are looked up: sequences of components
    MaxDepth        \* bound: nesting of the blob

ASSUME FdtAssumption ==
    /\ MaxDepth \in Nat
    /\ NodePaths \subseteq Seq(STRING \X STRING)

VARIABLES
    walk,       \* path, depth, matched, in_target and target_depth
    found,      \* what the call returned, or how far it is
    open,       \* history: the names of the open nodes below the root
    skipped     \* history: the property was met on the node asked for and passed over

fdtVars == <<walk, found, open, skipped>>

FdtInit ==
    /\ walk \in [path : NodePaths, depth : {0}, matched : {0}, in_target : {FALSE},
                 target_depth : {-1}]
    /\ found = "called" /\ open = <<>> /\ skipped = FALSE

\* The blocks of the header lie inside the blob and the blob inside the buffer, or the
\* call fails.
eos_fdt_validate ==
    /\ found = "called"
    /\ found' \in {"walking", "bad blob"}
    /\ UNCHANGED <<walk, open, skipped>>

\* A component without a unit address matches a node with any, or with none.
fdt_name_matches(name, comp) == name[1] = comp[1] /\ (comp[2] = "" \/ name[2] = comp[2])

ncomp == Len(walk.path)

\* A node advances the match only while all its ancestors have matched.
MatchedBy(d, name) ==
    IF d >= 2 /\ walk.matched = d - 2 /\ d - 2 < ncomp /\ fdt_name_matches(name, walk.path[d - 1])
    THEN d - 1 ELSE walk.matched

BeginNode(name) ==
    /\ found = "walking"
    /\ walk.depth < MaxDepth
    /\ LET d     == walk.depth + 1
           m     == MatchedBy(d, name)
           enter == ~walk.in_target /\ d = ncomp + 1 /\ m = ncomp
       IN  /\ walk' = [walk EXCEPT !.depth = d, !.matched = m,
                          !.in_target = walk.in_target \/ enter,
                          !.target_depth = IF enter THEN d ELSE @]
           /\ open' = IF d = 1 THEN open ELSE Append(open, name)
    /\ UNCHANGED <<found, skipped>>

\* Leaving a node un-matches it for the branch that the walk returns to.
Unmatched_OnlyLast(d) == IF walk.matched > d - 1 /\ d >= 2 THEN d - 2 ELSE walk.matched
Unmatched(d) == IF walk.matched >= d - 1 /\ d >= 2 THEN d - 2 ELSE walk.matched

EndNode ==
    /\ found = "walking"
    /\ \/ /\ walk.depth = 0
          /\ found' = "bad blob"
          /\ UNCHANGED <<walk, open>>
       \/ /\ walk.depth > 0
          /\ walk' = [walk EXCEPT !.depth = @ - 1, !.matched = Unmatched(walk.depth),
                         !.in_target = @ /\ walk.depth # walk.target_depth]
          /\ open' = IF open = <<>> THEN open ELSE SubSeq(open, 1, Len(open) - 1)
          /\ UNCHANGED found
    /\ UNCHANGED skipped

\* The node that the walk is in is the one that the path names.
AtPath ==
    /\ walk.depth = ncomp + 1
    /\ \A i \in 1..ncomp : fdt_name_matches(open[i], walk.path[i])

\* A property with the name asked for; a value longer than the caller's buffer is
\* reported with its length.
WantedProp ==
    /\ found = "walking"
    /\ IF walk.in_target /\ walk.depth = walk.target_depth
       THEN found' \in {"value", "too long"} /\ UNCHANGED skipped
       ELSE skipped' = (skipped \/ AtPath) /\ UNCHANGED found
    /\ UNCHANGED <<walk, open>>

\* FDT_END, or the end of the block.  Padding and other properties change nothing.
End ==
    /\ found = "walking"
    /\ found' = "not found"
    /\ UNCHANGED <<walk, open, skipped>>

\* An unknown token, or one whose length, name or offset leaves its block.
BadToken ==
    /\ found = "walking"
    /\ found' = "bad blob"
    /\ UNCHANGED <<walk, open, skipped>>

FdtNext ==
    \/ eos_fdt_validate
    \/ \E name \in NodeNames : BeginNode(name)
    \/ EndNode
    \/ WantedProp
    \/ End
    \/ BadToken

FdtSpec == FdtInit /\ [][FdtNext]_fdtVars

-----------------------------------------------------------------------------
(* Properties.                                                             *)

FdtTypeOK ==
    /\ walk.depth \in 0..MaxDepth /\ walk.matched \in 0..MaxDepth
    /\ found \in {"called", "walking", "value", "too long", "not found", "bad blob"}

\* The property returned belongs to the node that the path names, ancestors included,
\* and the walk answers "not found" only when it met no such property: without a
\* stack, whatever subtrees were entered and left before.
PropOfNodeAsked ==
    /\ found \in {"value", "too long"} => AtPath
    /\ found = "not found" => ~skipped

=============================================================================
