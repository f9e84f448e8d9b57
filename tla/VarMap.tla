------------------------------- MODULE VarMap -------------------------------
(***************************************************************************)
(* What the runtime variable services promise: a map from names to values  *)
(* with a limit on the number of names.                                    *)
(***************************************************************************)
EXTENDS Naturals, FiniteSets

CONSTANTS VarNames, Values, MaxNames

VARIABLES
    map,        \* the variables and their values
    done        \* the operation carried out last: <<operation, name, value>>

Empty == [n \in {} |-> 0]

Clear == map' = Empty /\ done' = <<"init">>

Put(n, v) ==
    /\ n \in DOMAIN map \/ Cardinality(DOMAIN map) < MaxNames
    /\ map' = [m \in DOMAIN map \cup {n} |-> IF m = n THEN v ELSE map[m]]
    /\ done' = <<"set", n, v>>

Remove(n) ==
    /\ n \in DOMAIN map
    /\ map' = [m \in DOMAIN map \ {n} |-> map[m]]
    /\ done' = <<"delete", n>>

Spec ==
    /\ map = Empty /\ done = <<"init">>
    /\ [][\/ Clear
          \/ \E n \in VarNames, v \in Values : Put(n, v)
          \/ \E n \in VarNames : Remove(n)]_<<map, done>>

=============================================================================
