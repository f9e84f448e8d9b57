------------------------------ MODULE Services ------------------------------
(***************************************************************************)
(* The runtime variable services (core/runtime_services.c): an array of    *)
(* entries that are appended, overwritten in place, and shifted down when  *)
(* one is deleted.  A value is stored in a buffer of fixed size next to    *)
(* its length, and what lies behind the length is old data.                *)
(***************************************************************************)
EXTENDS Naturals, Sequences, FiniteSets

CONSTANTS
    VarNames,       \* names of variables
    Bytes,          \* contents of a byte
    MaxVars,        \* EOS_RTSVC_MAX_VARS
    MaxVarSize      \* EOS_RTSVC_MAX_VAR_SIZE

ASSUME ServicesAssumption == MaxVars \in Nat \ {0} /\ MaxVarSize \in Nat \ {0}

VARIABLES
    var_store,      \* the array of entries
    var_count,      \* how many of them are in use
    next_boot_slot, \* the slot asked for next
    svcOp           \* history: the operation on variables carried out last

svcVars == <<var_store, var_count, next_boot_slot, svcOp>>

NoName == "no name"
EmptyEntry == [name |-> NoName, data |-> [i \in 1..MaxVarSize |-> 0], size |-> 0]
BootSlots == {"A", "B", "RECOVERY", "NONE"}

Cleared == [i \in 1..MaxVars |-> EmptyEntry]

SvcInit ==
    /\ var_store = Cleared /\ var_count = 0 /\ next_boot_slot = "NONE"
    /\ svcOp = <<"init">>

eos_rtsvc_init ==
    /\ var_store' = Cleared /\ var_count' = 0 /\ next_boot_slot' = "NONE"
    /\ svcOp' = <<"init">>

find_var(n) == {i \in 1..var_count : var_store[i].name = n}

\* A value shorter than the one before leaves the rest of the buffer as it was.
StoredValue(old, n, v) ==
    [name |-> n, size |-> Len(v),
     data |-> [i \in 1..MaxVarSize |-> IF i <= Len(v) THEN v[i] ELSE old.data[i]]]

\* A new name needs a free entry.
Room_OffByOne(n) == find_var(n) # {} \/ var_count <= MaxVars

Room(n) == find_var(n) # {} \/ var_count < MaxVars

eos_rtsvc_set_variable(n, v) ==
    /\ Room(n)
    /\ LET at == IF find_var(n) = {} THEN var_count + 1 ELSE CHOOSE i \in find_var(n) : TRUE
       IN  /\ var_store' = [var_store EXCEPT ![at] = StoredValue(@, n, v)]
           /\ var_count' = IF at > var_count THEN at ELSE var_count
    /\ svcOp' = <<"set", n, v>>
    /\ UNCHANGED next_boot_slot

\* The entries after the deleted one move down and the last one is cleared.
Shifted_Short(at) ==
    [i \in 1..MaxVars |->
        IF i = var_count THEN EmptyEntry
        ELSE IF i \in at..var_count - 2 THEN var_store[i + 1] ELSE var_store[i]]

Shifted(at) ==
    [i \in 1..MaxVars |->
        IF i = var_count THEN EmptyEntry
        ELSE IF i \in at..var_count - 1 THEN var_store[i + 1] ELSE var_store[i]]

eos_rtsvc_delete_variable(n) ==
    \E at \in find_var(n) :
        /\ \A i \in find_var(n) : at <= i
        /\ var_store' = Shifted(at)
        /\ var_count' = var_count - 1
        /\ svcOp' = <<"delete", n>>
        /\ UNCHANGED next_boot_slot

eos_rtsvc_set_next_boot(slot) ==
    /\ slot \in BootSlots
    /\ next_boot_slot' = slot
    /\ UNCHANGED <<var_store, var_count, svcOp>>

VarValues == UNION {[1..k -> Bytes] : k \in 1..MaxVarSize}

SvcNext ==
    \/ eos_rtsvc_init
    \/ \E n \in VarNames, v \in VarValues : eos_rtsvc_set_variable(n, v)
    \/ \E n \in VarNames : eos_rtsvc_delete_variable(n)
    \/ \E slot \in BootSlots : eos_rtsvc_set_next_boot(slot)

SvcSpec == SvcInit /\ [][SvcNext]_svcVars

-----------------------------------------------------------------------------
(* Properties.                                                             *)

SvcTypeOK ==
    /\ DOMAIN var_store = 1..MaxVars /\ var_count \in 0..MaxVars
    /\ next_boot_slot \in BootSlots

\* What eos_rtsvc_get_variable() returns for a name that it finds.
eos_rtsvc_get_variable(n) ==
    LET e == var_store[CHOOSE i \in find_var(n) : \A j \in find_var(n) : i <= j]
    IN  [i \in 1..e.size |-> e.data[i]]

\* The array is the map that the services promise: each name has one value, the one
\* set last, and deleting a name or reusing its place leaves the others as they were.
Map == INSTANCE VarMap
    WITH map <- [n \in {m \in VarNames : find_var(m) # {}} |-> eos_rtsvc_get_variable(n)],
         done <- svcOp, Values <- VarValues, MaxNames <- MaxVars

StoreIsMap == Map!Spec

=============================================================================
