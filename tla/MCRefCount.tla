----------------------------- MODULE MCRefCount -----------------------------
(***************************************************************************)
(* Three objects of at most two references: shared children, chains,       *)
(* cycles, nested drops from finalizers, and blits between arrays that     *)
(* hold one another.                                                       *)
(***************************************************************************)
EXTENDS RefCount

CONSTANTS o1, o2, o3

\* Objects in a cycle that nothing else refers to are never freed: what can
\* happen beside such a cycle is not looked at.
Reached ==
    LET from[n \in 0..Cardinality(Objects)] ==
            IF n = 0 THEN {o \in Objects : owned[o] > 0}
            ELSE from[n - 1] \cup (UNION {ToSet(slots[o]) : o \in from[n - 1]} \cap Objects)
    IN from[Cardinality(Objects)]
Leaked == todo = <<>> /\ last = Nothing /\ ~(Live \subseteq Reached)
NothingLeaked == ~Leaked

Symmetry == Permutations(Objects)
=============================================================================
