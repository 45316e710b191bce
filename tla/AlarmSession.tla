---------------------------- MODULE AlarmSession ----------------------------
(***************************************************************************)
(* What a guard session promises to whoever reads its output: it starts    *)
(* from the set of files that were there, raises at most one alarm for any *)
(* other file and none for those, and the number it returns is the number  *)
(* of files it named.                                                      *)
(***************************************************************************)
EXTENDS Naturals

CONSTANTS
  Paths,   (* The files there may be.                                        *)
  Rogues   (* Those an alarm may name.                                       *)

VARIABLES
  active,  (* A session is watching.                                         *)
  base,    (* The files it found when it began.                              *)
  alarmed, (* The files it has named.                                        *)
  count    (* The number of threats it has counted.                          *)

vars == <<active, base, alarmed, count>>

Init ==
  /\ active = FALSE
  /\ base = {}
  /\ alarmed = {}
  /\ count = 0

Begin ==
  /\ ~active
  /\ active' = TRUE
  /\ base' \in SUBSET Paths
  /\ alarmed' = {}
  /\ count' = 0

Raise(p) ==
  /\ active
  /\ p \in Rogues \ (base \cup alarmed)
  /\ alarmed' = alarmed \cup {p}
  /\ count' = count + 1
  /\ UNCHANGED <<active, base>>

End ==
  /\ active
  /\ active' = FALSE
  /\ base' = {}
  /\ alarmed' = {}
  /\ count' = 0

Next == Begin \/ (\E p \in Rogues : Raise(p)) \/ End

Spec == Init /\ [][Next]_vars

=============================================================================
