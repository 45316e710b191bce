----------------------------- MODULE FileWorld -----------------------------
(***************************************************************************)
(* The directory tree below the scanned or guarded path, which other       *)
(* programs change at any moment, and what jk100_enum_recursive can return *)
(* for it.  The recursion is not atomic: it opens one directory after      *)
(* another while files come and go.  It therefore returns a "regular"      *)
(* listing: every file present during the whole enumeration, no file       *)
(* absent during the whole enumeration, and any choice in between.  A      *)
(* directory that cannot be opened is passed over in silence: its files    *)
(* count as absent.                                                        *)
(***************************************************************************)
EXTENDS Detect, FiniteSets, SequencesExt

CONSTANT MaxChanges  (* Bound: changes other programs make to the tree.      *)

ASSUME FileWorldAssumption == IsFiniteSet(Paths) /\ MaxChanges \in Nat

VARIABLES
  fs,      (* [Paths -> Attr]: the tree as it is now.                        *)
  walk,    (* The enumeration: open, and the files present throughout (must) *)
           (* and at some moment (may) since it began.                       *)
  changes  (* Number of changes made so far.                                 *)

worldVars == <<fs, walk, changes>>

Present == {p \in Paths : fs[p] # "absent"}

NoWalk == [open |-> FALSE, must |-> {}, may |-> {}]

WorldTypeOK ==
  /\ fs \in [Paths -> Attr]
  /\ walk \in [open : BOOLEAN, must : SUBSET Paths, may : SUBSET Paths]
  /\ changes \in 0 .. MaxChanges

WorldInit ==
  /\ fs \in [Paths -> Attr]
  /\ walk = NoWalk
  /\ changes = 0

(* Another program creates, deletes, grows or shrinks a file. *)
FsChange(p, attr) ==
  /\ changes < MaxChanges
  /\ fs[p] # attr
  /\ fs' = [fs EXCEPT ![p] = attr]
  /\ changes' = changes + 1
  /\ walk' = IF ~walk.open THEN walk
             ELSE IF attr = "absent" THEN [walk EXCEPT !.must = @ \ {p}]
             ELSE [walk EXCEPT !.may = @ \cup {p}]

(* FindFirstFileA on the root: the enumeration begins. *)
OpenWalk == walk' = [open |-> TRUE, must |-> Present, may |-> Present]

(* The enumeration returns; may is kept to relate later steps to it. *)
CloseWalk == walk.open /\ walk' = [walk EXCEPT !.open = FALSE, !.must = {}]

(* The sequences jk100_enum_recursive may append to the result buffer. *)
Listings ==
  UNION {SetToSeqs(S) : S \in {T \in SUBSET walk.may : walk.must \subseteq T}}

=============================================================================
