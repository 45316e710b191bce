---------------------------- MODULE GuardSession ----------------------------
(***************************************************************************)
(* The guard implements AlarmSession when its list of known files can hold *)
(* every file there may be.  A session of the abstract specification       *)
(* begins when the baseline is taken.                                      *)
(***************************************************************************)
EXTENDS Guard

InSession == pc \notin {"idle", "baseWalk"}

(* The files an alarm line of this session has named. *)
Alarmed == {p \in Paths : alarms[p] > 0}

Session == INSTANCE AlarmSession WITH
  active  <- InSession,
  base    <- IF InSession THEN base ELSE {},
  alarmed <- IF InSession THEN Alarmed ELSE {},
  count   <- IF InSession THEN threat_count ELSE 0

(* A session alarms at most once per file that was not there when it began, *)
(* and counts each alarm once.                                              *)
SessionSpec == Session!Spec

-----------------------------------------------------------------------------
(***************************************************************************)
(* The inductive invariant behind the safety properties of the guard.      *)
(***************************************************************************)

(* An enumeration is under way exactly at the two places that wait for it. *)
WalkPlaced ==
  /\ walk.open <=> pc \in {"baseWalk", "walk"}
  /\ walk.must \subseteq walk.may

(* No session, no list: nothing of an earlier session is left. *)
ListPlaced == pc \in {"idle", "baseWalk"} => g_known_files = <<>>

(* A session starts from zero. *)
FreshSession ==
  pc = "baseWalk" =>
    /\ total_new_files = 0
    /\ threat_count = 0
    /\ alarms = [p \in Paths |-> 0]
    /\ base = {}

(***************************************************************************)
(* While the list has room, it holds every file the session has dealt      *)
(* with: those of the baseline and those an alarm named, and as many as    *)
(* were counted.  This is what the lookup of the loop relies on.           *)
(***************************************************************************)
ListComplete ==
  InSession =>
    \/ KnownFull
    \/ /\ base \subseteq Range(g_known_files)
       /\ Alarmed \subseteq Range(g_known_files)
       /\ Len(g_known_files) = initial_count + total_new_files

GuardInv ==
  /\ TypeOK
  /\ WalkPlaced
  /\ KnownOnce
  /\ BufferThisRound
  /\ ListPlaced
  /\ FreshSession
  /\ ListComplete

=============================================================================
