------------------------------- MODULE Detect -------------------------------
(***************************************************************************)
(* The verdict jk100 gives on one file: the name rules and the path        *)
(* whitelist of lib/platform/cwrap.c, used by the one-shot scan and by the *)
(* guard.  A path is an opaque value; all the code ever asks of its text   *)
(* is "does the lower-cased path contain this fragment", so the text is    *)
(* replaced by the relation Holds.                                         *)
(***************************************************************************)
EXTENDS Integers, Sequences

CONSTANTS
  Paths,           (* The full names files may have below the target.         *)
  ROGUE_PATTERNS,  (* The sequence of rogue file-name fragments.              *)
  WHITELIST_PATHS, (* The sequence of whitelisted path fragments.             *)
  Holds,           (* Pairs <<p, f>>: fragment f occurs in lower-cased p.     *)
  NULL             (* "No rule matched": not a fragment.                      *)

ASSUME DetectAssumption ==
  /\ Paths # {}
  /\ ROGUE_PATTERNS \in Seq({ROGUE_PATTERNS[i] : i \in DOMAIN ROGUE_PATTERNS})
  /\ \A i \in DOMAIN ROGUE_PATTERNS : ROGUE_PATTERNS[i] # NULL

(***************************************************************************)
(* What GetFileAttributesExA tells of a path: it fails ("absent"), or the  *)
(* size is at most 52428800 bytes ("small") or above ("big").              *)
(***************************************************************************)
Attr == {"absent", "small", "big"}

is_whitelisted_path(p) ==
  \E i \in DOMAIN WHITELIST_PATHS : <<p, WHITELIST_PATHS[i]>> \in Holds

MatchingRules(p) == {i \in DOMAIN ROGUE_PATTERNS : <<p, ROGUE_PATTERNS[i]>> \in Holds}

(* The first rule of the table that occurs in the path. *)
match_rogue_pattern(p) ==
  IF MatchingRules(p) = {}
    THEN NULL
    ELSE ROGUE_PATTERNS[CHOOSE i \in MatchingRules(p) :
                          \A j \in MatchingRules(p) : i <= j]

(* Mutant of check_single_file: the size limit is not looked at. *)
CheckAnySize(p, attr) ==
  IF is_whitelisted_path(p) THEN NULL ELSE match_rogue_pattern(p)

(***************************************************************************)
(* The guard's verdict.  A file whose attributes cannot be read (it is     *)
(* gone by now) is still judged, by its name.                              *)
(***************************************************************************)
check_single_file(p, attr) ==
  IF is_whitelisted_path(p) \/ attr = "big" THEN NULL ELSE match_rogue_pattern(p)

(* The files a detection may name at all. *)
Rogues == {p \in Paths : ~is_whitelisted_path(p) /\ MatchingRules(p) # {}}

=============================================================================
