-------------------------------- MODULE Scan --------------------------------
(***************************************************************************)
(* The one-shot scan: jk100_run_scan of lib/platform/cwrap.c, and the      *)
(* conclusion main/main.mbt draws from the number it returns (--scan and   *)
(* --quick), on a tree other programs change meanwhile.  One behaviour is  *)
(* one run of the program.                                                 *)
(***************************************************************************)
EXTENDS FileWorld

VARIABLES
  pc,            (* Where the program is.                                    *)
  g_enum_files,  (* Result buffer of the enumeration.                        *)
  total,         (* Its length when the enumeration returned.                *)
  scanned,       (* Entries looked at; the next is scanned + 1.              *)
  skipped,       (* Whitelisted ones among them.                             *)
  threats,
  reported,      (* Files named on a threat line, in order.                  *)
  conclusion,    (* What the last line says: "none" while there is none.     *)
  (* Observation only. *)
  steady         (* Files present and within the limit since the start.      *)

scanVars == <<pc, g_enum_files, total, scanned, skipped, threats, reported, conclusion>>
vars == <<worldVars, scanVars, steady>>

Locations == {"idle", "walk", "check", "return", "done", "killed"}

Init ==
  /\ WorldInit
  /\ pc = "idle"
  /\ g_enum_files = <<>>
  /\ total = 0
  /\ scanned = 0
  /\ skipped = 0
  /\ threats = 0
  /\ reported = <<>>
  /\ conclusion = "none"
  /\ steady = {}

(* The enumeration begins. *)
Start ==
  /\ pc = "idle"
  /\ pc' = "walk"
  /\ OpenWalk
  /\ steady' = {p \in Paths : fs[p] = "small"}
  /\ UNCHANGED <<fs, changes, g_enum_files, total, scanned, skipped, threats,
                 reported, conclusion>>

(* The enumeration returns.  Nothing to scan ends jk100_run_scan early,     *)
(* with a warning and 0 threats.                                            *)
Listed ==
  /\ pc = "walk"
  /\ CloseWalk
  /\ \E listing \in Listings :
       /\ g_enum_files' = listing
       /\ total' = Len(listing)
       /\ pc' = IF listing = <<>> THEN "return" ELSE "check"
  /\ UNCHANGED <<fs, changes, scanned, skipped, threats, reported, conclusion, steady>>

Current == g_enum_files[scanned + 1]

(* One iteration of the loop, the part every branch has. *)
NextFile ==
  /\ pc = "check"
  /\ scanned < total
  /\ scanned' = scanned + 1
  /\ UNCHANGED <<worldVars, pc, g_enum_files, total, conclusion, steady>>

SkipWhitelisted ==
  /\ NextFile
  /\ is_whitelisted_path(Current)
  /\ skipped' = skipped + 1
  /\ UNCHANGED <<threats, reported>>

(* A file above the limit as it is scanned; no counter tells of it. *)
SkipBig ==
  /\ NextFile
  /\ ~is_whitelisted_path(Current)
  /\ fs[Current] = "big"
  /\ UNCHANGED <<skipped, threats, reported>>

(* Mutant of JudgeByName: the whitelist is not consulted. *)
JudgeEveryName ==
  /\ NextFile
  /\ fs[Current] # "big"
  /\ IF match_rogue_pattern(Current) # NULL
       THEN threats' = threats + 1 /\ reported' = Append(reported, Current)
       ELSE UNCHANGED <<threats, reported>>
  /\ UNCHANGED skipped

(* The other files, those whose attributes cannot be read among them. *)
JudgeByName ==
  /\ NextFile
  /\ ~is_whitelisted_path(Current)
  /\ fs[Current] # "big"
  /\ IF match_rogue_pattern(Current) # NULL
       THEN threats' = threats + 1 /\ reported' = Append(reported, Current)
       ELSE UNCHANGED <<threats, reported>>
  /\ UNCHANGED skipped

(* Mutant of Release: the loop ends one entry early. *)
ReleaseOneEarly ==
  /\ pc = "check"
  /\ scanned >= total - 1
  /\ g_enum_files' = <<>>
  /\ pc' = "return"
  /\ UNCHANGED <<worldVars, total, scanned, skipped, threats, reported, conclusion, steady>>

(* The loop ends; the buffer is released and the summary printed. *)
Release ==
  /\ pc = "check"
  /\ scanned = total
  /\ g_enum_files' = <<>>
  /\ pc' = "return"
  /\ UNCHANGED <<worldVars, total, scanned, skipped, threats, reported, conclusion, steady>>

(* The conclusion of main, drawn from the returned number alone. *)
Conclude ==
  /\ pc = "return"
  /\ conclusion' = IF threats > 0 THEN "threats" ELSE "clean"
  /\ pc' = "done"
  /\ UNCHANGED <<worldVars, g_enum_files, total, scanned, skipped, threats, reported, steady>>

(* Ctrl+C ends the program where it stands. *)
CtrlC ==
  /\ pc \notin {"done", "killed"}
  /\ pc' = "killed"
  /\ walk' = NoWalk
  /\ UNCHANGED <<fs, changes, g_enum_files, total, scanned, skipped, threats,
                 reported, conclusion, steady>>

(* Another program changes the tree. *)
FileChange(p, attr) ==
  /\ FsChange(p, attr)
  /\ steady' = steady \ {p}
  /\ UNCHANGED scanVars

ScanStep ==
  \/ Listed
  \/ SkipWhitelisted \/ SkipBig \/ JudgeByName
  \/ Release \/ Conclude

Next ==
  \/ Start
  \/ ScanStep
  \/ CtrlC
  \/ \E p \in Paths, attr \in Attr : FileChange(p, attr)

Spec == Init /\ [][Next]_vars

-----------------------------------------------------------------------------
(* Properties. *)

(* Every variable has its type, and the loop stays within its listing. *)
TypeOK ==
  /\ WorldTypeOK
  /\ pc \in Locations
  /\ g_enum_files \in Seq(Paths)
  /\ total \in 0 .. Cardinality(Paths)
  /\ scanned \in 0 .. total
  /\ skipped \in 0 .. scanned
  /\ threats \in 0 .. scanned
  /\ reported \in Seq(Paths)
  /\ conclusion \in {"none", "clean", "threats"}
  /\ steady \in SUBSET Paths

(***************************************************************************)
(* "No threat found" is true of every file the scan was in a position to   *)
(* judge: one that was there, unchanged and within the limit from the      *)
(* first directory read to the conclusion, is named if a rule matches it.  *)
(* A file created, replaced or grown meanwhile is outside the promise.     *)
(***************************************************************************)
NothingSteadyMissed ==
  pc \in {"return", "done"} => Rogues \cap steady \subseteq Range(reported)

(***************************************************************************)
(* A threat line names each file once, only files that existed during the  *)
(* enumeration, that a rule matches and no whitelist entry covers.         *)
(***************************************************************************)
ReportsSound ==
  /\ IsInjective(reported)
  /\ Range(reported) \subseteq Rogues
  /\ pc \in {"check", "return", "done"} => Range(reported) \subseteq walk.may

(***************************************************************************)
(* The summary adds up: every entry was looked at, no entry is both        *)
(* skipped and a threat, the returned number is that of the threat lines,  *)
(* and the conclusion is "threats" exactly if there is one.                *)
(***************************************************************************)
SummaryAddsUp ==
  /\ threats = Len(reported)
  /\ skipped + threats <= scanned
  /\ pc \in {"return", "done"} => scanned = total
  /\ pc = "done" => (conclusion = "threats" <=> reported # <<>>)

(* The scan keeps the contract of a scan: the listing is what it judges,    *)
(* Ctrl+C alone ends it before its conclusion, and no file does.            *)
Phase ==
  CASE pc \in {"idle", "walk"} -> "ready" [] pc \in {"check", "return"} -> "judging"
    [] pc = "done" -> "concluded" [] pc = "killed" -> "ended"

Left == IF pc = "check" THEN SubSeq(g_enum_files, scanned + 1, total) ELSE <<>>

Contract == INSTANCE ScanContract WITH
  Interruptible <- TRUE, phase <- Phase, left <- Left, named <- reported, fatal <- {}

ContractSpec == Contract!Spec

=============================================================================
