------------------------------ MODULE CoreScan ------------------------------
(***************************************************************************)
(* The scan of the engine library: run_scan of lib/core/scan.mbt with the  *)
(* rule base of SigDB, its callbacks and its thread priority, on files     *)
(* other programs change meanwhile.  A file is read twice, for the hash    *)
(* and for the PE header, and the two readings may differ.                 *)
(***************************************************************************)
EXTENDS SigDB, FiniteSets

CONSTANTS
  MaxFiles,    (* Bound: files of a custom target.                           *)
  MaxChanges,  (* Bound: changes other programs make.                        *)
  MaxRuns      (* Bound: scans.                                              *)

ASSUME CoreScanAssumption == {MaxFiles, MaxChanges, MaxRuns} \subseteq Nat

VARIABLES
  disk,        (* [Paths -> Content].                                        *)
  priority,    (* Of the thread that scans.                                  *)
  pc,
  clamav,      (* clamav.available.                                          *)
  files,       (* collect_target_files.                                      *)
  data,        (* What the last reading returned.                            *)
  hash,        (* Of the first reading.                                      *)
  total_files, scanned_files, skipped_whitelist,
  threats,     (* result.threats: the files named.                           *)
  calls,       (* The callbacks made, in order.                              *)
  runs, changes

resultVars == <<total_files, scanned_files, skipped_whitelist, threats, calls>>
vars == <<disk, priority, pc, clamav, files, data, hash, resultVars, runs, changes>>

(***************************************************************************)
(* A file that cannot be opened reads as empty.  The size is cut to 32     *)
(* bits: of a "huge" file, one of 2^31 bytes or more, as many bytes are    *)
(* read as its low 32 bits say, and if those are a negative number the     *)
(* program ends.                                                           *)
(***************************************************************************)
Content == {"plain", "unreadable", "huge", "misleading"}

Working == {"read", "parse", "judge", "clamav"}
Locations == {"idle", "done", "crashed"} \cup Working

Speeds == {"Low", "Normal", "High"}
ThreadPriority(speed) ==
  CASE speed = "Low" -> "idle" [] speed = "Normal" -> "normal" [] speed = "High" -> "above_normal"

Targets == UNION {[1 .. n -> Paths] : n \in 0 .. MaxFiles}

path == files[scanned_files + 1]

signer == parse_pe_signer(data)

(* A file the code lets pass by, and one its rules name.                    *)
Whitelisted(p) == is_whitelisted(p, NoText, NoText)
Rogues == {p \in Paths : ~Whitelisted(p) /\ match_rogue_rules(p, NoText, NoText) # {}}

Init ==
  /\ disk \in [Paths -> Content]
  /\ priority = "normal"
  /\ pc = "idle"
  /\ clamav = FALSE
  /\ files = <<>>
  /\ data = "none"
  /\ hash = NoText
  /\ total_files = 0 /\ scanned_files = 0 /\ skipped_whitelist = 0
  /\ threats = <<>>
  /\ calls = <<>>
  /\ runs = 0
  /\ changes = 0

(* run_scan is called: a quick or a full scan has no files at all.          *)
RunScan(target, speed, available) ==
  /\ pc \in {"idle", "done"}
  /\ runs < MaxRuns
  /\ files' = target
  /\ total_files' = Len(target)
  /\ priority' = ThreadPriority(speed)
  /\ clamav' = available
  /\ scanned_files' = 0 /\ skipped_whitelist' = 0
  /\ threats' = <<>>
  /\ calls' = <<>>
  /\ pc' = "read"
  /\ runs' = runs + 1
  /\ UNCHANGED <<disk, data, hash, changes>>

(* One reading of the current file: what it returns, or the end.            *)
Reading(next) ==
  /\ scanned_files < total_files
  /\ \/ data' = disk[path] /\ pc' = next
     \/ disk[path] = "huge" /\ pc' = "crashed" /\ UNCHANGED data

ReadForHash ==
  /\ pc = "read"
  /\ Reading("parse")
  /\ hash' = bytes_sha256(data')
  /\ UNCHANGED <<disk, priority, clamav, files, resultVars, runs, changes>>

(* Mutant of ReadForHeader: a file that cannot be read ends the program.    *)
ReadForHeaderOrDie ==
  /\ pc = "parse"
  /\ Reading(IF disk[path] \in {"misleading", "unreadable"} THEN "crashed" ELSE "judge")
  /\ UNCHANGED <<disk, priority, clamav, files, hash, resultVars, runs, changes>>

(* The second reading, and parse_pe of what it returned. *)
ReadForHeader ==
  /\ pc = "parse"
  /\ Reading(IF parse_pe_panics(disk[path]) THEN "crashed" ELSE "judge")
  /\ UNCHANGED <<disk, priority, clamav, files, hash, resultVars, runs, changes>>

-----------------------------------------------------------------------------
Progress(n) == <<"progress", n>>

(* The file is done: count it, tell of the progress, and take the next.     *)
FileDone(before) ==
  /\ scanned_files' = scanned_files + 1
  /\ calls' = Append(before, Progress(scanned_files'))
  /\ pc' = "read"

SkipWhitelisted ==
  /\ pc = "judge"
  /\ is_whitelisted(path, signer, hash)
  /\ skipped_whitelist' = skipped_whitelist + 1
  /\ FileDone(calls)
  /\ UNCHANGED <<disk, priority, clamav, files, data, hash, total_files, threats,
                 runs, changes>>

(* Mutant of MatchRules: a whitelisted file is judged as well. *)
MatchUnguarded ==
  /\ pc = "judge"
  /\ IF match_rogue_rules(path, signer, hash) # {}
       THEN /\ threats' = Append(threats, path)
            /\ calls' = Append(calls, <<"threat", path>>)
       ELSE UNCHANGED <<threats, calls>>
  /\ pc' = "clamav"
  /\ UNCHANGED <<disk, priority, clamav, files, data, hash, total_files, scanned_files,
                 skipped_whitelist, runs, changes>>

(* Mutant of MatchRules: a name is announced the first time only. *)
MatchAnnouncedOnce ==
  /\ pc = "judge"
  /\ ~is_whitelisted(path, signer, hash)
  /\ IF match_rogue_rules(path, signer, hash) # {}
       THEN /\ threats' = Append(threats, path)
            /\ calls' = IF \E i \in DOMAIN threats : threats[i] = path THEN calls
                       ELSE Append(calls, <<"threat", path>>)
       ELSE UNCHANGED <<threats, calls>>
  /\ pc' = "clamav"
  /\ UNCHANGED <<disk, priority, clamav, files, data, hash, total_files, scanned_files,
                 skipped_whitelist, runs, changes>>

(* The first rule that hits makes a threat, which is announced at once.     *)
MatchRules ==
  /\ pc = "judge"
  /\ ~is_whitelisted(path, signer, hash)
  /\ IF match_rogue_rules(path, signer, hash) # {}
       THEN /\ threats' = Append(threats, path)
            /\ calls' = Append(calls, <<"threat", path>>)
       ELSE UNCHANGED <<threats, calls>>
  /\ pc' = "clamav"
  /\ UNCHANGED <<disk, priority, clamav, files, data, hash, total_files, scanned_files,
                 skipped_whitelist, runs, changes>>

(* Mutant of ScanFile: without ClamAV the rest of the loop body is skipped. *)
ScanFileOrDrop ==
  /\ pc = "clamav"
  /\ IF clamav THEN FileDone(calls)
     ELSE scanned_files' = scanned_files + 1 /\ pc' = "read" /\ UNCHANGED calls
  /\ UNCHANGED <<disk, priority, clamav, files, data, hash, total_files,
                 skipped_whitelist, threats, runs, changes>>

(* scan_file, if ClamAV is available, finds nothing in any file.            *)
ScanFile ==
  /\ pc = "clamav"
  /\ FileDone(calls)
  /\ UNCHANGED <<disk, priority, clamav, files, data, hash, total_files,
                 skipped_whitelist, threats, runs, changes>>

(* The loop ends; scan_run_keys and scan_services do nothing.               *)
Complete ==
  /\ pc = "read"
  /\ scanned_files = total_files
  /\ calls' = Append(calls, <<"complete", Len(threats)>>)
  /\ pc' = "done"
  /\ UNCHANGED <<disk, priority, clamav, files, data, hash, total_files, scanned_files,
                 skipped_whitelist, threats, runs, changes>>

(* Another program changes a file. *)
FileChange(p, content) ==
  /\ changes < MaxChanges
  /\ disk[p] # content
  /\ disk' = [disk EXCEPT ![p] = content]
  /\ changes' = changes + 1
  /\ UNCHANGED <<priority, pc, clamav, files, data, hash, resultVars, runs>>

ScanStep ==
  \/ ReadForHash \/ ReadForHeader
  \/ SkipWhitelisted \/ MatchRules \/ ScanFile
  \/ Complete

Next ==
  \/ \E target \in Targets, speed \in Speeds, available \in BOOLEAN :
       RunScan(target, speed, available)
  \/ ScanStep
  \/ \E p \in Paths, content \in Content : FileChange(p, content)

Spec == Init /\ [][Next]_vars

-----------------------------------------------------------------------------
(* Properties. *)

(* Every variable has its type, and the loop stays within its list.         *)
TypeOK ==
  /\ disk \in [Paths -> Content]
  /\ priority \in {"idle", "normal", "above_normal"}
  /\ pc \in Locations
  /\ clamav \in BOOLEAN
  /\ files \in Seq(Paths)
  /\ total_files = Len(files)
  /\ data \in Content \cup {"none"}
  /\ hash = NoText
  /\ scanned_files \in 0 .. total_files
  /\ pc \in {"parse", "judge", "clamav"} => scanned_files < total_files
  /\ skipped_whitelist \in 0 .. scanned_files
  /\ threats \in Seq(Paths)
  /\ runs \in 0 .. MaxRuns
  /\ changes \in 0 .. MaxChanges

(* The callbacks of one kind, by their places among all.                    *)
Calls(kind) == {k \in DOMAIN calls : calls[k][1] = kind}

(* The elements of s at these places, in their order, make up t.            *)
InOrder(t, s, places) ==
  \E at \in [DOMAIN t -> places] :
    /\ \A i, j \in DOMAIN t : i < j => at[i] < at[j]
    /\ \A i \in DOMAIN t : t[i] = s[at[i]]
    /\ \A k \in places : \E i \in DOMAIN t : at[i] = k

(***************************************************************************)
(* The progress counts every file once, without a gap, to the total, which *)
(* on_complete follows as the last callback of the scan.                   *)
(***************************************************************************)
ProgressIsGapless ==
  /\ InOrder([i \in 1 .. scanned_files |-> Progress(i)], calls, Calls("progress"))
  /\ Calls("complete") = IF pc = "done" THEN {Len(calls)} ELSE {}
  /\ pc = "done" => /\ scanned_files = total_files
                    /\ calls[Len(calls)] = <<"complete", Len(threats)>>

(***************************************************************************)
(* The listener of on_threat and the reader of the result learn of the     *)
(* same threats in the same order, each announced after the progress of    *)
(* the files before it and before that of its own.                         *)
(***************************************************************************)
ThreatsAnnounced ==
  /\ InOrder([i \in DOMAIN threats |-> <<"threat", threats[i]>>], calls, Calls("threat"))
  /\ \A k \in Calls("threat") : \E n \in DOMAIN files :
       /\ files[n] = calls[k][2]
       /\ \A m \in Calls("progress") : m < k <=> calls[m][2] < n

(***************************************************************************)
(* The verdict of the whole list: as often as it is in the list, a file    *)
(* that only the rules cover is named, one the whitelist covers is counted *)
(* as skipped, whatever became of the file between the two readings.       *)
(***************************************************************************)
ListJudged ==
  /\ skipped_whitelist = Cardinality({i \in 1 .. scanned_files : Whitelisted(files[i])})
  /\ pc = "done" => InOrder(threats, files, {i \in DOMAIN files : files[i] \in Rogues})

(***************************************************************************)
(* The scan keeps the contract of a scan: a file is judged as its verdict  *)
(* falls, before ClamAV is asked and before it is counted.  Nobody can end *)
(* it, and nothing does but a file the program does not survive, when it   *)
(* is that file's turn and while it is as it is: one that cannot be opened *)
(* never does.                                                             *)
(***************************************************************************)
Phase ==
  CASE pc = "idle" -> "ready" [] pc \in Working -> "judging"
    [] pc = "done" -> "concluded" [] pc = "crashed" -> "ended"

(* The files a verdict has fallen on: those counted, and the current one    *)
(* from MatchRules on.                                                      *)
Judged == IF pc = "clamav" THEN scanned_files + 1 ELSE scanned_files

Left == IF pc \in Working THEN SubSeq(files, Judged + 1, total_files) ELSE <<>>

Fatal == {p \in Paths : disk[p] = "huge" \/ parse_pe_panics(disk[p])}

Contract == INSTANCE ScanContract WITH
  Interruptible <- FALSE, phase <- Phase, left <- Left, named <- threats, fatal <- Fatal

ContractSpec == Contract!Spec

(***************************************************************************)
(* "A file in the whitelist, by path, is not reported": of a file that an  *)
(* entry covers once its environment variables are put in.                 *)
(***************************************************************************)
WhitelistedNotReported ==
  \A i \in DOMAIN threats : \A e \in Entries : \A pattern \in e.paths :
    ~path_match(expand_env(pattern), threats[i])

(***************************************************************************)
(* "An error in a single file: skip it, log it, go on with the others."    *)
(***************************************************************************)
OneFileDoesNotEndScan == pc # "crashed"
=============================================================================
