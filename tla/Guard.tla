------------------------------- MODULE Guard -------------------------------
(***************************************************************************)
(* The real-time guard: jk100_start_guard, jk100_stop_guard and the list   *)
(* of known files of lib/platform/cwrap.c, polling a tree other programs   *)
(* change.  The guard is one thread; a step is what it does between two    *)
(* moments at which another thread or program can matter to it.  Those are *)
(* its readings of the file system and of the flag g_guard_running, which  *)
(* jk100_stop_guard clears from outside.                                   *)
(***************************************************************************)
EXTENDS FileWorld

CONSTANTS
  MAX_KNOWN_FILES, (* Capacity of g_known_files (10000 in the source).        *)
  Slices,          (* Sleep slices between two rounds (10 in the source).     *)
  MaxNew,          (* Bound: value total_new_files may reach.                 *)
  MaxStarts        (* Bound: number of guard sessions.                        *)

ASSUME GuardAssumption ==
  /\ MAX_KNOWN_FILES \in Nat \ {0}
  /\ Slices \in Nat \ {0}
  /\ MaxNew \in Nat
  /\ MaxStarts \in Nat

VARIABLES
  (* The program's state. *)
  pc,               (* Where the guard thread is.                            *)
  slice,            (* Sleep slices done in this pause.                      *)
  g_enum_files,     (* Result buffer of the enumeration.                     *)
  idx,              (* Next entry of the buffer to look at.                  *)
  g_known_files,    (* Known files, in the order recorded.                   *)
  g_guard_running,  (* The stop flag, inverted.                              *)
  initial_count,    (* Number of files in the baseline listing.              *)
  total_new_files,
  threat_count,
  alarms,           (* [Paths -> Nat]: alarm lines printed in this session.  *)
  (* Observation only: no action of the guard reads these. *)
  base,             (* Files the baseline listing contained.                 *)
  fresh,            (* Files created since the baseline and not yet scanned. *)
  stopAsked,        (* jk100_stop_guard was called in this session.          *)
  starts            (* Sessions started.                                     *)

guardVars == <<pc, slice, g_enum_files, idx, g_known_files, g_guard_running,
               initial_count, total_new_files, threat_count, alarms>>
ghostVars == <<base, fresh, stopAsked, starts>>
vars == <<worldVars, guardVars, ghostVars>>

Loop == {"wait", "walk", "check"}
Locations == {"idle", "baseWalk", "baseline", "exit"} \cup Loop

(* Past the baseline listing: from here on, a file not listed is new. *)
Monitoring == pc \in Loop \cup {"baseline"}

-----------------------------------------------------------------------------
(* The list of known files. *)

is_known_file(p) == p \in Range(g_known_files)

(* Mutant of add_known_file: the capacity test is off by one. *)
AddKnownPastEnd(known, p) ==
  IF Len(known) > MAX_KNOWN_FILES THEN known ELSE Append(known, p)

(* Mutant of add_known_file: the last entry is never used. *)
AddKnownOneShort(known, p) ==
  IF Len(known) + 1 >= MAX_KNOWN_FILES THEN known ELSE Append(known, p)

(* A full list drops the file without a word. *)
add_known_file(known, p) ==
  IF Len(known) >= MAX_KNOWN_FILES THEN known ELSE Append(known, p)

(* add_known_file for each entry of a listing. *)
RecordAll(known, listing) ==
  SubSeq(known \o listing, 1,
         IF Len(known) + Len(listing) <= MAX_KNOWN_FILES
           THEN Len(known) + Len(listing) ELSE MAX_KNOWN_FILES)

KnownFull == Len(g_known_files) >= MAX_KNOWN_FILES

-----------------------------------------------------------------------------
Init ==
  /\ WorldInit
  /\ pc = "idle"
  /\ slice = 0
  /\ g_enum_files = <<>>
  /\ idx = 1
  /\ g_known_files = <<>>
  /\ g_guard_running = FALSE
  /\ initial_count = 0
  /\ total_new_files = 0
  /\ threat_count = 0
  /\ alarms = [p \in Paths |-> 0]
  /\ base = {}
  /\ fresh = {}
  /\ stopAsked = FALSE
  /\ starts = 0

(* jk100_start_guard is entered and begins the baseline enumeration. *)
StartGuard ==
  /\ pc = "idle"
  /\ starts < MaxStarts
  /\ pc' = "baseWalk"
  /\ OpenWalk
  /\ g_enum_files' = <<>>
  /\ initial_count' = 0
  /\ total_new_files' = 0
  /\ threat_count' = 0
  /\ alarms' = [p \in Paths |-> 0]
  /\ base' = {}
  /\ fresh' = {}
  /\ stopAsked' = FALSE
  /\ starts' = starts + 1
  /\ UNCHANGED <<fs, changes, slice, idx, g_known_files, g_guard_running>>

(* The baseline enumeration returns; its files become known, unscanned. *)
TakeBaseline ==
  /\ pc = "baseWalk"
  /\ CloseWalk
  /\ \E listing \in Listings :
       /\ initial_count' = Len(listing)
       /\ g_known_files' = RecordAll(g_known_files, listing)
       /\ base' = Range(listing)
  /\ pc' = "baseline"
  /\ UNCHANGED <<fs, changes, slice, g_enum_files, idx, g_guard_running,
                 total_new_files, threat_count, alarms, fresh, stopAsked, starts>>

(* g_guard_running = 1, whatever jk100_stop_guard wrote before. *)
Arm ==
  /\ pc = "baseline"
  /\ g_guard_running' = TRUE
  /\ slice' = 0
  /\ pc' = "wait"
  /\ UNCHANGED <<worldVars, g_enum_files, idx, g_known_files, initial_count,
                 total_new_files, threat_count, alarms, ghostVars>>

(* One Sleep(200) of the pause. *)
SleepSlice ==
  /\ pc = "wait"
  /\ slice < Slices
  /\ g_guard_running
  /\ slice' = slice + 1
  /\ UNCHANGED <<worldVars, pc, g_enum_files, idx, g_known_files, g_guard_running,
                 initial_count, total_new_files, threat_count, alarms, ghostVars>>

(* The pause is over: start the enumeration of the next round. *)
BeginRound ==
  /\ pc = "wait"
  /\ slice = Slices
  /\ g_guard_running
  /\ pc' = "walk"
  /\ OpenWalk
  /\ UNCHANGED <<fs, changes, slice, g_enum_files, idx, g_known_files,
                 g_guard_running, initial_count, total_new_files, threat_count,
                 alarms, ghostVars>>

(* The stop flag is seen in the pause. *)
LeaveLoop ==
  /\ pc = "wait"
  /\ ~g_guard_running
  /\ pc' = "exit"
  /\ UNCHANGED <<worldVars, slice, g_enum_files, idx, g_known_files,
                 g_guard_running, initial_count, total_new_files, threat_count,
                 alarms, ghostVars>>

(* Mutant of RoundListed: the loop over the buffer begins at its second entry. *)
RoundListedFromSecond ==
  /\ pc = "walk"
  /\ CloseWalk
  /\ \E listing \in Listings : g_enum_files' = g_enum_files \o listing
  /\ idx' = 2
  /\ pc' = "check"
  /\ UNCHANGED <<fs, changes, slice, g_known_files, g_guard_running, initial_count,
                 total_new_files, threat_count, alarms, ghostVars>>

(* The round's enumeration returns: its files are appended to the buffer. *)
RoundListed ==
  /\ pc = "walk"
  /\ CloseWalk
  /\ \E listing \in Listings : g_enum_files' = g_enum_files \o listing
  /\ idx' = 1
  /\ pc' = "check"
  /\ UNCHANGED <<fs, changes, slice, g_known_files, g_guard_running, initial_count,
                 total_new_files, threat_count, alarms, ghostVars>>

SkipKnown ==
  /\ pc = "check"
  /\ idx <= Len(g_enum_files)
  /\ is_known_file(g_enum_files[idx])
  /\ idx' = idx + 1
  /\ UNCHANGED <<worldVars, pc, slice, g_enum_files, g_known_files,
                 g_guard_running, initial_count, total_new_files, threat_count,
                 alarms, ghostVars>>

(* Mutant of ScanNew: only a harmless file is counted and recorded. *)
ScanNewForgetsThreats ==
  /\ pc = "check"
  /\ idx <= Len(g_enum_files)
  /\ total_new_files < MaxNew
  /\ LET p == g_enum_files[idx] IN
       /\ ~is_known_file(p)
       /\ fresh' = fresh \ {p}
       /\ IF check_single_file(p, fs[p]) # NULL
            THEN /\ threat_count' = threat_count + 1
                 /\ alarms' = [alarms EXCEPT ![p] = @ + 1]
                 /\ UNCHANGED g_known_files
            ELSE /\ g_known_files' = add_known_file(g_known_files, p)
                 /\ UNCHANGED <<threat_count, alarms>>
  /\ total_new_files' = total_new_files + 1
  /\ idx' = idx + 1
  /\ UNCHANGED <<worldVars, pc, slice, g_enum_files, g_guard_running,
                 initial_count, base, stopAsked, starts>>

(* A file not on the list: record it, then scan it as it is at this moment. *)
ScanNew ==
  /\ pc = "check"
  /\ idx <= Len(g_enum_files)
  /\ total_new_files < MaxNew
  /\ LET p == g_enum_files[idx] IN
       /\ ~is_known_file(p)
       /\ g_known_files' = add_known_file(g_known_files, p)
       /\ fresh' = fresh \ {p}
       /\ IF check_single_file(p, fs[p]) # NULL
            THEN /\ threat_count' = threat_count + 1
                 /\ alarms' = [alarms EXCEPT ![p] = @ + 1]
            ELSE UNCHANGED <<threat_count, alarms>>
  /\ total_new_files' = total_new_files + 1
  /\ idx' = idx + 1
  /\ UNCHANGED <<worldVars, pc, slice, g_enum_files, g_guard_running,
                 initial_count, base, stopAsked, starts>>

(* Mutant of EndRound: the buffer is not released. *)
EndRoundKeepsBuffer ==
  /\ pc = "check"
  /\ idx > Len(g_enum_files)
  /\ slice' = 0
  /\ pc' = "wait"
  /\ UNCHANGED <<worldVars, g_enum_files, idx, g_known_files, g_guard_running,
                 initial_count, total_new_files, threat_count, alarms, ghostVars>>

(* Mutant of EndRound: the running flag is set in the loop, not before it. *)
EndRoundArms ==
  /\ pc = "check"
  /\ idx > Len(g_enum_files)
  /\ g_enum_files' = <<>>
  /\ slice' = 0
  /\ g_guard_running' = TRUE
  /\ pc' = "wait"
  /\ UNCHANGED <<worldVars, idx, g_known_files, initial_count,
                 total_new_files, threat_count, alarms, ghostVars>>

(* The whole listing was looked at: release it and pause again. *)
EndRound ==
  /\ pc = "check"
  /\ idx > Len(g_enum_files)
  /\ g_enum_files' = <<>>
  /\ slice' = 0
  /\ pc' = "wait"
  /\ UNCHANGED <<worldVars, idx, g_known_files, g_guard_running, initial_count,
                 total_new_files, threat_count, alarms, ghostVars>>

(* clear_known_files, the summary, and the return. *)
Return ==
  /\ pc = "exit"
  /\ g_known_files' = <<>>
  /\ g_guard_running' = FALSE
  /\ walk' = NoWalk
  /\ fresh' = {}
  /\ pc' = "idle"
  /\ UNCHANGED <<fs, changes, slice, g_enum_files, idx, initial_count,
                 total_new_files, threat_count, alarms, base, stopAsked, starts>>

(* jk100_stop_guard, called by another thread at any moment. *)
StopGuard ==
  /\ g_guard_running' = FALSE
  /\ stopAsked' = (stopAsked \/ pc # "idle")
  /\ UNCHANGED <<worldVars, pc, slice, g_enum_files, idx, g_known_files,
                 initial_count, total_new_files, threat_count, alarms,
                 base, fresh, starts>>

(***************************************************************************)
(* Ctrl+C, the documented way to end the guard.  The program installs no   *)
(* console handler, so the process ends where it stands, without a         *)
(* summary, and the next guard starts in a new process: nothing was saved. *)
(***************************************************************************)
CtrlC ==
  /\ pc # "idle"
  /\ pc' = "idle"
  /\ walk' = NoWalk
  /\ slice' = 0
  /\ g_enum_files' = <<>>
  /\ idx' = 1
  /\ g_known_files' = <<>>
  /\ g_guard_running' = FALSE
  /\ initial_count' = 0
  /\ total_new_files' = 0
  /\ threat_count' = 0
  /\ alarms' = [p \in Paths |-> 0]
  /\ base' = {}
  /\ fresh' = {}
  /\ UNCHANGED <<fs, changes, stopAsked, starts>>

(* Another program changes the tree; a creation makes the file fresh. *)
FileChange(p, attr) ==
  /\ FsChange(p, attr)
  /\ fresh' = IF attr = "absent" THEN fresh \ {p}
              ELSE IF fs[p] = "absent" /\ Monitoring THEN fresh \cup {p}
              ELSE fresh
  /\ UNCHANGED <<guardVars, base, stopAsked, starts>>

(* The guard thread's own steps, once jk100_start_guard was entered. *)
GuardStep ==
  \/ TakeBaseline \/ Arm
  \/ SleepSlice \/ BeginRound \/ LeaveLoop
  \/ RoundListed \/ SkipKnown \/ ScanNew \/ EndRound
  \/ Return

Next ==
  \/ StartGuard
  \/ GuardStep
  \/ StopGuard
  \/ CtrlC
  \/ \E p \in Paths, attr \in Attr : FileChange(p, attr)

Spec == Init /\ [][Next]_vars

(* The operating system keeps running the guard thread. *)
FairSpec == Spec /\ WF_vars(GuardStep)

-----------------------------------------------------------------------------
(* Properties. *)

(***************************************************************************)
(* Every variable has its type; add_known_file never writes past the end   *)
(* of g_known_files.                                                       *)
(***************************************************************************)
TypeOK ==
  /\ WorldTypeOK
  /\ pc \in Locations
  /\ slice \in 0 .. Slices
  /\ g_enum_files \in Seq(Paths)
  /\ idx \in Nat \ {0}
  /\ g_known_files \in Seq(Paths)
  /\ Len(g_known_files) <= MAX_KNOWN_FILES
  /\ g_guard_running \in BOOLEAN
  /\ initial_count \in Nat
  /\ total_new_files \in 0 .. MaxNew
  /\ threat_count \in Nat
  /\ alarms \in [Paths -> Nat]
  /\ base \in SUBSET Paths
  /\ fresh \in SUBSET Paths
  /\ stopAsked \in BOOLEAN
  /\ starts \in 0 .. MaxStarts

(***************************************************************************)
(* A file takes one entry of the list, within a session and across         *)
(* sessions: a list left over from an earlier session or a missed lookup   *)
(* would use up the capacity with duplicates.                              *)
(***************************************************************************)
KnownOnce == IsInjective(g_known_files)

(***************************************************************************)
(* A buffer entry can only come from the enumeration of the current round. *)
(* start_guard does not empty the buffer before it enumerates in the loop; *)
(* it relies on the release at the end of the round before.                *)
(***************************************************************************)
BufferThisRound ==
  IF pc = "check"
    THEN Range(g_enum_files) \subseteq walk.may /\ IsInjective(g_enum_files)
    ELSE g_enum_files = <<>>

(***************************************************************************)
(* The guard alarms once per file, and a file of the baseline never, until *)
(* the list is full: "only new files are scanned".                         *)
(***************************************************************************)
AlarmsOnceUnlessFull ==
  pc # "idle" => \A p \in Paths : alarms[p] > 1 => KnownFull

BaselineQuietUnlessFull ==
  pc # "idle" => \A p \in base : alarms[p] > 0 => KnownFull

(***************************************************************************)
(* While the list has room, the numbers of the summary are those of the    *)
(* list: every file it grew by since the baseline was counted once.        *)
(***************************************************************************)
NewFilesCounted ==
  pc \in Loop /\ ~KnownFull => Len(g_known_files) = initial_count + total_new_files

(***************************************************************************)
(* An alarm names a file that existed at some moment of this round's       *)
(* enumeration, that a rule matches, that no whitelist entry covers, that  *)
(* is not above the size limit as the alarm is raised, and that was not on *)
(* the list before.                                                        *)
(***************************************************************************)
AlarmsJustified ==
  [][\A p \in Paths : alarms'[p] > alarms[p] =>
       p \in walk.may /\ p \in Rogues /\ fs[p] # "big" /\ ~is_known_file(p)]_vars

(* A stop request seen by the running loop ends the session. *)
StopEnds == (pc \in Loop /\ ~g_guard_running) ~> pc = "idle"

(***************************************************************************)
(* A file created while the guard watches, and not on its list, is scanned *)
(* in a later round, unless it is deleted or the session ends before.      *)
(***************************************************************************)
NewFileScanned ==
  \A p \in Paths : (p \in fresh /\ ~is_known_file(p)) ~> p \notin fresh

(***************************************************************************)
(* What the sources say and the code does not do.                          *)
(***************************************************************************)

(* jk100_stop_guard "stops the guard", whenever it is called. *)
StopHonoured == stopAsked ~> pc = "idle"

(* "After the baseline only new files are scanned." *)
OnlyNewFilesScanned == \A p \in base : alarms[p] = 0

(* "A new file is scanned when it is created." *)
CreatedFileScanned == \A p \in Paths : p \in fresh ~> p \notin fresh

=============================================================================
