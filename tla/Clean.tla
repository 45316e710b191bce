------------------------------- MODULE Clean -------------------------------
(***************************************************************************)
(* Cleaning: deep_clean_threat, clean_selected and one_click_clean of      *)
(* lib/clean on the Windows operations of cwrap.c.  Every operation can be *)
(* refused, and between two of them processes, services and other programs *)
(* act, the machine reboots, or the program ends.  No manifest is written  *)
(* (write_manifest does nothing), so rollback never changes anything.      *)
(***************************************************************************)
EXTENDS Integers, Sequences

CONSTANTS
  Procs, Keys, Services, Files, (* What threats name.                        *)
  OtherVolume,  (* Files on another volume than the quarantine.              *)
  NONE,         (* A threat's empty field (0 or "").                         *)
  Threats,      (* The threats that may be selected, records as in types.mbt.*)
  ScanIds,      (* Names of quarantine directories.                          *)
  Image,        (* [Procs -> Files]: the file a process runs from.           *)
  MaxRuns,      (* Bound: cleaning runs.                                     *)
  MaxSelected,  (* Bound: threats selected in each run.                      *)
  MaxEvents     (* Bound: things other programs do of their own accord.      *)

ASSUME CleanAssumption ==
  /\ NONE \notin Procs \cup Keys \cup Services \cup Files
  /\ Threats \subseteq [process_id   : Procs \cup {NONE},
                        run_key_name : Keys \cup {NONE},
                        service_name : Services \cup {NONE},
                        file_path    : Files \cup {NONE}]
  /\ Image \in [Procs -> Files]
  /\ OtherVolume \subseteq Files
  /\ MaxRuns \in Nat /\ MaxEvents \in Nat
  /\ MaxSelected \in [1 .. MaxRuns -> Nat]

VARIABLES
  (* The machine. *)
  proc,       (* [Procs -> {"running", "dying", "gone"}]                     *)
  run_key,    (* The autostart entries there are.                            *)
  svc,        (* [Services -> {"running", "stopping", "stopped", "absent"}]  *)
  marked,     (* Services marked for deletion.                               *)
  source,     (* [Files -> Nat]: the copy at the path, 0 for none.           *)
  opened,     (* Files other programs hold open.                             *)
  quarantine, (* [ScanIds -> [Files -> Nat]]: the copy kept, 0 for none.     *)
  partial,    (* Pairs <<scan id, f>>: a name taken by a part of a copy.     *)
  scheduled,  (* Files the next reboot deletes.                              *)
  (* The program. *)
  pc,
  selected,   (* Threats still to clean; the first is being cleaned.         *)
  scan_id,
  stop_ok,    (* What stop_service returned.                                 *)
  items,      (* The CleanItems: op, target, success and message.            *)
  pending_reboot,
  (* Observation and bounds. *)
  made,       (* [Files -> Nat]: copies the path has ever held.              *)
  rebooted,   (* Pairs <<f, copy>>: deleted by a reboot.                     *)
  runs, events

machineVars == <<proc, run_key, svc, marked, source, opened, quarantine, partial, scheduled>>
programVars == <<pc, selected, scan_id, stop_ok, items, pending_reboot>>
ghostVars == <<made, rebooted, runs, events>>
vars == <<machineVars, programVars, ghostVars>>

Working == {"kill", "run_key", "service", "wait", "delete", "file", "move",
            "copy", "remove", "schedule"}
Locations == {"idle", "elevate", "done"} \cup Working

threat == Head(selected)

(* A file is in use if a process runs from it or a program has it open.     *)
InUse(f) ==
  \/ f \in opened
  \/ \E p \in Procs : Image[p] = f /\ proc[p] # "gone"

Item(op, of, success, message) ==
  [op |-> op, of |-> of, success |-> success, message |-> message]

Report(op, of, success) ==
  items' = Append(items, Item(op, of, success, IF success THEN "done" ELSE "failed"))

(* The last part of a threat is done: on to the next one, or return.        *)
NextThreat ==
  /\ selected' = Tail(selected)
  /\ pc' = IF Len(selected) = 1 THEN "done" ELSE "kill"

-----------------------------------------------------------------------------
Init ==
  /\ proc \in [Procs -> {"running", "gone"}]
  /\ run_key = Keys
  /\ svc = [s \in Services |-> "running"]
  /\ marked = {}
  /\ source = [f \in Files |-> 1]
  /\ opened = {}
  /\ quarantine = [s \in ScanIds |-> [f \in Files |-> 0]]
  /\ partial = {}
  /\ scheduled = {}
  /\ pc = "idle"
  /\ selected = <<>>
  /\ scan_id \in ScanIds
  /\ stop_ok = FALSE
  /\ items = <<>>
  /\ pending_reboot = FALSE
  /\ made = [f \in Files |-> 1]
  /\ rebooted = {}
  /\ runs = 0
  /\ events = 0

Begin(where) ==
  /\ pc \in {"idle", "done"}
  /\ runs < MaxRuns
  /\ \E n \in 1 .. MaxSelected[runs + 1] : selected' \in [1 .. n -> Threats]
  /\ scan_id' \in ScanIds
  /\ items' = <<>>
  /\ pending_reboot' = FALSE
  /\ pc' = where
  /\ runs' = runs + 1
  /\ UNCHANGED <<machineVars, stop_ok, made, rebooted, events>>

(* clean_selected asks for no elevation. *)
CleanSelected == Begin("kill")

OneClickClean == Begin("elevate")

(***************************************************************************)
(* is_elevated and request_elevation: elevated already, or the user agrees *)
(* and a second program starts while this one goes on; or the user refuses *)
(* and nothing is cleaned.                                                 *)
(***************************************************************************)
Elevate ==
  /\ pc = "elevate"
  /\ \/ pc' = "kill" /\ UNCHANGED selected
     \/ pc' = "done" /\ selected' = <<>>
  /\ UNCHANGED <<machineVars, scan_id, stop_ok, items, pending_reboot, ghostVars>>

(* An empty field of the threat. *)
SkipPart ==
  /\ \/ pc = "kill" /\ threat.process_id = NONE /\ pc' = "run_key" /\ UNCHANGED selected
     \/ pc = "run_key" /\ threat.run_key_name = NONE /\ pc' = "service" /\ UNCHANGED selected
     \/ pc = "service" /\ threat.service_name = NONE /\ pc' = "file" /\ UNCHANGED selected
     \/ pc = "file" /\ threat.file_path = NONE /\ NextThreat
  /\ UNCHANGED <<machineVars, scan_id, stop_ok, items, pending_reboot, ghostVars>>

-----------------------------------------------------------------------------
(***************************************************************************)
(* The Windows operations of cwrap.c, each with what it tells its caller.  *)
(* Any of them may be refused.                                             *)
(***************************************************************************)

(***************************************************************************)
(* A terminated process holds its file until it ends.  The number of one   *)
(* that is gone may be another process's by now, which is then ended       *)
(* instead.                                                                *)
(***************************************************************************)
kill_process(p, ok) ==
  IF ok THEN \/ proc[p] = "running" /\ proc' = [proc EXCEPT ![p] = "dying"]
             \/ proc[p] = "gone" /\ UNCHANGED proc
        ELSE UNCHANGED proc

(* RegDeleteValueA may fail in each key; the function returns 0 always.     *)
delete_run_key(key, ok) ==
  /\ ok
  /\ run_key' \in {run_key, run_key \ {key}}

(* DeleteService marks the service; it goes when it has stopped.            *)
delete_service(s, ok) ==
  IF ok THEN /\ svc[s] # "absent"
             /\ marked' = marked \cup {s}
             /\ svc' = [svc EXCEPT ![s] = IF @ = "stopped" THEN "absent" ELSE @]
        ELSE UNCHANGED <<svc, marked>>

(* There is a file to move, and its name in the quarantine is free. *)
Movable(f) ==
  source[f] # 0 /\ quarantine[scan_id][f] = 0 /\ <<scan_id, f>> \notin partial

(* Mutant of move_file_to_quarantine: a copy already there is replaced. *)
MoveReplacing(f, ok) ==
  IF ok THEN /\ source[f] # 0 /\ f \notin OtherVolume
             /\ quarantine' = [quarantine EXCEPT ![scan_id][f] = source[f]]
             /\ source' = [source EXCEPT ![f] = 0]
        ELSE UNCHANGED <<source, quarantine>>

(* Mutant of move_file_to_quarantine: a refused move returns 0 as well. *)
MoveAssumed(f, ok) ==
  \/ /\ ok /\ Movable(f) /\ f \notin OtherVolume
     /\ quarantine' = [quarantine EXCEPT ![scan_id][f] = source[f]]
     /\ source' = [source EXCEPT ![f] = 0]
  \/ UNCHANGED <<source, quarantine>>

(* Mutant of move_file_to_quarantine: the copy of a move to another volume  *)
(* within one.                                                             *)
MoveCopying(f, ok) ==
  /\ UNCHANGED source
  /\ IF ok THEN /\ Movable(f) /\ f \notin OtherVolume
                /\ quarantine' = [quarantine EXCEPT ![scan_id][f] = source[f]]
           ELSE UNCHANGED quarantine

(***************************************************************************)
(* MoveFileA never replaces a file.  Within a volume it renames, at once   *)
(* or not at all; to another it copies and deletes, which is refused here  *)
(* and done by CopyToQuarantine and the actions after it.  It may fail for *)
(* other reasons, a program that opened the file since among them; one     *)
(* that shares deletion does not stand in its way.                         *)
(***************************************************************************)
move_file_to_quarantine(f, ok) ==
  IF ok THEN /\ Movable(f) /\ f \notin OtherVolume
             /\ quarantine' = [quarantine EXCEPT ![scan_id][f] = source[f]]
             /\ source' = [source EXCEPT ![f] = 0]
        ELSE UNCHANGED <<source, quarantine>>

(* A file that cannot be opened counts as in use, one that is not there     *)
(* among them.                                                              *)
is_file_in_use(f, used) == used \/ (source[f] # 0 /\ ~InUse(f))

(* MoveFileExA with MOVEFILE_DELAY_UNTIL_REBOOT.                            *)
schedule_delete_on_reboot(f, ok) ==
  IF ok THEN source[f] # 0 /\ scheduled' = scheduled \cup {f}
        ELSE UNCHANGED scheduled

-----------------------------------------------------------------------------
(* deep_clean_threat, part after part. *)

(* Mutant of KillProcess: a failure ends the cleaning of the threat. *)
KillOrSkipThreat ==
  /\ pc = "kill"
  /\ threat.process_id # NONE
  /\ \E ok \in BOOLEAN :
       /\ kill_process(threat.process_id, ok)
       /\ Report("kill", threat.process_id, ok)
       /\ IF ok THEN pc' = "run_key" /\ UNCHANGED selected ELSE NextThreat
  /\ UNCHANGED <<run_key, svc, marked, source, opened, quarantine, partial, scheduled,
                 scan_id, stop_ok, pending_reboot, ghostVars>>

KillProcess ==
  /\ pc = "kill"
  /\ threat.process_id # NONE
  /\ \E ok \in BOOLEAN :
       /\ kill_process(threat.process_id, ok)
       /\ Report("kill", threat.process_id, ok)
  /\ pc' = "run_key"
  /\ UNCHANGED <<run_key, svc, marked, source, opened, quarantine, partial, scheduled, selected,
                 scan_id, stop_ok, pending_reboot, ghostVars>>

DeleteRunKey ==
  /\ pc = "run_key"
  /\ threat.run_key_name # NONE
  /\ \E ok \in BOOLEAN :
       /\ delete_run_key(threat.run_key_name, ok)
       /\ Report("run_key", threat.run_key_name, ok)
  /\ pc' = "service"
  /\ UNCHANGED <<proc, svc, marked, source, opened, quarantine, partial, scheduled, selected,
                 scan_id, stop_ok, pending_reboot, ghostVars>>

(* The service cannot be opened, or is asked to stop, which it may refuse.  *)
StopService ==
  /\ pc = "service"
  /\ threat.service_name # NONE
  /\ LET s == threat.service_name IN
       \/ stop_ok' = FALSE /\ pc' = "delete" /\ UNCHANGED svc
       \/ /\ svc[s] # "absent"
          /\ svc' \in {svc, [svc EXCEPT ![s] = IF @ = "running" THEN "stopping" ELSE @]}
          /\ pc' = "wait"
          /\ UNCHANGED stop_ok
  /\ UNCHANGED <<proc, run_key, marked, source, opened, quarantine, partial, scheduled, selected,
                 scan_id, items, pending_reboot, ghostVars>>

(* Mutant of StopWaitOver: poll until the service has stopped. *)
StopWaitForever ==
  /\ pc = "wait"
  /\ svc[threat.service_name] \in {"stopped", "absent"}
  /\ stop_ok' = TRUE
  /\ pc' = "delete"
  /\ UNCHANGED <<machineVars, selected, scan_id, items, pending_reboot, ghostVars>>

(* The 100 polls end: the service has stopped, or the time is up.           *)
StopWaitOver ==
  /\ pc = "wait"
  /\ stop_ok' = TRUE
  /\ pc' = "delete"
  /\ UNCHANGED <<machineVars, selected, scan_id, items, pending_reboot, ghostVars>>

DeleteService ==
  /\ pc = "delete"
  /\ \E del_ok \in BOOLEAN :
       /\ delete_service(threat.service_name, del_ok)
       /\ Report("service", threat.service_name, stop_ok /\ del_ok)
  /\ pc' = "file"
  /\ stop_ok' = FALSE
  /\ UNCHANGED <<proc, run_key, source, opened, quarantine, partial, scheduled, selected,
                 scan_id, pending_reboot, ghostVars>>

TestFileInUse ==
  /\ pc = "file"
  /\ threat.file_path # NONE
  /\ \E used \in BOOLEAN :
       /\ is_file_in_use(threat.file_path, used)
       /\ pc' = IF used THEN "schedule" ELSE "move"
  /\ UNCHANGED <<machineVars, selected, scan_id, stop_ok, items, pending_reboot, ghostVars>>

MoveToQuarantine ==
  /\ pc = "move"
  /\ \E ok \in BOOLEAN :
       /\ move_file_to_quarantine(threat.file_path, ok)
       /\ Report("file", threat.file_path, ok)
  /\ NextThreat
  /\ UNCHANGED <<proc, run_key, svc, marked, opened, partial, scheduled, scan_id,
                 stop_ok, pending_reboot, ghostVars>>

(***************************************************************************)
(* MoveFileA to another volume, which the program can be ended in the      *)
(* middle of: it takes the name, writes the copy under it, and then        *)
(* deletes the original.  A copy that fails takes the name back, if it     *)
(* can; an original that cannot be deleted stays, and the move counts as   *)
(* done.                                                                   *)
(***************************************************************************)
CopyToQuarantine ==
  /\ pc = "move"
  /\ threat.file_path \in OtherVolume /\ Movable(threat.file_path)
  /\ partial' = partial \cup {<<scan_id, threat.file_path>>}
  /\ pc' = "copy"
  /\ UNCHANGED <<proc, run_key, svc, marked, source, opened, quarantine, scheduled,
                 selected, scan_id, stop_ok, items, pending_reboot, ghostVars>>

CopyFails ==
  /\ pc = "copy"
  /\ partial' \in {partial, partial \ {<<scan_id, threat.file_path>>}}
  /\ Report("file", threat.file_path, FALSE)
  /\ NextThreat
  /\ UNCHANGED <<proc, run_key, svc, marked, source, opened, quarantine, scheduled,
                 scan_id, stop_ok, pending_reboot, ghostVars>>

CopyEnds ==
  /\ pc = "copy"
  /\ quarantine' = [quarantine EXCEPT ![scan_id][threat.file_path]
                                         = source[threat.file_path]]
  /\ partial' = partial \ {<<scan_id, threat.file_path>>}
  /\ pc' = "remove"
  /\ UNCHANGED <<proc, run_key, svc, marked, source, opened, scheduled,
                 selected, scan_id, stop_ok, items, pending_reboot, ghostVars>>

DeleteOriginal ==
  /\ pc = "remove"
  /\ source' \in {source, [source EXCEPT ![threat.file_path] = 0]}
  /\ Report("file", threat.file_path, TRUE)
  /\ NextThreat
  /\ UNCHANGED <<proc, run_key, svc, marked, opened, quarantine, partial, scheduled,
                 scan_id, stop_ok, pending_reboot, ghostVars>>

(* The message speaks of the reboot whether or not the deletion was         *)
(* entered, and a message that does so sets pending_reboot.                 *)
ScheduleDelete ==
  /\ pc = "schedule"
  /\ \E ok \in BOOLEAN :
       /\ schedule_delete_on_reboot(threat.file_path, ok)
       /\ items' = Append(items, Item("file", threat.file_path, ok, "reboot"))
  /\ pending_reboot' = TRUE
  /\ NextThreat
  /\ UNCHANGED <<proc, run_key, svc, marked, source, opened, quarantine, partial, scan_id,
                 stop_ok, ghostVars>>

(* The program is ended.  What it was doing is written down nowhere.        *)
Crash ==
  /\ pc # "idle"
  /\ pc' = "idle"
  /\ selected' = <<>>
  /\ items' = <<>>
  /\ pending_reboot' = FALSE
  /\ UNCHANGED <<machineVars, scan_id, stop_ok, ghostVars>>

-----------------------------------------------------------------------------
(* The machine and the other programs. *)

ProcessEnds(p) ==
  /\ proc[p] = "dying"
  /\ proc' = [proc EXCEPT ![p] = "gone"]
  /\ UNCHANGED <<run_key, svc, marked, source, opened, quarantine, partial, scheduled,
                 programVars, ghostVars>>

ServiceStops(s) ==
  /\ svc[s] = "stopping"
  /\ svc' = [svc EXCEPT ![s] = IF s \in marked THEN "absent" ELSE "stopped"]
  /\ UNCHANGED <<proc, run_key, marked, source, opened, quarantine, partial, scheduled,
                 programVars, ghostVars>>

Event ==
  /\ events < MaxEvents
  /\ events' = events + 1

(* A watchdog starts the process again. *)
ProcessRestarts(p) ==
  /\ Event
  /\ proc[p] = "gone" /\ source[Image[p]] # 0
  /\ proc' = [proc EXCEPT ![p] = "running"]
  /\ UNCHANGED <<run_key, svc, marked, source, opened, quarantine, partial, scheduled,
                 programVars, made, rebooted, runs>>

OpenOrCloseFile(f) ==
  /\ Event
  /\ opened' = IF f \in opened THEN opened \ {f} ELSE opened \cup {f}
  /\ f \notin opened => source[f] # 0
  /\ UNCHANGED <<proc, run_key, svc, marked, source, quarantine, partial, scheduled,
                 programVars, made, rebooted, runs>>

(* A new file appears where one was taken away. *)
FileReturns(f) ==
  /\ Event
  /\ source[f] = 0
  /\ made' = [made EXCEPT ![f] = @ + 1]
  /\ source' = [source EXCEPT ![f] = made[f] + 1]
  /\ opened' = opened \ {f}
  /\ UNCHANGED <<proc, run_key, svc, marked, quarantine, partial, scheduled,
                 programVars, rebooted, runs>>

(* The pending deletions are carried out before anything is started. *)
Reboot ==
  /\ Event
  /\ source' = [f \in Files |-> IF f \in scheduled THEN 0 ELSE source[f]]
  /\ rebooted' = rebooted \cup {<<f, source[f]>> : f \in {g \in scheduled : source[g] # 0}}
  /\ scheduled' = {}
  /\ proc' = [p \in Procs |-> "gone"]
  /\ svc' = [s \in Services |-> IF s \in marked THEN "absent" ELSE svc[s]]
  /\ opened' = {}
  /\ pc' = "idle"
  /\ selected' = <<>>
  /\ items' = <<>>
  /\ pending_reboot' = FALSE
  /\ UNCHANGED <<run_key, marked, quarantine, partial, scan_id, stop_ok, made, runs>>

CleanStep ==
  \/ Elevate \/ SkipPart
  \/ KillProcess \/ DeleteRunKey
  \/ StopService \/ StopWaitOver \/ DeleteService
  \/ TestFileInUse \/ MoveToQuarantine \/ ScheduleDelete
  \/ CopyToQuarantine \/ CopyFails \/ CopyEnds \/ DeleteOriginal

Next ==
  \/ CleanSelected \/ OneClickClean
  \/ CleanStep
  \/ Crash
  \/ Reboot
  \/ \E p \in Procs : ProcessEnds(p) \/ ProcessRestarts(p)
  \/ \E s \in Services : ServiceStops(s)
  \/ \E f \in Files : OpenOrCloseFile(f) \/ FileReturns(f)

Spec == Init /\ [][Next]_vars

(* The operating system keeps running the program. *)
FairSpec == Spec /\ WF_vars(CleanStep)

-----------------------------------------------------------------------------
(* Properties. *)

(* Every variable has its type. *)
TypeOK ==
  /\ proc \in [Procs -> {"running", "dying", "gone"}]
  /\ run_key \in SUBSET Keys
  /\ svc \in [Services -> {"running", "stopping", "stopped", "absent"}]
  /\ marked \in SUBSET Services
  /\ source \in [Files -> Nat]
  /\ opened \in SUBSET Files
  /\ quarantine \in [ScanIds -> [Files -> Nat]]
  /\ partial \in SUBSET (ScanIds \X Files)
  /\ scheduled \in SUBSET Files
  /\ pc \in Locations
  /\ selected \in Seq(Threats)
  /\ pc \in Working \cup {"elevate"} <=> selected # <<>>
  /\ scan_id \in ScanIds
  /\ stop_ok \in BOOLEAN
  /\ items \in Seq([op : {"kill", "run_key", "service", "file"},
                    of : Procs \cup Keys \cup Services \cup Files,
                    success : BOOLEAN,
                    message : {"done", "failed", "reboot"}])
  /\ pending_reboot \in BOOLEAN
  /\ made \in [Files -> Nat]
  /\ rebooted \in SUBSET (Files \X Nat)
  /\ runs \in 0 .. MaxRuns
  /\ events \in 0 .. MaxEvents

(***************************************************************************)
(* Cleaning loses nothing by itself: whatever fails, crashes or runs       *)
(* twice, within a volume or across two, every copy of a file that ever    *)
(* was is at its path, whole in one quarantine directory, or was deleted   *)
(* by a reboot.                                                            *)
(***************************************************************************)
NoCopyLost ==
  \A f \in Files : \A c \in 1 .. made[f] :
    \/ source[f] = c
    \/ \E s \in ScanIds : quarantine[s][f] = c
    \/ <<f, c>> \in rebooted

(***************************************************************************)
(* Where the quarantine is on the file's own volume a copy is in one place *)
(* only, whole: a file put back at its path never stands for the copy in   *)
(* quarantine, one copy does not fill two directories, and no part of one  *)
(* takes a name.  Across volumes a crash, or an original that stays,       *)
(* leaves two (MovedIsGone below).                                         *)
(***************************************************************************)
OneCopyOnePlace ==
  \A f \in Files \ OtherVolume :
    /\ \A s \in ScanIds : quarantine[s][f] # 0 => quarantine[s][f] # source[f]
    /\ \A s, t \in ScanIds : quarantine[s][f] = quarantine[t][f] /\ s # t
                             => quarantine[s][f] = 0
    /\ \A s \in ScanIds : <<s, f>> \notin partial

(***************************************************************************)
(* What the report says was done to a file or a service is still so when   *)
(* it is returned: the file is in this scan's directory, or it is due at   *)
(* the next reboot and the result says a reboot is needed; the service is  *)
(* marked for deletion.                                                    *)
(***************************************************************************)
ReportStands ==
  \A i \in DOMAIN items :
    LET it == items[i] IN
      it.success =>
        /\ it.op = "file" /\ it.message = "done" => quarantine[scan_id][it.of] # 0
        /\ it.op = "file" /\ it.message = "reboot" => it.of \in scheduled /\ pending_reboot
        /\ it.op = "service" => it.of \in marked

(***************************************************************************)
(* One part that fails does not keep the others from being cleaned: after  *)
(* a process that could not be ended, the threat's other parts get their   *)
(* turn, so a report never has a kill followed by the next threat's kill   *)
(* when the first threat also named a file.                                *)
(***************************************************************************)
FailureDoesNotBlock ==
  \A i \in DOMAIN items \ {Len(items)} :
    items[i].op = "kill" /\ items[i + 1].op = "kill" =>
      \E t \in Threats : t.process_id = items[i].of /\ t.run_key_name = NONE
                        /\ t.service_name = NONE /\ t.file_path = NONE

(* Cleaning that began returns, unless the program is ended: also when a    *)
(* service never stops.                                                    *)
CleaningEnds == pc \in Working ~> pc \in {"done", "idle"}

(***************************************************************************)
(* What the documents say and the code does not do.                        *)
(***************************************************************************)

(* A file in use is "entered for deletion at the reboot" if a reboot is     *)
(* announced.                                                              *)
PendingRebootTrue == pc = "done" /\ pending_reboot => scheduled # {}

(* "All deleted files are moved to the quarantine." *)
DeletedIsInQuarantine ==
  \A d \in rebooted : \E s \in ScanIds : quarantine[s][d[1]] = d[2]

(* "The file was moved to the quarantine": it is not at its path any more.  *)
MovedIsGone ==
  \A i \in DOMAIN items :
    items[i].success /\ items[i].op = "file" /\ items[i].message = "done"
      => source[items[i].of] # quarantine[scan_id][items[i].of]

=============================================================================
