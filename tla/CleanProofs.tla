----------------------------- MODULE CleanProofs -----------------------------
(***************************************************************************)
(* Proofs about cleaning, for every set of threats, processes, services    *)
(* and files, any number of runs, crashes and reboots.                     *)
(***************************************************************************)
EXTENDS Clean, SequenceTheorems, TLAPS

(* The program works on a part only if the threat has it. *)
PartPlaced ==
  /\ pc \in {"wait", "delete"} => threat.service_name # NONE
  /\ pc \in {"move", "copy", "remove", "schedule"} => threat.file_path # NONE

ItemSet == [op : {"kill", "run_key", "service", "file"},
            of : Procs \cup Keys \cup Services \cup Files,
            success : BOOLEAN,
            message : {"done", "failed", "reboot"}]

(* An item of the report has its type.                                     *)
LEMMA ReportType ==
  ASSUME items \in Seq(ItemSet), NEW op \in {"kill", "run_key", "service", "file"},
         NEW of \in Procs \cup Keys \cup Services \cup Files,
         NEW success \in BOOLEAN, Report(op, of, success)
  PROVE  items' \in Seq(ItemSet)
<1>1. Item(op, of, success, IF success THEN "done" ELSE "failed") \in ItemSet
  BY DEF Item, ItemSet
<1> QED
  BY <1>1, AppendProperties DEF Report

(* The threat that is being cleaned, and going on to the next.             *)
LEMMA CurrentThreat ==
  ASSUME selected \in Seq(Threats), selected # <<>>
  PROVE  /\ threat \in Threats
         /\ threat.process_id \in Procs \cup {NONE}
         /\ threat.run_key_name \in Keys \cup {NONE}
         /\ threat.service_name \in Services \cup {NONE}
         /\ threat.file_path \in Files \cup {NONE}
<1>1. threat \in Threats
  BY DEF threat
<1> HIDE DEF threat
<1> QED
  BY <1>1, CleanAssumption DEF CleanAssumption

(* Going on to the next threat: there is one exactly if cleaning goes on.  *)
LEMMA NextThreatType ==
  ASSUME selected \in Seq(Threats), selected # <<>>, NextThreat
  PROVE  /\ selected' \in Seq(Threats)
         /\ pc' \in {"kill", "done"}
         /\ pc' = "kill" <=> selected' # <<>>
<1>1. Tail(selected) \in Seq(Threats) /\ Len(Tail(selected)) = Len(selected) - 1
  BY EmptySeq
<1>2. Len(selected) \in Nat \ {0}
  BY EmptySeq
<1>3. Len(selected') = 0 <=> selected' = <<>>
  BY <1>1, EmptySeq DEF NextThreat
<1> QED
  BY <1>1, <1>2, <1>3 DEF NextThreat

TypeInv == TypeOK /\ PartPlaced

(* The types hold before anything was cleaned.                             *)
LEMMA TypeInit == Init => TypeInv
<1> SUFFICES ASSUME Init PROVE TypeInv
  OBVIOUS
<1>1. /\ proc \in [Procs -> {"running", "dying", "gone"}]
      /\ svc \in [Services -> {"running", "stopping", "stopped", "absent"}]
      /\ source \in [Files -> Nat] /\ made \in [Files -> Nat]
      /\ quarantine \in [ScanIds -> [Files -> Nat]]
  BY DEF Init
<1>2. /\ run_key \in SUBSET Keys /\ marked \in SUBSET Services
      /\ opened \in SUBSET Files /\ scheduled \in SUBSET Files
      /\ partial \in SUBSET (ScanIds \X Files)
      /\ rebooted \in SUBSET (Files \X Nat)
  BY DEF Init
<1>3. selected \in Seq(Threats) /\ items \in Seq(ItemSet) /\ selected = <<>>
  BY DEF Init
<1>4. stop_ok \in BOOLEAN /\ pending_reboot \in BOOLEAN
  BY DEF Init
<1>5. pc = "idle" /\ scan_id \in ScanIds /\ runs = 0 /\ events = 0
  BY DEF Init
<1> QED
  BY <1>1, <1>2, <1>3, <1>4, <1>5, CleanAssumption
     DEF TypeInv, TypeOK, PartPlaced, Locations, Working, ItemSet

(* Every step, of the program and of the machine, keeps the types.         *)
LEMMA TypeNext == TypeInv /\ [Next]_vars => TypeInv'
<1> SUFFICES ASSUME TypeInv, [Next]_vars PROVE TypeInv'
  OBVIOUS
<1> USE CleanAssumption
<1> USE DEF TypeInv, TypeOK, PartPlaced, Locations, Working, machineVars, ghostVars, threat
<1>0. pc \in Working => selected \in Seq(Threats) /\ selected # <<>>
  OBVIOUS
<1>1. ASSUME NEW where \in {"kill", "elevate"}, Begin(where) PROVE TypeInv'
  <2>1. selected' \in Seq(Threats) /\ selected' # <<>>
    <3>1. MaxSelected[runs + 1] \in Nat
      <4>1. runs + 1 \in 1 .. MaxRuns /\ MaxSelected \in [1 .. MaxRuns -> Nat]
        BY <1>1, CleanAssumption DEF Begin, CleanAssumption
      <4> QED
        BY <4>1
    <3>2. PICK n \in 1 .. MaxSelected[runs + 1] : selected' \in [1 .. n -> Threats]
      BY <1>1 DEF Begin
    <3>3. Len(selected') = n /\ n # 0 /\ selected' \in Seq(Threats)
      BY <3>1, <3>2
    <3> QED
      BY <3>3, EmptySeq
  <2>2. items' \in Seq(ItemSet)
    BY <1>1 DEF Begin
  <2>3. pending_reboot' \in BOOLEAN
    BY <1>1 DEF Begin
  <2>4. runs' \in 0 .. MaxRuns
    BY <1>1 DEF Begin
  <2> QED
    BY <1>1, <2>1, <2>2, <2>3, <2>4 DEF Begin, ItemSet
<1>2. CASE Elevate
  <2>1. CASE pc' = "kill" /\ UNCHANGED selected
    BY <1>2, <2>1 DEF Elevate
  <2>2. CASE pc' = "done" /\ selected' = <<>>
    BY <1>2, <2>2, SMTT(30) DEF Elevate
  <2> QED
    BY <1>2, <2>1, <2>2 DEF Elevate
<1>3. CASE SkipPart
  <2>1. CASE pc = "file" /\ NextThreat
    BY <1>0, <1>3, <2>1, NextThreatType DEF SkipPart
  <2>2. CASE pc \in {"kill", "run_key", "service"} /\ UNCHANGED selected
    BY <1>3, <2>2 DEF SkipPart
  <2> QED
    BY <1>3, <2>1, <2>2 DEF SkipPart
<1>4. CASE KillProcess
  <2>1. threat.process_id \in Procs
    BY <1>0, <1>4, CurrentThreat DEF KillProcess
  <2>2. items' \in Seq(ItemSet)
    <3> DEFINE x == threat.process_id
    <3>1. PICK ok \in BOOLEAN : Report("kill", x, ok)
      BY <1>4 DEF KillProcess
    <3> HIDE DEF x
    <3>2. x \in Procs \cup Keys \cup Services \cup Files
      BY <2>1 DEF x
    <3>3. items \in Seq(ItemSet)
      BY DEF ItemSet
    <3> QED
      BY <3>1, <3>2, <3>3, ReportType
  <2>3. proc' \in [Procs -> {"running", "dying", "gone"}]
    <3>1. proc' = proc \/ proc' = [proc EXCEPT ![threat.process_id] = "dying"]
      BY <1>4 DEF KillProcess, kill_process
    <3> QED
      BY <2>1, <3>1
  <2> QED
    BY <1>4, <2>2, <2>3 DEF KillProcess, ItemSet
<1>5. CASE DeleteRunKey
  <2>1. threat.run_key_name \in Keys
    BY <1>0, <1>5, CurrentThreat DEF DeleteRunKey
  <2>2. items' \in Seq(ItemSet)
    <3> DEFINE x == threat.run_key_name
    <3>1. PICK ok \in BOOLEAN : Report("run_key", x, ok)
      BY <1>5 DEF DeleteRunKey
    <3> HIDE DEF x
    <3>2. x \in Procs \cup Keys \cup Services \cup Files
      BY <2>1 DEF x
    <3>3. items \in Seq(ItemSet)
      BY DEF ItemSet
    <3> QED
      BY <3>1, <3>2, <3>3, ReportType
  <2>3. run_key' \in SUBSET Keys
    BY <1>5 DEF DeleteRunKey, delete_run_key
  <2> QED
    BY <1>5, <2>2, <2>3 DEF DeleteRunKey, ItemSet
<1>6. CASE StopService
  <2>1. threat.service_name \in Services
    BY <1>0, <1>6, CurrentThreat DEF StopService
  <2>2. svc' \in [Services -> {"running", "stopping", "stopped", "absent"}]
    <3> DEFINE s == threat.service_name
    <3>1. svc' \in {svc, [svc EXCEPT ![s] = IF @ = "running" THEN "stopping" ELSE @]}
      BY <1>6 DEF StopService
    <3> HIDE DEF s
    <3>2. s \in Services /\ svc \in [Services -> {"running", "stopping", "stopped", "absent"}]
      BY <2>1 DEF s
    <3> QED
      BY <3>1, <3>2
  <2>3. stop_ok' \in BOOLEAN /\ pc' \in {"wait", "delete"}
    BY <1>6 DEF StopService
  <2> QED
    BY <1>6, <2>2, <2>3 DEF StopService
<1>7. CASE StopWaitOver
  BY <1>7 DEF StopWaitOver
<1>8. CASE DeleteService
  <2>1. threat.service_name \in Services
    BY <1>0, <1>8, CurrentThreat DEF DeleteService
  <2>2. items' \in Seq(ItemSet)
    <3> DEFINE s == threat.service_name
    <3>1. PICK ok \in BOOLEAN : Report("service", s, ok)
      BY <1>8 DEF DeleteService
    <3> HIDE DEF s
    <3>2. s \in Procs \cup Keys \cup Services \cup Files
      BY <2>1 DEF s
    <3>3. items \in Seq(ItemSet)
      BY DEF ItemSet
    <3> QED
      BY <3>1, <3>2, <3>3, ReportType
  <2>3. /\ svc' \in [Services -> {"running", "stopping", "stopped", "absent"}]
        /\ marked' \in SUBSET Services
    <3> DEFINE s == threat.service_name
    <3>1. PICK ok \in BOOLEAN : delete_service(s, ok)
      BY <1>8 DEF DeleteService
    <3> HIDE DEF s
    <3>2. s \in Services
      BY <2>1 DEF s
    <3>3. CASE ok
      BY <3>1, <3>2, <3>3 DEF delete_service
    <3>4. CASE ~ok
      BY <3>1, <3>4 DEF delete_service
    <3> QED
      BY <3>3, <3>4
  <2> QED
    BY <1>8, <2>2, <2>3 DEF DeleteService, ItemSet
<1>9. CASE TestFileInUse
  <2>1. pc' \in {"schedule", "move"} /\ threat.file_path # NONE
    BY <1>9 DEF TestFileInUse
  <2> QED
    BY <1>9, <2>1 DEF TestFileInUse
<1>10. CASE MoveToQuarantine
  <2>1. threat.file_path \in Files
    BY <1>0, <1>10, CurrentThreat DEF MoveToQuarantine
  <2>2. items' \in Seq(ItemSet)
    <3> DEFINE x == threat.file_path
    <3>1. PICK ok \in BOOLEAN : Report("file", x, ok)
      BY <1>10 DEF MoveToQuarantine
    <3> HIDE DEF x
    <3>2. x \in Procs \cup Keys \cup Services \cup Files
      BY <2>1 DEF x
    <3>3. items \in Seq(ItemSet)
      BY DEF ItemSet
    <3> QED
      BY <3>1, <3>2, <3>3, ReportType
  <2>3. source' \in [Files -> Nat] /\ quarantine' \in [ScanIds -> [Files -> Nat]]
    <3> DEFINE f == threat.file_path
    <3>1. \/ UNCHANGED <<source, quarantine>>
          \/ /\ quarantine' = [quarantine EXCEPT ![scan_id][f] = source[f]]
             /\ source' = [source EXCEPT ![f] = 0]
      BY <1>10 DEF MoveToQuarantine, move_file_to_quarantine
    <3> HIDE DEF f
    <3>2. f \in Files
      BY <2>1 DEF f
    <3>3. CASE UNCHANGED <<source, quarantine>>
      BY <3>3
    <3>4. CASE /\ quarantine' = [quarantine EXCEPT ![scan_id][f] = source[f]]
               /\ source' = [source EXCEPT ![f] = 0]
      <4>1. source' \in [Files -> Nat]
        BY <3>2, <3>4
      <4>2. quarantine' \in [ScanIds -> [Files -> Nat]]
        <5>1. source[f] \in Nat
          BY <3>2
        <5> QED
          BY <3>2, <3>4, <5>1
      <4> QED
        BY <4>1, <4>2
    <3> QED
      BY <3>1, <3>3, <3>4
  <2>4. /\ selected' \in Seq(Threats) /\ pc' \in {"kill", "done"}
        /\ pc' = "kill" <=> selected' # <<>>
    BY <1>0, <1>10, NextThreatType DEF MoveToQuarantine
  <2> QED
    BY <1>10, <2>2, <2>3, <2>4 DEF MoveToQuarantine, ItemSet
<1>11. CASE ScheduleDelete
  <2>1. threat.file_path \in Files
    BY <1>0, <1>11, CurrentThreat DEF ScheduleDelete
  <2>2. items' \in Seq(ItemSet)
    <3>1. PICK ok \in BOOLEAN :
            items' = Append(items, Item("file", threat.file_path, ok, "reboot"))
      BY <1>11 DEF ScheduleDelete
    <3>2. Item("file", threat.file_path, ok, "reboot") \in ItemSet
      BY <2>1 DEF Item, ItemSet
    <3> QED
      BY <3>1, <3>2, AppendProperties DEF ItemSet
  <2>3. scheduled' \in SUBSET Files
    BY <1>11, <2>1 DEF ScheduleDelete, schedule_delete_on_reboot
  <2>4. /\ selected' \in Seq(Threats) /\ pc' \in {"kill", "done"}
        /\ pc' = "kill" <=> selected' # <<>>
    BY <1>0, <1>11, NextThreatType DEF ScheduleDelete
  <2>5. pending_reboot' \in BOOLEAN
    BY <1>11 DEF ScheduleDelete
  <2> QED
    BY <1>11, <2>2, <2>3, <2>4, <2>5 DEF ScheduleDelete, ItemSet
<1>a. CASE CopyToQuarantine
  <2>1. threat.file_path \in Files /\ threat.file_path # NONE
    BY <1>0, <1>a, CurrentThreat DEF CopyToQuarantine
  <2>2. partial' \in SUBSET (ScanIds \X Files) /\ pc' = "copy"
    BY <1>a, <2>1 DEF CopyToQuarantine
  <2> QED
    BY <1>a, <2>1, <2>2 DEF CopyToQuarantine
<1>b. CASE CopyEnds
  <2>1. threat.file_path \in Files /\ threat.file_path # NONE
    BY <1>0, <1>b, CurrentThreat DEF CopyEnds
  <2>2. partial' \in SUBSET (ScanIds \X Files) /\ pc' = "remove"
    BY <1>b DEF CopyEnds
  <2>3. quarantine' \in [ScanIds -> [Files -> Nat]]
    <3> DEFINE f == threat.file_path
    <3>1. quarantine' = [quarantine EXCEPT ![scan_id][f] = source[f]]
      BY <1>b DEF CopyEnds
    <3> HIDE DEF f
    <3>2. f \in Files /\ source[f] \in Nat
      BY <2>1 DEF f
    <3> QED
      BY <3>1, <3>2
  <2> QED
    BY <1>b, <2>1, <2>2, <2>3 DEF CopyEnds
<1>c. ASSUME CopyFails \/ DeleteOriginal PROVE TypeInv'
  <2>1. threat.file_path \in Files
    BY <1>0, <1>c, CurrentThreat DEF CopyFails, DeleteOriginal
  <2>2. items' \in Seq(ItemSet)
    <3> DEFINE x == threat.file_path
    <3>1. PICK ok \in BOOLEAN : Report("file", x, ok)
      BY <1>c DEF CopyFails, DeleteOriginal
    <3> HIDE DEF x
    <3>2. x \in Procs \cup Keys \cup Services \cup Files
      BY <2>1 DEF x
    <3>3. items \in Seq(ItemSet)
      BY DEF ItemSet
    <3> QED
      BY <3>1, <3>2, <3>3, ReportType
  <2>3. partial' \in SUBSET (ScanIds \X Files) /\ source' \in [Files -> Nat]
    <3> DEFINE f == threat.file_path
    <3>1. partial' \subseteq partial
      BY <1>c DEF CopyFails, DeleteOriginal
    <3>2. source' = source \/ source' = [source EXCEPT ![f] = 0]
      BY <1>c DEF CopyFails, DeleteOriginal
    <3> HIDE DEF f
    <3>3. f \in Files
      BY <2>1 DEF f
    <3>4. source' \in [Files -> Nat]
      <4>1. source \in [Files -> Nat]
        OBVIOUS
      <4> HIDE DEF TypeInv, TypeOK
      <4> QED
        BY <3>2, <3>3, <4>1
    <3>5. partial' \in SUBSET (ScanIds \X Files)
      BY <3>1
    <3> QED
      BY <3>4, <3>5
  <2>4. /\ selected' \in Seq(Threats) /\ pc' \in {"kill", "done"}
        /\ pc' = "kill" <=> selected' # <<>>
    BY <1>0, <1>c, NextThreatType DEF CopyFails, DeleteOriginal
  <2> QED
    BY <1>c, <2>2, <2>3, <2>4 DEF CopyFails, DeleteOriginal, ItemSet
<1>12. CASE Crash
  <2>1. selected' = <<>> /\ items' \in Seq(ItemSet) /\ selected' \in Seq(Threats)
    BY <1>12 DEF Crash
  <2>2. pending_reboot' \in BOOLEAN
    BY <1>12 DEF Crash
  <2>3. pc' = "idle" /\ UNCHANGED <<machineVars, scan_id, stop_ok, ghostVars>>
    BY <1>12 DEF Crash
  <2> QED
    BY <2>1, <2>2, <2>3 DEF ItemSet
<1>13. CASE Reboot
  <2>1. selected' = <<>> /\ items' \in Seq(ItemSet) /\ selected' \in Seq(Threats)
    BY <1>13 DEF Reboot
  <2>2. pending_reboot' \in BOOLEAN
    BY <1>13 DEF Reboot
  <2>3. scheduled' \in SUBSET Files /\ opened' \in SUBSET Files
    BY <1>13 DEF Reboot
  <2>4. source' \in [Files -> Nat] /\ rebooted' \in SUBSET (Files \X Nat)
    BY <1>13 DEF Reboot
  <2>5. /\ proc' \in [Procs -> {"running", "dying", "gone"}]
        /\ svc' \in [Services -> {"running", "stopping", "stopped", "absent"}]
    BY <1>13 DEF Reboot
  <2>6. events' \in 0 .. MaxEvents
    BY <1>13 DEF Reboot, Event
  <2>7. pc' = "idle" /\ UNCHANGED <<run_key, marked, quarantine, partial, scan_id, stop_ok, made, runs>>
    BY <1>13 DEF Reboot
  <2> QED
    BY <2>1, <2>2, <2>3, <2>4, <2>5, <2>6, <2>7 DEF ItemSet
<1>14. ASSUME NEW p \in Procs, ProcessEnds(p) \/ ProcessRestarts(p) PROVE TypeInv'
  <2>1. proc' \in [Procs -> {"running", "dying", "gone"}] /\ events' \in 0 .. MaxEvents
    <3>1. /\ \/ proc' = [proc EXCEPT ![p] = "gone"]
             \/ proc' = [proc EXCEPT ![p] = "running"]
          /\ events' = events \/ (events < MaxEvents /\ events' = events + 1)
      BY <1>14 DEF ProcessEnds, ProcessRestarts, Event
    <3>2. events' \in 0 .. MaxEvents
      BY <3>1
    <3>3. proc' \in [Procs -> {"running", "dying", "gone"}]
      BY <3>1
    <3> QED
      BY <3>2, <3>3
  <2> QED
    BY <1>14, <2>1 DEF ProcessEnds, ProcessRestarts, programVars
<1>15. ASSUME NEW s \in Services, ServiceStops(s) PROVE TypeInv'
  <2>1. svc' \in [Services -> {"running", "stopping", "stopped", "absent"}]
    BY <1>15 DEF ServiceStops
  <2> QED
    BY <1>15, <2>1 DEF ServiceStops, programVars
<1>16. ASSUME NEW f \in Files, OpenOrCloseFile(f) PROVE TypeInv'
  <2>1. opened' \in SUBSET Files /\ events' \in 0 .. MaxEvents
    BY <1>16 DEF OpenOrCloseFile, Event
  <2> QED
    BY <1>16, <2>1 DEF OpenOrCloseFile, programVars
<1>17. ASSUME NEW f \in Files, FileReturns(f) PROVE TypeInv'
  <2>1. source' \in [Files -> Nat] /\ made' \in [Files -> Nat] /\ events' \in 0 .. MaxEvents
    BY <1>17 DEF FileReturns, Event
  <2> QED
    BY <1>17, <2>1 DEF FileReturns, programVars
<1>18. CASE UNCHANGED vars
  BY <1>18 DEF vars, programVars
<1> QED
  BY <1>1, <1>2, <1>3, <1>4, <1>5, <1>6, <1>7, <1>8, <1>9, <1>10, <1>11, <1>12,
     <1>13, <1>14, <1>15, <1>16, <1>17, <1>18, <1>a, <1>b, <1>c
     DEF Next, CleanStep, CleanSelected, OneClickClean

(* Every variable keeps its type: no failure, crash or reboot, at whatever *)
(* point of the cleaning, leaves the program between two threats.          *)
THEOREM TypeCorrect == Spec => []TypeOK
<1>1. TypeInv => TypeOK
  BY DEF TypeInv
<1> QED
  BY <1>1, TypeInit, TypeNext, PTL DEF Spec

-----------------------------------------------------------------------------
(***************************************************************************)
(* Where the copies are.  That no copy number is used before its copy is   *)
(* made is what makes a new file's number differ from every copy that is   *)
(* kept.                                                                   *)
(***************************************************************************)
CopiesMade ==
  \A f \in Files :
    /\ source[f] <= made[f]
    /\ \A s \in ScanIds : quarantine[s][f] <= made[f]

(***************************************************************************)
(* A move to another volume has an original all the time, and its name in  *)
(* the quarantine stands for nothing until it stands for the whole copy.   *)
(***************************************************************************)
CopyPlaced ==
  LET f == threat.file_path IN
    /\ pc \in {"copy", "remove"} => f \in OtherVolume /\ source[f] # 0
    /\ pc = "copy" => quarantine[scan_id][f] = 0
    /\ pc = "remove" => quarantine[scan_id][f] = source[f]

CopyTypes ==
  /\ source \in [Files -> Nat]
  /\ made \in [Files -> Nat]
  /\ quarantine \in [ScanIds -> [Files -> Nat]]
  /\ scan_id \in ScanIds

CopyInv == CopiesMade /\ OneCopyOnePlace /\ NoCopyLost

(* The first copies are at their paths.                                    *)
LEMMA CopyInit == Init => CopyInv
<1> SUFFICES ASSUME Init PROVE CopyInv
  OBVIOUS
<1>1. /\ \A f \in Files : source[f] = 1 /\ made[f] = 1
      /\ \A s \in ScanIds : \A f \in Files : quarantine[s][f] = 0
  BY DEF Init
<1> QED
  <2>1. partial = {}
    BY DEF Init
  <2> QED
    BY <1>1, <2>1 DEF CopyInv, CopiesMade, OneCopyOnePlace, NoCopyLost

(* A move within the volume empties the path and fills a place that was    *)
(* empty.                                                                  *)
LEMMA MoveKeepsCopies ==
  ASSUME CopyInv, CopyTypes, NEW f \in Files, f \notin OtherVolume,
         source[f] # 0, quarantine[scan_id][f] = 0,
         quarantine' = [quarantine EXCEPT ![scan_id][f] = source[f]],
         source' = [source EXCEPT ![f] = 0],
         UNCHANGED <<made, rebooted, partial>>
  PROVE  CopyInv'
<1>1. \A g \in Files : source'[g] = IF g = f THEN 0 ELSE source[g]
  BY DEF CopyTypes
<1>2. \A s \in ScanIds : \A g \in Files :
        quarantine'[s][g] = IF s = scan_id /\ g = f THEN source[f] ELSE quarantine[s][g]
  BY DEF CopyTypes
<1>3. scan_id \in ScanIds /\ \A g \in Files : source[g] \in Nat /\ made[g] \in Nat
  BY DEF CopyTypes
<1>4. CopiesMade'
  BY <1>1, <1>2, <1>3 DEF CopyInv, CopiesMade
<1>5. OneCopyOnePlace'
  BY <1>1, <1>2, <1>3 DEF CopyInv, OneCopyOnePlace
<1>6. NoCopyLost'
  <2> SUFFICES ASSUME NEW g \in Files, NEW c \in 1 .. made[g]
               PROVE  \/ source'[g] = c
                      \/ \E s \in ScanIds : quarantine'[s][g] = c
                      \/ <<g, c>> \in rebooted
    BY DEF NoCopyLost
  <2>1. CASE source[g] = c
    BY <1>1, <1>2, <1>3, <2>1
  <2>2. CASE \E s \in ScanIds : quarantine[s][g] = c
    <3>1. PICK s \in ScanIds : quarantine[s][g] = c
      BY <2>2
    <3>2. ~(s = scan_id /\ g = f)
      BY <3>1, <1>3
    <3> QED
      BY <1>2, <3>1, <3>2
  <2> QED
    BY <2>1, <2>2 DEF CopyInv, NoCopyLost
<1> QED
  BY <1>4, <1>5, <1>6 DEF CopyInv

(* A copy to another volume fills a place that was empty.                  *)
LEMMA CopyKeepsCopies ==
  ASSUME CopyInv, CopyTypes, NEW f \in OtherVolume, f \in Files,
         quarantine[scan_id][f] = 0,
         quarantine' = [quarantine EXCEPT ![scan_id][f] = source[f]],
         partial' \subseteq partial,
         UNCHANGED <<source, made, rebooted>>
  PROVE  CopyInv'
<1>1. \A s \in ScanIds : \A g \in Files :
        quarantine'[s][g] = IF s = scan_id /\ g = f THEN source[f] ELSE quarantine[s][g]
  BY DEF CopyTypes
<1>2. scan_id \in ScanIds /\ \A g \in Files : source[g] \in Nat /\ made[g] \in Nat
  BY DEF CopyTypes
<1>3. CopiesMade'
  BY <1>1, <1>2 DEF CopyInv, CopiesMade
<1>4. OneCopyOnePlace'
  BY <1>1, <1>2 DEF CopyInv, OneCopyOnePlace
<1>5. NoCopyLost'
  <2> SUFFICES ASSUME NEW g \in Files, NEW c \in 1 .. made[g]
               PROVE  \/ source[g] = c
                      \/ \E s \in ScanIds : quarantine'[s][g] = c
                      \/ <<g, c>> \in rebooted
    BY DEF NoCopyLost
  <2>1. CASE \E s \in ScanIds : quarantine[s][g] = c
    <3>1. PICK s \in ScanIds : quarantine[s][g] = c
      BY <2>1
    <3>2. ~(s = scan_id /\ g = f)
      BY <3>1, <1>2
    <3> QED
      BY <1>1, <3>1, <3>2
  <2> QED
    BY <2>1 DEF CopyInv, NoCopyLost
<1> QED
  BY <1>3, <1>4, <1>5 DEF CopyInv

(* An original is deleted when its copy is whole.                          *)
LEMMA DeleteKeepsCopies ==
  ASSUME CopyInv, CopyTypes, NEW f \in Files,
         quarantine[scan_id][f] = source[f],
         source' = [source EXCEPT ![f] = 0],
         UNCHANGED <<quarantine, partial, made, rebooted>>
  PROVE  CopyInv'
<1>1. \A g \in Files : source'[g] = IF g = f THEN 0 ELSE source[g]
  BY DEF CopyTypes
<1>2. /\ scan_id \in ScanIds /\ \A g \in Files : source[g] \in Nat /\ made[g] \in Nat
      /\ \A s \in ScanIds : \A g \in Files : quarantine[s][g] \in Nat
  BY DEF CopyTypes
<1>3. CopiesMade'
  BY <1>1, <1>2 DEF CopyInv, CopiesMade
<1>4. OneCopyOnePlace'
  BY <1>1, <1>2 DEF CopyInv, OneCopyOnePlace
<1>5. NoCopyLost'
  BY <1>1, <1>2 DEF CopyInv, NoCopyLost
<1> QED
  BY <1>3, <1>4, <1>5 DEF CopyInv

(* A file that returns is a copy of its own.                               *)
LEMMA ReturnKeepsCopies ==
  ASSUME CopyInv, CopyTypes, NEW f \in Files, FileReturns(f)
  PROVE  CopyInv'
<1>1. \A g \in Files : source'[g] = IF g = f THEN made[f] + 1 ELSE source[g]
  BY DEF CopyTypes, FileReturns
<1>2. \A g \in Files : made'[g] = IF g = f THEN made[f] + 1 ELSE made[g]
  BY DEF CopyTypes, FileReturns
<1>3. source[f] = 0 /\ UNCHANGED <<quarantine, partial, rebooted>>
  BY DEF FileReturns
<1>4. /\ \A g \in Files : source[g] \in Nat /\ made[g] \in Nat
      /\ \A s \in ScanIds : \A g \in Files : quarantine[s][g] \in Nat
  BY DEF CopyTypes
<1>5. CopiesMade'
  BY <1>1, <1>2, <1>3, <1>4 DEF CopyInv, CopiesMade
<1>6. OneCopyOnePlace'
  BY <1>1, <1>3, <1>4 DEF CopyInv, CopiesMade, OneCopyOnePlace
<1>7. NoCopyLost'
  <2> SUFFICES ASSUME NEW g \in Files, NEW c \in 1 .. made'[g]
               PROVE  \/ source'[g] = c
                      \/ \E s \in ScanIds : quarantine[s][g] = c
                      \/ <<g, c>> \in rebooted
    BY <1>3 DEF NoCopyLost
  <2>1. CASE g = f /\ c = made[f] + 1
    BY <1>1, <2>1
  <2>2. CASE ~(g = f /\ c = made[f] + 1)
    <3>1. c \in 1 .. made[g]
      BY <1>2, <1>4, <2>2
    <3>2. source[g] = c => source'[g] = c
      BY <1>1, <1>3, <3>1
    <3> QED
      BY <3>1, <3>2 DEF CopyInv, NoCopyLost
  <2> QED
    BY <2>1, <2>2
<1> QED
  BY <1>5, <1>6, <1>7 DEF CopyInv

(* A reboot deletes what is scheduled and nothing else.                    *)
LEMMA RebootKeepsCopies ==
  ASSUME CopyInv, CopyTypes, Reboot
  PROVE  CopyInv'
<1>1. \A g \in Files : source'[g] = IF g \in scheduled THEN 0 ELSE source[g]
  BY DEF Reboot
<1>2. UNCHANGED <<quarantine, partial, made>>
  BY DEF Reboot
<1>3. /\ \A g \in Files : source[g] \in Nat /\ made[g] \in Nat
      /\ \A s \in ScanIds : \A g \in Files : quarantine[s][g] \in Nat
  BY DEF CopyTypes
<1>4. CopiesMade'
  BY <1>1, <1>2, <1>3 DEF CopyInv, CopiesMade
<1>5. OneCopyOnePlace'
  BY <1>1, <1>2, <1>3 DEF CopyInv, OneCopyOnePlace
<1>6. NoCopyLost'
  <2> SUFFICES ASSUME NEW g \in Files, NEW c \in 1 .. made[g]
               PROVE  \/ source'[g] = c
                      \/ \E s \in ScanIds : quarantine[s][g] = c
                      \/ <<g, c>> \in rebooted'
    BY <1>2 DEF NoCopyLost
  <2>1. CASE source[g] = c
    <3>1. c # 0
      BY <1>3
    <3>2. g \in scheduled => <<g, c>> \in rebooted'
      BY <2>1, <3>1 DEF Reboot
    <3> QED
      BY <1>1, <2>1, <3>2
  <2>2. CASE <<g, c>> \in rebooted
    BY <2>2 DEF Reboot
  <2> QED
    BY <2>1, <2>2 DEF CopyInv, NoCopyLost
<1> QED
  BY <1>4, <1>5, <1>6 DEF CopyInv

(* Moves, a returning file and a reboot keep every copy; nothing else      *)
(* touches one.                                                            *)
LEMMA CopyNext == TypeInv /\ CopyPlaced /\ CopyInv /\ [Next]_vars => CopyInv'
<1> SUFFICES ASSUME TypeInv, CopyPlaced, CopyInv, [Next]_vars PROVE CopyInv'
  OBVIOUS
<1> DEFINE f == threat.file_path
<1>1. CopyTypes
  BY DEF TypeInv, TypeOK, CopyTypes
<1>2. ASSUME UNCHANGED <<source, quarantine, partial, made, rebooted>> PROVE CopyInv'
  BY <1>2 DEF CopyInv, CopiesMade, OneCopyOnePlace, NoCopyLost
<1>a. ASSUME pc \in {"move", "copy", "remove"} PROVE f \in Files
  <2>1. selected \in Seq(Threats) /\ selected # <<>> /\ threat.file_path # NONE
    BY <1>a DEF TypeInv, TypeOK, PartPlaced, Working
  <2> QED
    BY <2>1, CurrentThreat
<1>3. CASE MoveToQuarantine
  <2>1. \/ UNCHANGED <<source, quarantine>>
        \/ /\ source[f] # 0 /\ quarantine[scan_id][f] = 0 /\ f \notin OtherVolume
           /\ quarantine' = [quarantine EXCEPT ![scan_id][f] = source[f]]
           /\ source' = [source EXCEPT ![f] = 0]
    BY <1>3 DEF MoveToQuarantine, move_file_to_quarantine, Movable
  <2>2. UNCHANGED <<made, rebooted, partial>> /\ f \in Files
    BY <1>3, <1>a DEF MoveToQuarantine, ghostVars
  <2> HIDE DEF f
  <2> QED
    BY <1>1, <1>2, <2>1, <2>2, MoveKeepsCopies
<1>4. ASSUME NEW g \in Files, FileReturns(g) PROVE CopyInv'
  BY <1>1, <1>4, ReturnKeepsCopies
<1>5. CASE Reboot
  BY <1>1, <1>5, RebootKeepsCopies
<1>b. CASE CopyToQuarantine \/ CopyFails
  <2>1. /\ UNCHANGED <<source, quarantine, made, rebooted>>
        /\ partial' \subseteq partial \cup {<<scan_id, f>>}
    BY <1>b DEF CopyToQuarantine, CopyFails, ghostVars
  <2>2. f \in OtherVolume
    BY <1>b DEF CopyToQuarantine, CopyFails, CopyPlaced
  <2> HIDE DEF f
  <2>3. OneCopyOnePlace'
    BY <2>1, <2>2 DEF CopyInv, OneCopyOnePlace
  <2>4. CopiesMade' /\ NoCopyLost'
    BY <2>1 DEF CopyInv, CopiesMade, NoCopyLost
  <2> QED
    BY <2>3, <2>4 DEF CopyInv
<1>c. CASE CopyEnds
  <2>1. /\ quarantine' = [quarantine EXCEPT ![scan_id][f] = source[f]]
        /\ partial' \subseteq partial /\ UNCHANGED <<source, made, rebooted>>
    BY <1>c DEF CopyEnds, ghostVars
  <2>2. f \in OtherVolume /\ quarantine[scan_id][f] = 0 /\ f \in Files
    BY <1>c, <1>a DEF CopyEnds, CopyPlaced
  <2> HIDE DEF f
  <2> QED
    BY <1>1, <2>1, <2>2, CopyKeepsCopies
<1>d. CASE DeleteOriginal
  <2>1. /\ source' = source \/ source' = [source EXCEPT ![f] = 0]
        /\ UNCHANGED <<quarantine, partial, made, rebooted>>
    BY <1>d DEF DeleteOriginal, ghostVars
  <2>2. quarantine[scan_id][f] = source[f] /\ f \in Files
    BY <1>d, <1>a DEF DeleteOriginal, CopyPlaced
  <2> HIDE DEF f
  <2> QED
    BY <1>1, <1>2, <2>1, <2>2, DeleteKeepsCopies
<1>6. ASSUME \/ CleanSelected \/ OneClickClean \/ Elevate \/ SkipPart \/ KillProcess
             \/ DeleteRunKey \/ StopService \/ StopWaitOver \/ DeleteService
             \/ TestFileInUse \/ ScheduleDelete \/ Crash \/ UNCHANGED vars
      PROVE  CopyInv'
  <2>1. UNCHANGED <<source, quarantine, partial, made, rebooted>>
    BY <1>6 DEF CleanSelected, OneClickClean, Begin, Elevate, SkipPart, KillProcess,
         DeleteRunKey, StopService, StopWaitOver, DeleteService, TestFileInUse,
         ScheduleDelete, Crash, vars, machineVars, ghostVars
  <2> QED
    BY <1>2, <2>1
<1>7. ASSUME NEW p \in Procs, ProcessEnds(p) \/ ProcessRestarts(p) PROVE CopyInv'
  BY <1>2, <1>7 DEF ProcessEnds, ProcessRestarts, ghostVars
<1>8. ASSUME NEW s \in Services, ServiceStops(s) PROVE CopyInv'
  BY <1>2, <1>8 DEF ServiceStops, ghostVars
<1>9. ASSUME NEW g \in Files, OpenOrCloseFile(g) PROVE CopyInv'
  BY <1>2, <1>9 DEF OpenOrCloseFile, ghostVars
<1> QED
  BY <1>3, <1>4, <1>5, <1>6, <1>7, <1>8, <1>9, <1>b, <1>c, <1>d DEF Next, CleanStep

(* While a file is being copied its original stays and the name in the     *)
(* quarantine is the program's.                                            *)
LEMMA PlacedNext == TypeInv /\ CopyPlaced /\ [Next]_vars => CopyPlaced'
<1> SUFFICES ASSUME TypeInv, CopyPlaced, [Next]_vars PROVE CopyPlaced'
  OBVIOUS
<1> DEFINE f == threat.file_path
<1>1. ASSUME pc' \notin {"copy", "remove"} PROVE CopyPlaced'
  BY <1>1 DEF CopyPlaced
<1>2. ASSUME UNCHANGED <<pc, selected, scan_id, source, quarantine>> PROVE CopyPlaced'
  BY <1>2 DEF CopyPlaced, threat
<1>3. CASE CopyToQuarantine
  BY <1>3 DEF CopyToQuarantine, CopyPlaced, Movable, threat
<1>4. CASE CopyEnds
  <2>1. /\ f \in OtherVolume /\ source[f] # 0
        /\ quarantine' = [quarantine EXCEPT ![scan_id][f] = source[f]]
        /\ pc' = "remove" /\ UNCHANGED <<selected, scan_id, source>>
    BY <1>4 DEF CopyEnds, CopyPlaced
  <2>2. f \in Files /\ scan_id \in ScanIds /\ quarantine \in [ScanIds -> [Files -> Nat]]
    BY <2>1, CleanAssumption DEF CleanAssumption, TypeInv, TypeOK
  <2>3. threat' = threat
    BY <2>1 DEF threat
  <2>4. quarantine'[scan_id][f] = source[f]
    <3> HIDE DEF f
    <3> QED
      BY <2>1, <2>2
  <2> QED
    BY <2>1, <2>3, <2>4 DEF CopyPlaced
<1>5. ASSUME NEW g \in Files, FileReturns(g) PROVE CopyPlaced'
  <2>1. /\ UNCHANGED <<pc, selected, scan_id, quarantine>> /\ source[g] = 0
        /\ source' = [source EXCEPT ![g] = made[g] + 1]
    BY <1>5 DEF FileReturns, programVars
  <2>2. source \in [Files -> Nat] /\ OtherVolume \subseteq Files
    BY CleanAssumption DEF CleanAssumption, TypeInv, TypeOK
  <2>3. CASE pc \in {"copy", "remove"}
    <3>1. f \in OtherVolume /\ f # g
      BY <2>1, <2>3 DEF CopyPlaced
    <3>2. source'[f] = source[f] /\ f' = f
      BY <2>1, <2>2, <3>1 DEF threat
    <3> QED
      BY <2>1, <2>3, <3>1, <3>2 DEF CopyPlaced
  <2>4. CASE pc \notin {"copy", "remove"}
    BY <1>1, <2>1, <2>4
  <2> QED
    BY <2>3, <2>4
<1>6. ASSUME \/ CleanSelected \/ OneClickClean \/ Elevate \/ SkipPart \/ KillProcess
             \/ DeleteRunKey \/ StopService \/ StopWaitOver \/ DeleteService
             \/ TestFileInUse \/ MoveToQuarantine \/ ScheduleDelete
             \/ CopyFails \/ DeleteOriginal \/ Crash \/ Reboot
      PROVE  CopyPlaced'
  <2>1. pc' \notin {"copy", "remove"}
    BY <1>6 DEF CleanSelected, OneClickClean, Begin, Elevate, SkipPart, KillProcess,
         DeleteRunKey, StopService, StopWaitOver, DeleteService, TestFileInUse,
         MoveToQuarantine, ScheduleDelete, CopyFails, DeleteOriginal, Crash, Reboot, NextThreat
  <2> QED
    BY <1>1, <2>1
<1>7. ASSUME NEW p \in Procs, ProcessEnds(p) \/ ProcessRestarts(p) PROVE CopyPlaced'
  BY <1>2, <1>7 DEF ProcessEnds, ProcessRestarts, programVars
<1>8. ASSUME NEW s \in Services, ServiceStops(s) PROVE CopyPlaced'
  BY <1>2, <1>8 DEF ServiceStops, programVars
<1>9. ASSUME NEW g \in Files, OpenOrCloseFile(g) PROVE CopyPlaced'
  BY <1>2, <1>9 DEF OpenOrCloseFile, programVars
<1>10. CASE UNCHANGED vars
  BY <1>2, <1>10 DEF vars, machineVars, programVars
<1> QED
  BY <1>3, <1>4, <1>5, <1>6, <1>7, <1>8, <1>9, <1>10 DEF Next, CleanStep

(* Where the copies are is known in every reachable state.                 *)
LEMMA CopiesKept == Spec => []CopyInv
<1>1. Init => TypeInv /\ CopyPlaced /\ CopyInv
  <2>1. Init => CopyPlaced
    BY DEF Init, CopyPlaced
  <2> QED
    BY <2>1, TypeInit, CopyInit
<1>2. (TypeInv /\ CopyPlaced /\ CopyInv) /\ [Next]_vars => (TypeInv /\ CopyPlaced /\ CopyInv)'
  BY TypeNext, CopyNext, PlacedNext
<1> QED
  BY <1>1, <1>2, PTL DEF Spec

(* No failure, crash, second run or reboot, in any order, makes cleaning   *)
(* lose a file by itself (move_file_to_quarantine, is_file_in_use).        *)
THEOREM NoCopyLostHolds == Spec => []NoCopyLost
<1>1. CopyInv => NoCopyLost
  BY DEF CopyInv
<1> QED
  BY <1>1, CopiesKept, PTL

(***************************************************************************)
(* Where the quarantine is on the file's own volume, a copy in quarantine  *)
(* is never also at its path or in another directory, nor there in part:   *)
(* through every crash, reboot and second run (MoveFileA renames).         *)
(***************************************************************************)
THEOREM OneCopyOnePlaceHolds == Spec => []OneCopyOnePlace
<1>1. CopyInv => OneCopyOnePlace
  BY DEF CopyInv
<1> QED
  BY <1>1, CopiesKept, PTL

-----------------------------------------------------------------------------
(***************************************************************************)
(* The report.  Within a run no step takes back what an item says: a copy  *)
(* leaves no quarantine directory, a service stays marked, a deletion      *)
(* stays due until a reboot, which ends the program and its report.        *)
(***************************************************************************)
Stands(it) ==
  it.success =>
    /\ it.op = "file" /\ it.message = "done" => quarantine[scan_id][it.of] # 0
    /\ it.op = "file" /\ it.message = "reboot" => it.of \in scheduled /\ pending_reboot
    /\ it.op = "service" => it.of \in marked

(* An item about a file names a file.                                      *)
FileItems == \A i \in DOMAIN items : items[i].op = "file" => items[i].of \in Files

(* Before the first part of a run, and after a crash, there is no report.  *)
NoReportYet == pc \in {"idle", "elevate"} => items = <<>>

(* A threat of which there is only a process.                              *)
OnlyProcess(p) ==
  \E t \in Threats : /\ t.process_id = p /\ t.run_key_name = NONE
                     /\ t.service_name = NONE /\ t.file_path = NONE

(***************************************************************************)
(* While the last item is an attempt to end a process, its threat is still *)
(* being cleaned and what came after the process was empty; or nothing but *)
(* the process was there.                                                  *)
(***************************************************************************)
StillAt(p) ==
  /\ pc \in Working \ {"kill"}
  /\ threat.process_id = p
  /\ pc # "run_key" => threat.run_key_name = NONE
  /\ pc \in {"file", "move", "copy", "remove", "schedule"} => threat.service_name = NONE

AfterKill ==
  (items # <<>> /\ items[Len(items)].op = "kill") =>
     StillAt(items[Len(items)].of) \/ OnlyProcess(items[Len(items)].of)

ReportInv ==
  /\ ReportStands
  /\ FileItems
  /\ NoReportYet
  /\ AfterKill
  /\ FailureDoesNotBlock


(* No report, no claim.                                                    *)
LEMMA NoReport == ASSUME items' = <<>> PROVE ReportInv'
BY DEF ReportInv, ReportStands, FileItems, NoReportYet, AfterKill, FailureDoesNotBlock

(* The report with one more item.                                          *)
LEMMA ItemAdded ==
  ASSUME TypeOK, NEW it \in ItemSet, items' = Append(items, it)
  PROVE  /\ Len(items) \in Nat /\ Len(items') = Len(items) + 1
         /\ DOMAIN items' = 1 .. Len(items) + 1 /\ DOMAIN items = 1 .. Len(items)
         /\ \A i \in 1 .. Len(items) : items'[i] = items[i]
         /\ items'[Len(items) + 1] = it
<1>1. items \in Seq(ItemSet)
  BY DEF TypeOK, ItemSet
<1> QED
  BY <1>1, AppendProperties

(***************************************************************************)
(* A part that is reported: if it takes nothing back, if its own item      *)
(* holds, and if a process follows a process only when nothing else was    *)
(* there, the report is as good as before.                                 *)
(***************************************************************************)
LEMMA ReportGrows ==
  ASSUME TypeOK, ReportInv, NEW it \in ItemSet, items' = Append(items, it),
         UNCHANGED scan_id, pc' \notin {"idle", "elevate"},
         \A f \in Files : quarantine[scan_id][f] # 0 => quarantine'[scan_id][f] # 0,
         scheduled \subseteq scheduled', marked \subseteq marked',
         pending_reboot => pending_reboot',
         it.op = "file" => it.of \in Files,
         Stands(it)',
         it.op = "kill" => (pc = "kill" /\ StillAt(it.of)')
  PROVE  ReportInv'
<1>1. ReportStands'
  <2> SUFFICES ASSUME NEW i \in DOMAIN items' PROVE Stands(items[i])'
    BY DEF ReportStands, Stands
  <2>1. CASE i = Len(items) + 1
    BY <2>1, ItemAdded
  <2>2. CASE i \in 1 .. Len(items)
    <3>1. items'[i] = items[i] /\ i \in DOMAIN items
      BY <2>2, ItemAdded
    <3>2. Stands(items[i]) /\ (items[i].op = "file" => items[i].of \in Files)
      BY <3>1 DEF ReportInv, ReportStands, FileItems, Stands
    <3> QED
      BY <3>1, <3>2 DEF Stands
  <2> QED
    BY <2>1, <2>2, ItemAdded
<1>2. FileItems'
  BY ItemAdded DEF ReportInv, FileItems
<1>3. NoReportYet'
  BY DEF NoReportYet
<1>4. AfterKill'
  BY ItemAdded DEF AfterKill
<1>5. FailureDoesNotBlock'
  <2> SUFFICES ASSUME NEW i \in DOMAIN items' \ {Len(items')},
                      items'[i].op = "kill", items'[i + 1].op = "kill"
               PROVE  OnlyProcess(items'[i].of)
    BY DEF FailureDoesNotBlock, OnlyProcess
  <2>1. CASE i = Len(items)
    <3>1. it.op = "kill" /\ items'[i] = items[i] /\ items # <<>>
      BY <2>1, ItemAdded
    <3>2. pc = "kill" /\ items[Len(items)].op = "kill"
      BY <2>1, <3>1
    <3>3. OnlyProcess(items[Len(items)].of)
      BY <3>1, <3>2 DEF ReportInv, AfterKill, StillAt
    <3> QED
      BY <2>1, <3>1, <3>3
  <2>2. CASE i \in 1 .. Len(items) - 1
    <3>1. items'[i] = items[i] /\ items'[i + 1] = items[i + 1]
      BY <2>2, ItemAdded
    <3>2. i \in DOMAIN items \ {Len(items)}
      BY <2>2, ItemAdded
    <3> QED
      BY <3>1, <3>2 DEF ReportInv, FailureDoesNotBlock, OnlyProcess
  <2> QED
    BY <2>1, <2>2, ItemAdded
<1> QED
  BY <1>1, <1>2, <1>3, <1>4, <1>5 DEF ReportInv

(***************************************************************************)
(* A step that reports nothing and takes nothing back: the threat whose    *)
(* process was the last thing reported has to stay the current one, with   *)
(* one more of its parts found empty, or be left with none.                *)
(***************************************************************************)
LEMMA ReportStays ==
  ASSUME ReportInv, UNCHANGED <<items, scan_id, scheduled, marked, pending_reboot>>,
         \A f \in Files : quarantine[scan_id][f] # 0 => quarantine'[scan_id][f] # 0,
         pc' \in {"idle", "elevate"} => pc \in {"idle", "elevate"},
         \A p : StillAt(p) => StillAt(p)' \/ OnlyProcess(p)
  PROVE  ReportInv'
<1>1. ReportStands'
  BY DEF ReportInv, ReportStands, FileItems
<1>2. FileItems' /\ NoReportYet' /\ FailureDoesNotBlock'
  BY DEF ReportInv, FileItems, NoReportYet, FailureDoesNotBlock
<1>3. AfterKill'
  BY DEF ReportInv, AfterKill, OnlyProcess
<1> QED
  BY <1>1, <1>2, <1>3 DEF ReportInv

(* Each step keeps the report true.                                        *)
LEMMA ReportNext == TypeInv /\ CopyPlaced /\ ReportInv /\ [Next]_vars => ReportInv'
<1> SUFFICES ASSUME TypeInv, CopyPlaced, ReportInv, [Next]_vars PROVE ReportInv'
  OBVIOUS
<1>0. TypeOK /\ PartPlaced
  BY DEF TypeInv
<1>a. ASSUME pc \in Working
      PROVE  /\ selected \in Seq(Threats) /\ selected # <<>>
             /\ threat \in Threats
             /\ threat.process_id \in Procs \cup {NONE}
             /\ threat.run_key_name \in Keys \cup {NONE}
             /\ threat.service_name \in Services \cup {NONE}
             /\ threat.file_path \in Files \cup {NONE}
  <2>1. selected \in Seq(Threats) /\ selected # <<>>
    BY <1>0, <1>a DEF TypeOK
  <2> QED
    BY <2>1, CurrentThreat
<1>1. ASSUME CleanSelected \/ OneClickClean \/ Crash \/ Reboot PROVE ReportInv'
  BY <1>1, NoReport DEF CleanSelected, OneClickClean, Begin, Crash, Reboot
<1>2. CASE Elevate
  <2>1. items' = <<>>
    BY <1>2 DEF Elevate, ReportInv, NoReportYet
  <2> QED
    BY <2>1, NoReport
<1>3. CASE SkipPart
  <2>1. UNCHANGED <<items, scan_id, quarantine, scheduled, marked, pending_reboot>>
    BY <1>3 DEF SkipPart, machineVars
  <2>2. CASE pc = "file" /\ threat.file_path = NONE /\ NextThreat
    <3>1. pc' \in {"kill", "done"}
      BY <2>2 DEF NextThreat
    <3>2. threat \in Threats
      BY <1>a, <2>2 DEF Working
    <3>3. ASSUME NEW p, StillAt(p) PROVE OnlyProcess(p)
      BY <2>2, <3>2, <3>3 DEF StillAt, OnlyProcess
    <3> QED
      BY <2>1, <3>1, <3>3, ReportStays
  <2>3. CASE /\ UNCHANGED selected
             /\ \/ pc = "kill" /\ pc' = "run_key"
                \/ pc = "run_key" /\ threat.run_key_name = NONE /\ pc' = "service"
                \/ pc = "service" /\ threat.service_name = NONE /\ pc' = "file"
    <3>1. \A p : StillAt(p) => StillAt(p)'
      BY <2>3 DEF StillAt, Working, threat
    <3>2. pc' \notin {"idle", "elevate"}
      BY <2>3
    <3> QED
      BY <2>1, <3>1, <3>2, ReportStays
  <2> QED
    BY <1>3, <2>2, <2>3 DEF SkipPart
<1>4. CASE KillProcess
  <2> DEFINE p == threat.process_id
  <2>1. pc = "kill" /\ pc' = "run_key" /\ p \in Procs
    BY <1>4, <1>a DEF KillProcess, Working
  <2>2. PICK ok \in BOOLEAN : Report("kill", p, ok)
    BY <1>4 DEF KillProcess
  <2>3. UNCHANGED <<selected, scan_id, quarantine, scheduled, marked, pending_reboot>>
    BY <1>4 DEF KillProcess
  <2>4. PICK it \in ItemSet : items' = Append(items, it) /\ it.op = "kill" /\ it.of = p
    BY <2>1, <2>2 DEF Report, Item, ItemSet
  <2>5. StillAt(it.of)'
    BY <2>1, <2>3, <2>4 DEF StillAt, Working, threat
  <2>6. Stands(it)'
    BY <2>4 DEF Stands
  <2> HIDE DEF p
  <2> QED
    BY <1>0, <2>1, <2>3, <2>4, <2>5, <2>6, ReportGrows
<1>5. CASE DeleteRunKey
  <2> DEFINE k == threat.run_key_name
  <2>1. pc' = "service" /\ k \in Keys
    BY <1>5, <1>a DEF DeleteRunKey, Working
  <2>2. PICK ok \in BOOLEAN : Report("run_key", k, ok)
    BY <1>5 DEF DeleteRunKey
  <2>3. UNCHANGED <<scan_id, quarantine, scheduled, marked, pending_reboot>>
    BY <1>5 DEF DeleteRunKey
  <2>4. PICK it \in ItemSet : items' = Append(items, it) /\ it.op = "run_key"
    BY <2>1, <2>2 DEF Report, Item, ItemSet
  <2>5. Stands(it)'
    BY <2>4 DEF Stands
  <2> HIDE DEF k
  <2> QED
    BY <1>0, <2>1, <2>3, <2>4, <2>5, ReportGrows
<1>6. CASE StopService
  <2>1. /\ UNCHANGED <<items, scan_id, quarantine, scheduled, marked, pending_reboot, selected>>
        /\ pc = "service" /\ pc' \in {"wait", "delete"}
    BY <1>6 DEF StopService
  <2>2. \A p : StillAt(p) => StillAt(p)'
    BY <2>1 DEF StillAt, Working, threat
  <2> QED
    BY <2>1, <2>2, ReportStays
<1>7. CASE StopWaitOver
  <2>1. /\ UNCHANGED <<items, scan_id, quarantine, scheduled, marked, pending_reboot, selected>>
        /\ pc = "wait" /\ pc' = "delete"
    BY <1>7 DEF StopWaitOver, machineVars
  <2>2. \A p : StillAt(p) => StillAt(p)'
    BY <2>1 DEF StillAt, Working, threat
  <2> QED
    BY <2>1, <2>2, ReportStays
<1>8. CASE DeleteService
  <2> DEFINE s == threat.service_name
  <2>1. pc' = "file" /\ s \in Services
    BY <1>8, <1>0, <1>a DEF DeleteService, Working, PartPlaced
  <2>2. PICK del_ok \in BOOLEAN : /\ delete_service(s, del_ok)
                                  /\ Report("service", s, stop_ok /\ del_ok)
    BY <1>8 DEF DeleteService
  <2>3. UNCHANGED <<scan_id, quarantine, scheduled, pending_reboot>>
    BY <1>8 DEF DeleteService
  <2>4. marked \subseteq marked' /\ (del_ok => s \in marked')
    BY <2>2 DEF delete_service
  <2>5. PICK ok \in BOOLEAN : ok = (stop_ok /\ del_ok)
    OBVIOUS
  <2>6. Report("service", s, ok) /\ (ok => del_ok)
    BY <2>2, <2>5
  <2>7. PICK it \in ItemSet :
          items' = Append(items, it) /\ it.op = "service" /\ it.of = s /\ it.success = ok
    BY <2>1, <2>6 DEF Report, Item, ItemSet
  <2>8. Stands(it)'
    BY <2>4, <2>6, <2>7 DEF Stands
  <2> HIDE DEF s
  <2> QED
    BY <1>0, <2>1, <2>3, <2>4, <2>7, <2>8, ReportGrows
<1>9. CASE TestFileInUse
  <2>1. /\ UNCHANGED <<items, scan_id, quarantine, scheduled, marked, pending_reboot, selected>>
        /\ pc = "file" /\ pc' \in {"schedule", "move"}
    BY <1>9 DEF TestFileInUse, machineVars
  <2>2. \A p : StillAt(p) => StillAt(p)'
    BY <2>1 DEF StillAt, Working, threat
  <2> QED
    BY <2>1, <2>2, ReportStays
<1>10. CASE MoveToQuarantine
  <2> DEFINE f == threat.file_path
  <2>1. pc' \in {"kill", "done"} /\ f \in Files
    BY <1>10, <1>0, <1>a DEF MoveToQuarantine, NextThreat, Working, PartPlaced
  <2>2. PICK ok \in BOOLEAN : move_file_to_quarantine(f, ok) /\ Report("file", f, ok)
    BY <1>10 DEF MoveToQuarantine
  <2>3. UNCHANGED <<scan_id, scheduled, marked, pending_reboot>>
    BY <1>10 DEF MoveToQuarantine
  <2>4. /\ \A g \in Files : quarantine[scan_id][g] # 0 => quarantine'[scan_id][g] # 0
        /\ ok => quarantine'[scan_id][f] # 0
    BY <1>0, <2>1, <2>2 DEF move_file_to_quarantine, Movable, TypeOK
  <2>5. PICK it \in ItemSet : /\ items' = Append(items, it) /\ it.op = "file" /\ it.of = f
                              /\ it.success = ok /\ it.message # "reboot"
    BY <2>1, <2>2 DEF Report, Item, ItemSet
  <2>6. Stands(it)'
    BY <2>3, <2>4, <2>5 DEF Stands
  <2> HIDE DEF f
  <2> QED
    BY <1>0, <2>1, <2>3, <2>4, <2>5, <2>6, ReportGrows
<1>b. CASE CopyToQuarantine
  <2>1. /\ UNCHANGED <<items, scan_id, quarantine, scheduled, marked, pending_reboot, selected>>
        /\ pc = "move" /\ pc' = "copy"
    BY <1>b DEF CopyToQuarantine
  <2>2. \A p : StillAt(p) => StillAt(p)'
    BY <2>1 DEF StillAt, Working, threat
  <2> QED
    BY <2>1, <2>2, ReportStays
<1>c. CASE CopyEnds
  <2>1. /\ UNCHANGED <<items, scan_id, scheduled, marked, pending_reboot, selected>>
        /\ pc = "copy" /\ pc' = "remove"
    BY <1>c DEF CopyEnds
  <2>2. \A p : StillAt(p) => StillAt(p)'
    BY <2>1 DEF StillAt, Working, threat
  <2>3. \A g \in Files : quarantine[scan_id][g] # 0 => quarantine'[scan_id][g] # 0
    <3> DEFINE f == threat.file_path
    <3>1. quarantine' = [quarantine EXCEPT ![scan_id][f] = source[f]]
      BY <1>c DEF CopyEnds
    <3>2. source[f] # 0
      BY <2>1 DEF CopyPlaced
    <3>3. scan_id \in ScanIds /\ quarantine \in [ScanIds -> [Files -> Nat]]
      BY <1>0 DEF TypeOK
    <3> HIDE DEF f
    <3> QED
      BY <3>1, <3>2, <3>3
  <2> QED
    BY <2>1, <2>2, <2>3, ReportStays
<1>d. ASSUME CopyFails \/ DeleteOriginal PROVE ReportInv'
  <2> DEFINE f == threat.file_path
  <2>1. pc' \in {"kill", "done"} /\ f \in Files
    BY <1>d, <1>0, <1>a DEF CopyFails, DeleteOriginal, NextThreat, Working, PartPlaced
  <2>2. PICK ok \in BOOLEAN : Report("file", f, ok) /\ (ok => pc = "remove")
    BY <1>d DEF CopyFails, DeleteOriginal
  <2>3. UNCHANGED <<scan_id, quarantine, scheduled, marked, pending_reboot>>
    BY <1>d DEF CopyFails, DeleteOriginal
  <2>4. ok => quarantine'[scan_id][f] # 0
    BY <2>2, <2>3 DEF CopyPlaced
  <2>5. PICK it \in ItemSet : /\ items' = Append(items, it) /\ it.op = "file" /\ it.of = f
                              /\ it.success = ok /\ it.message # "reboot"
    BY <2>1, <2>2 DEF Report, Item, ItemSet
  <2>6. Stands(it)'
    BY <2>3, <2>4, <2>5 DEF Stands
  <2> HIDE DEF f
  <2> QED
    BY <1>0, <2>1, <2>3, <2>5, <2>6, ReportGrows
<1>11. CASE ScheduleDelete
  <2> DEFINE f == threat.file_path
  <2>1. pc' \in {"kill", "done"} /\ f \in Files
    BY <1>11, <1>0, <1>a DEF ScheduleDelete, NextThreat, Working, PartPlaced
  <2>2. PICK ok \in BOOLEAN : /\ schedule_delete_on_reboot(f, ok)
                              /\ items' = Append(items, Item("file", f, ok, "reboot"))
    BY <1>11 DEF ScheduleDelete
  <2>3. UNCHANGED <<scan_id, quarantine, marked>> /\ pending_reboot' = TRUE
    BY <1>11 DEF ScheduleDelete
  <2>4. scheduled \subseteq scheduled' /\ (ok => f \in scheduled')
    BY <2>2 DEF schedule_delete_on_reboot
  <2>5. PICK it \in ItemSet : /\ items' = Append(items, it) /\ it.op = "file" /\ it.of = f
                              /\ it.success = ok /\ it.message = "reboot"
    BY <2>1, <2>2 DEF Item, ItemSet
  <2>6. Stands(it)'
    BY <2>3, <2>4, <2>5 DEF Stands
  <2> HIDE DEF f
  <2> QED
    BY <1>0, <2>1, <2>3, <2>4, <2>5, <2>6, ReportGrows
<1>12. ASSUME UNCHANGED <<programVars, quarantine, scheduled, marked>> PROVE ReportInv'
  <2>1. \A p : StillAt(p) => StillAt(p)'
    BY <1>12 DEF StillAt, threat, programVars
  <2> QED
    BY <1>12, <2>1, ReportStays DEF programVars
<1>13. ASSUME NEW p \in Procs, ProcessEnds(p) \/ ProcessRestarts(p) PROVE ReportInv'
  BY <1>12, <1>13 DEF ProcessEnds, ProcessRestarts
<1>14. ASSUME NEW s \in Services, ServiceStops(s) PROVE ReportInv'
  BY <1>12, <1>14 DEF ServiceStops
<1>15. ASSUME NEW f \in Files, OpenOrCloseFile(f) \/ FileReturns(f) PROVE ReportInv'
  BY <1>12, <1>15 DEF OpenOrCloseFile, FileReturns
<1>16. CASE UNCHANGED vars
  BY <1>12, <1>16 DEF vars, machineVars
<1> QED
  BY <1>1, <1>2, <1>3, <1>4, <1>5, <1>6, <1>7, <1>8, <1>9, <1>10, <1>11, <1>13,
     <1>14, <1>15, <1>16, <1>b, <1>c, <1>d DEF Next, CleanStep

(* The report is true in every reachable state.                            *)
LEMMA ReportKept == Spec => []ReportInv
<1>1. Init => TypeInv /\ CopyPlaced /\ ReportInv
  <2>1. Init => ReportInv /\ CopyPlaced
    BY DEF Init, ReportInv, ReportStands, FileItems, NoReportYet, AfterKill, FailureDoesNotBlock,
           CopyPlaced
  <2> QED
    BY <2>1, TypeInit
<1>2. (TypeInv /\ CopyPlaced /\ ReportInv) /\ [Next]_vars
      => (TypeInv /\ CopyPlaced /\ ReportInv)'
  BY TypeNext, PlacedNext, ReportNext
<1> QED
  BY <1>1, <1>2, PTL DEF Spec

(***************************************************************************)
(* What the report says was done is so when clean_selected and             *)
(* one_click_clean return it, through every failure and whatever other     *)
(* programs did since (CleanItem.success in deep_clean_threat).            *)
(***************************************************************************)
THEOREM ReportStandsHolds == Spec => []ReportStands
<1>1. ReportInv => ReportStands
  BY DEF ReportInv
<1> QED
  BY <1>1, ReportKept, PTL

(***************************************************************************)
(* A part of a threat that fails never keeps the next one from its turn,   *)
(* whatever threats were selected (deep_clean_threat).                     *)
(***************************************************************************)
THEOREM FailureDoesNotBlockHolds == Spec => []FailureDoesNotBlock
<1>1. ReportInv => FailureDoesNotBlock
  BY DEF ReportInv
<1> QED
  BY <1>1, ReportKept, PTL

=============================================================================
