--------------------------- MODULE CoreScanProofs ---------------------------
(***************************************************************************)
(* Proofs about the scan of the engine library, for every rule base, list  *)
(* of files and change other programs make: types, that the scan keeps     *)
(* ScanContract, the verdict on the list, and what the callbacks tell.     *)
(***************************************************************************)
EXTENDS CoreScan, SequenceTheorems, FiniteSetTheorems, TLAPS

Skipped(n) == {i \in 1 .. n : Whitelisted(files[i])}
SkippedCounted == skipped_whitelist = Cardinality(Skipped(scanned_files))

(* A file that has got as far as ClamAV was not passed by.                 *)
NotPassedBy == pc = "clamav" => ~Whitelisted(path)

AllCounted == pc = "done" => scanned_files = total_files

ScanInv == TypeOK /\ SkippedCounted /\ NotPassedBy /\ AllCounted

-----------------------------------------------------------------------------
(* The current file.                                                       *)
LEMMA CurrentFile ==
  ASSUME TypeOK, scanned_files < total_files
  PROVE  path \in Paths /\ scanned_files + 1 \in DOMAIN files
BY DEF TypeOK, path

(* Counting the current file counts it as skipped if the whitelist has it. *)
LEMMA CountNext ==
  ASSUME TypeOK, scanned_files < total_files
  PROVE  /\ IsFiniteSet(Skipped(scanned_files))
         /\ Cardinality(Skipped(scanned_files + 1)) =
              Cardinality(Skipped(scanned_files)) + (IF Whitelisted(path) THEN 1 ELSE 0)
<1> DEFINE S == Skipped(scanned_files)
           T == Skipped(scanned_files + 1)
<1>1. IsFiniteSet(S)
  <2>1. IsFiniteSet(1 .. scanned_files)
    BY FS_Interval DEF TypeOK
  <2> QED BY <2>1, FS_Subset DEF Skipped
<1>2. T = IF Whitelisted(path) THEN S \cup {scanned_files + 1} ELSE S
  BY DEF Skipped, TypeOK, path
<1>3. scanned_files + 1 \notin S
  BY DEF Skipped, TypeOK
<1>4. Cardinality(S) \in Nat /\ Cardinality(S \cup {scanned_files + 1}) = Cardinality(S) + 1
  BY <1>1, <1>3, FS_AddElement, FS_CardinalityType
<1> HIDE DEF S, T
<1>5. Cardinality(T) = Cardinality(S) + (IF Whitelisted(path) THEN 1 ELSE 0)
  BY <1>2, <1>4
<1> QED BY <1>1, <1>5 DEF S, T

LEMMA InitInv == Init => ScanInv
<1> SUFFICES ASSUME Init PROVE ScanInv
  OBVIOUS
<1>1. TypeOK
  <2>1. {MaxFiles, MaxChanges, MaxRuns} \subseteq Nat
    BY CoreScanAssumption DEF CoreScanAssumption
  <2>2. <<>> \in Seq(Paths) /\ Len(<<>>) = 0
    BY EmptySeq
  <2>3. total_files = Len(files) /\ files \in Seq(Paths) /\ threats \in Seq(Paths)
    BY <2>2 DEF Init
  <2>4. /\ total_files = 0 /\ scanned_files \in 0 .. total_files
        /\ skipped_whitelist \in 0 .. scanned_files
    BY DEF Init
  <2>5. runs \in 0 .. MaxRuns /\ changes \in 0 .. MaxChanges
    BY <2>1 DEF Init
  <2> QED BY <2>3, <2>4, <2>5 DEF Init, TypeOK, Locations
<1>2. SkippedCounted
  <2>1. Skipped(0) = {}
    BY DEF Skipped
  <2> QED BY <2>1, FS_EmptySet DEF Init, SkippedCounted
<1>3. NotPassedBy /\ AllCounted
  BY DEF Init, NotPassedBy, AllCounted
<1> QED BY <1>1, <1>2, <1>3 DEF ScanInv

(* What nothing but the loop's own steps changes.                          *)
LEMMA ViewStays ==
  ASSUME ScanInv, TypeOK', pc' \notin {"clamav", "done"}, pc # "clamav",
         UNCHANGED <<files, resultVars>>
  PROVE  ScanInv'
BY DEF ScanInv, SkippedCounted, Skipped, Judged, NotPassedBy,
       AllCounted, Whitelisted, Rogues, resultVars

LEMMA RunScanKeeps ==
  ASSUME ScanInv, NEW target \in Targets, NEW speed \in Speeds, NEW available \in BOOLEAN,
         RunScan(target, speed, available)
  PROVE  ScanInv'
<1>1. TypeOK'
  <2>1. runs' \in 0 .. MaxRuns
    BY CoreScanAssumption DEF CoreScanAssumption, ScanInv, TypeOK, RunScan
  <2>2. target \in Seq(Paths)
    BY DEF Targets
  <2>3. ThreadPriority(speed) \in {"idle", "normal", "above_normal"}
    BY DEF Speeds, ThreadPriority
  <2>4. Len(target) \in Nat /\ <<>> \in Seq(Paths)
    BY <2>2, LenProperties, EmptySeq
  <2> QED BY <2>1, <2>2, <2>3, <2>4 DEF ScanInv, RunScan, TypeOK, Locations, Working
<1>2. SkippedCounted'
  <2>1. Skipped(scanned_files)' = {}
    BY DEF RunScan, Skipped
  <2> QED BY <2>1, FS_EmptySet DEF RunScan, SkippedCounted
<1> QED BY <1>1, <1>2 DEF RunScan, ScanInv, NotPassedBy, AllCounted

LEMMA ReadKeeps ==
  ASSUME ScanInv, ReadForHash \/ ReadForHeader
  PROVE  ScanInv'
<1>1. TypeOK'
  BY CurrentFile DEF ScanInv, TypeOK, ReadForHash, ReadForHeader, Reading, resultVars,
     bytes_sha256, Content, Locations, Working
<1>2. pc' \notin {"clamav", "done"} /\ pc # "clamav" /\ UNCHANGED <<files, resultVars>>
  BY DEF ReadForHash, ReadForHeader, Reading
<1> QED BY <1>1, <1>2, ViewStays

(* A verdict depends on the path alone, as there is no signer and no hash. *)
LEMMA VerdictOfPath ==
  ASSUME TypeOK
  PROVE  /\ is_whitelisted(path, signer, hash) <=> Whitelisted(path)
         /\ path \in Paths => (path \in Rogues <=>
              ~Whitelisted(path) /\ match_rogue_rules(path, signer, hash) # {})
BY DEF TypeOK, signer, parse_pe_signer, Whitelisted, Rogues

LEMMA SkipKeeps ==
  ASSUME ScanInv, SkipWhitelisted
  PROVE  ScanInv'
<1>1. scanned_files < total_files /\ Whitelisted(path)
  BY VerdictOfPath DEF ScanInv, TypeOK, SkipWhitelisted
<1>2. TypeOK'
  BY <1>1 DEF ScanInv, TypeOK, SkipWhitelisted, FileDone, Locations, Working
<1>3. SkippedCounted'
  BY <1>1, CountNext DEF ScanInv, SkippedCounted, Skipped, SkipWhitelisted, FileDone, Whitelisted
<1> QED BY <1>2, <1>3 DEF ScanInv, SkipWhitelisted, FileDone, NotPassedBy, AllCounted

LEMMA MatchKeeps ==
  ASSUME ScanInv, MatchRules
  PROVE  ScanInv'
<1>1. scanned_files < total_files /\ ~Whitelisted(path) /\ path \in Paths
  BY VerdictOfPath, CurrentFile DEF ScanInv, TypeOK, MatchRules
<1>2. threats' = IF path \in Rogues THEN Append(threats, path) ELSE threats
  BY <1>1, VerdictOfPath DEF ScanInv, MatchRules
<1>3. TypeOK'
  <2>1. threats' \in Seq(Paths)
    BY <1>1, <1>2 DEF ScanInv, TypeOK
  <2> QED BY <1>1, <2>1 DEF ScanInv, TypeOK, MatchRules, Locations, Working
<1>4. SkippedCounted'
  BY DEF ScanInv, SkippedCounted, Skipped, MatchRules, Whitelisted
<1>5. NotPassedBy' /\ AllCounted'
  <2>1. path' = path
    BY DEF MatchRules, path
  <2>2. ~Whitelisted(path)'
    BY <1>1, <2>1 DEF Whitelisted
  <2> QED BY <2>2 DEF MatchRules, NotPassedBy, AllCounted
<1> QED BY <1>3, <1>4, <1>5 DEF ScanInv

LEMMA ScanFileKeeps ==
  ASSUME ScanInv, ScanFile
  PROVE  ScanInv'
<1>1. scanned_files < total_files /\ ~Whitelisted(path)
  BY DEF ScanInv, TypeOK, NotPassedBy, ScanFile
<1>2. TypeOK'
  BY <1>1 DEF ScanInv, TypeOK, ScanFile, FileDone, Locations, Working
<1>3. SkippedCounted'
  BY <1>1, CountNext, FS_CardinalityType DEF ScanInv, SkippedCounted, Skipped, ScanFile, FileDone,
     Whitelisted
<1> QED BY <1>2, <1>3 DEF ScanInv, ScanFile, FileDone, NotPassedBy, AllCounted

LEMMA CompleteKeeps ==
  ASSUME ScanInv, Complete
  PROVE  ScanInv'
<1>1. TypeOK'
  BY DEF ScanInv, TypeOK, Complete, Locations
<1> QED
  BY <1>1 DEF ScanInv, SkippedCounted, Skipped, Judged, NotPassedBy,
     AllCounted, Whitelisted, Rogues, Complete

LEMMA FileChangeKeeps ==
  ASSUME ScanInv, NEW p \in Paths, NEW content \in Content, FileChange(p, content)
  PROVE  ScanInv'
<1>1. TypeOK'
  BY CoreScanAssumption DEF ScanInv, TypeOK, FileChange, resultVars
<1> QED
  BY <1>1 DEF ScanInv, SkippedCounted, Skipped, Judged, NotPassedBy,
     AllCounted, Whitelisted, Rogues, path, FileChange, resultVars

LEMMA NextInv == ScanInv /\ [Next]_vars => ScanInv'
<1> SUFFICES ASSUME ScanInv, [Next]_vars PROVE ScanInv'
  OBVIOUS
<1>1. CASE UNCHANGED vars
  <2>1. TypeOK'
    BY <1>1 DEF vars, resultVars, ScanInv, TypeOK
  <2>2. path' = path
    BY <1>1 DEF vars, path, resultVars
  <2> QED
    BY <1>1, <2>1, <2>2 DEF vars, resultVars, ScanInv, SkippedCounted, Skipped,
       Judged, NotPassedBy, AllCounted, Whitelisted, Rogues
<1>2. CASE Next
  BY <1>2, RunScanKeeps, ReadKeeps, SkipKeeps, MatchKeeps, ScanFileKeeps, CompleteKeeps,
     FileChangeKeeps DEF Next, ScanStep
<1> QED BY <1>1, <1>2

(* The invariant of the loop holds throughout.                             *)
THEOREM CoreInvariance == Spec => []ScanInv
<1> QED BY InitInv, NextInv, PTL DEF Spec

(* The scan's variables keep their types, and the loop stays in its list.  *)
THEOREM TypeCorrect == Spec => []TypeOK
<1>1. ScanInv => TypeOK
  BY DEF ScanInv
<1> QED BY <1>1, CoreInvariance, PTL

-----------------------------------------------------------------------------
(* The scan keeps the contract of a scan.                                  *)

(* The head of what is left is the current file, until it is judged.       *)
LEMMA LeftInLoop ==
  ASSUME TypeOK, pc \in {"read", "parse", "judge"}
  PROVE  /\ Left \in Seq(Paths)
         /\ scanned_files = total_files => Left = <<>>
         /\ scanned_files < total_files =>
              /\ Left # <<>> /\ Head(Left) = path
              /\ Tail(Left) = SubSeq(files, scanned_files + 2, total_files)
<1>1. /\ files \in Seq(Paths) /\ total_files = Len(files) /\ scanned_files \in 0 .. Len(files)
      /\ Left = SubSeq(files, scanned_files + 1, Len(files))
  BY DEF TypeOK, Left, Judged, Working
<1>2. Left \in Seq(Paths) /\ Len(Left) = Len(files) - scanned_files
  BY <1>1, SubSeqProperties
<1>3. scanned_files = total_files => Left = <<>>
  BY <1>1, <1>2, EmptySeq
<1>4. ASSUME scanned_files < total_files
      PROVE  /\ Left # <<>> /\ Head(Left) = path
             /\ Tail(Left) = SubSeq(files, scanned_files + 2, total_files)
  <2>1. Left # <<>>
    <3>1. Len(Left) > 0
      BY <1>1, <1>2, <1>4
    <3> QED BY <3>1, EmptySeq
  <2>2. /\ Head(Left) = files[scanned_files + 1]
        /\ Tail(Left) = SubSeq(files, (scanned_files + 1) + 1, Len(files))
    BY <1>1, <1>4, HeadTailOfSubSeq
  <2>3. (scanned_files + 1) + 1 = scanned_files + 2
    BY <1>1
  <2> QED BY <1>1, <2>1, <2>2, <2>3 DEF path
<1> QED BY <1>2, <1>3, <1>4

LEMMA ContractStutter ==
  ASSUME UNCHANGED <<Phase, Left, threats, Fatal>>
  PROVE  [Contract!Next]_Contract!vars
BY DEF Contract!vars

(* Only another program changes which files the engine cannot survive.     *)
LEMMA FatalStays == ASSUME UNCHANGED disk PROVE UNCHANGED Fatal
BY DEF Fatal

LEMMA ContractInit == Init => Contract!Init
BY DEF Init, Contract!Init, Phase, Left, Working, Fatal

(* RunScan is List: the whole target is left to judge.                     *)
LEMMA RunScanLists ==
  ASSUME TypeOK, NEW target \in Targets, NEW speed \in Speeds, NEW available \in BOOLEAN,
         RunScan(target, speed, available)
  PROVE  Contract!List
<1>1. target \in Seq(Paths)
  BY DEF Targets
<1>2. Left' = SubSeq(target, 1, Len(target))
  BY DEF RunScan, Left, Judged, Working
<1>3. Left' \in Seq(Paths)
  BY <1>1, <1>2, SubSeqProperties, LenProperties
<1>4. Phase \in {"ready", "concluded"} /\ Phase' = "judging" /\ threats' = <<>>
  BY DEF RunScan, Phase, Working
<1>5. UNCHANGED Fatal
  BY FatalStays DEF RunScan
<1> QED BY <1>3, <1>4, <1>5 DEF Contract!List

(* A reading leaves the contract alone, or the file read ends the scan.    *)
LEMMA ReadingStuttersOrEnds ==
  ASSUME TypeOK, ReadForHash \/ ReadForHeader
  PROVE  [Contract!Next]_Contract!vars
<1>1. /\ pc \in {"read", "parse"} /\ UNCHANGED <<files, resultVars, disk>>
      /\ scanned_files < total_files
  BY DEF ReadForHash, ReadForHeader, Reading
<1>a. UNCHANGED Fatal
  BY <1>1, FatalStays
<1>2. CASE pc' \in {"parse", "judge"}
  <2>1. UNCHANGED <<Phase, Left, threats>>
    BY <1>1, <1>2 DEF Phase, Left, Judged, Working, resultVars
  <2> QED BY <1>a, <2>1, ContractStutter
<1>3. CASE pc' = "crashed"
  <2>1. Phase = "judging" /\ Phase' = "ended" /\ Left' = <<>> /\ threats' = threats
    BY <1>1, <1>3 DEF Phase, Left, Working, resultVars
  <2>2. Left # <<>> /\ Head(Left) = path /\ path \in Paths
    BY <1>1, LeftInLoop, CurrentFile
  <2>3. path \in Fatal
    BY <1>3, <2>2 DEF ReadForHash, ReadForHeader, Reading, Fatal
  <2>4. Contract!Succumb
    BY <1>a, <2>1, <2>2, <2>3 DEF Contract!Succumb, Contract!End
  <2> QED BY <2>4 DEF Contract!Next
<1> QED BY <1>2, <1>3 DEF ReadForHash, ReadForHeader, Reading

(* A whitelisted file is passed by, and of the others the rogues are named. *)
LEMMA VerdictTakesHead ==
  ASSUME TypeOK, SkipWhitelisted \/ MatchRules
  PROVE  Contract!Pass \/ Contract!Name
<1>1. pc = "judge" /\ scanned_files < total_files /\ scanned_files \in Nat
  BY DEF TypeOK, SkipWhitelisted, MatchRules
<1>2. Left # <<>> /\ Head(Left) = path /\ path \in Paths
  BY <1>1, LeftInLoop, CurrentFile
<1>3. Left' = Tail(Left)
  <2>1. Left' = SubSeq(files, (scanned_files + 1) + 1, total_files)
    BY DEF SkipWhitelisted, MatchRules, FileDone, Left, Judged, Working
  <2>2. (scanned_files + 1) + 1 = scanned_files + 2
    BY <1>1
  <2> QED BY <1>1, <2>1, <2>2, LeftInLoop
<1>4. Phase = "judging" /\ Phase' = "judging"
  BY DEF SkipWhitelisted, MatchRules, FileDone, Phase, Working
<1>5. threats' = threats \/ (path \in Rogues /\ threats' = Append(threats, path))
  BY <1>2, VerdictOfPath DEF SkipWhitelisted, MatchRules
<1>6. UNCHANGED Fatal
  BY FatalStays DEF SkipWhitelisted, MatchRules
<1> QED BY <1>2, <1>3, <1>4, <1>5, <1>6 DEF Contract!Pass, Contract!Name

LEMMA ScanFileStutters ==
  ASSUME TypeOK, ScanFile
  PROVE  UNCHANGED <<Phase, Left, threats, Fatal>>
BY FatalStays DEF ScanFile, FileDone, Phase, Left, Judged, Working

LEMMA CompleteConcludes ==
  ASSUME TypeOK, Complete
  PROVE  Contract!Conclude
<1>1. Left = <<>> /\ Left' = <<>>
  BY LeftInLoop DEF Complete, Left, Working
<1>2. Phase = "judging" /\ Phase' = "concluded"
  BY DEF Complete, Phase, Working
<1>3. UNCHANGED Fatal
  BY FatalStays DEF Complete
<1> QED BY <1>1, <1>2, <1>3 DEF Complete, Contract!Conclude

LEMMA ContractNext == TypeOK /\ [Next]_vars => [Contract!Next]_Contract!vars
<1> SUFFICES ASSUME TypeOK, [Next]_vars PROVE [Contract!Next]_Contract!vars
  OBVIOUS
<1>1. CASE UNCHANGED vars
  <2>1. UNCHANGED <<Phase, Left, threats, Fatal>>
    BY <1>1, FatalStays DEF vars, resultVars, Phase, Left, Judged
  <2> QED BY <2>1, ContractStutter
<1>2. ASSUME NEW target \in Targets, NEW speed \in Speeds, NEW available \in BOOLEAN,
             RunScan(target, speed, available)
      PROVE  [Contract!Next]_Contract!vars
  BY <1>2, RunScanLists DEF Contract!Next
<1>3. CASE ReadForHash \/ ReadForHeader
  BY <1>3, ReadingStuttersOrEnds
<1>4. CASE SkipWhitelisted \/ MatchRules
  BY <1>4, VerdictTakesHead DEF Contract!Next
<1>5. CASE ScanFile
  BY <1>5, ScanFileStutters, ContractStutter
<1>6. CASE Complete
  BY <1>6, CompleteConcludes DEF Contract!Next
<1>7. ASSUME NEW p \in Paths, NEW content \in Content, FileChange(p, content)
      PROVE  [Contract!Next]_Contract!vars
  <2>1. UNCHANGED <<Phase, Left, threats>>
    BY <1>7 DEF FileChange, resultVars, Phase, Left, Judged
  <2>2. Contract!FilesChange
    BY <2>1 DEF Contract!FilesChange, Fatal
  <2> QED BY <2>2 DEF Contract!Next
<1> QED BY <1>1, <1>2, <1>3, <1>4, <1>5, <1>6, <1>7 DEF Next, ScanStep

(* run_scan implements the contract of a scan, for every rule base: its    *)
(* files are judged in the order of the list, each once, whatever becomes  *)
(* of them between the readings, only rogues are named, and nothing ends   *)
(* it early but a file of 2 GB or more, or with a misleading header, in    *)
(* its turn (the two code bugs of OneFileDoesNotEndScan).                  *)
THEOREM CoreScanKeepsContract == Spec => ContractSpec
<1> QED
  BY ContractInit, ContractNext, TypeCorrect, PTL DEF Spec, ContractSpec, Contract!Spec

-----------------------------------------------------------------------------
(***************************************************************************)
(* The callbacks, and the order of the list.  The calls made so far are    *)
(* told apart by their kind only: that the places of the progress grow by  *)
(* one with each file is what makes it gapless.                            *)
(***************************************************************************)
CallSet == ({"progress", "complete"} \X Nat) \cup ({"threat"} \X Paths)

NamedInOrder == InOrder(threats, files, {i \in 1 .. Judged : files[i] \in Rogues})

(* Each threat was announced with the progress of the files before it told *)
(* and its own not yet; its file is one that was judged.                   *)
AnnouncedInTime ==
  \A k \in Calls("threat") : \E n \in 1 .. Judged :
    /\ files[n] = calls[k][2]
    /\ \A m \in Calls("progress") : m < k <=> calls[m][2] < n

AnnouncedInOrder ==
  InOrder([i \in DOMAIN threats |-> <<"threat", threats[i]>>], calls, Calls("threat"))

CallInv ==
  /\ calls \in Seq(CallSet)
  /\ NamedInOrder
  /\ ProgressIsGapless
  /\ AnnouncedInOrder
  /\ AnnouncedInTime

(* u is t, of length n, with one more element, that of r at k; before k, in *)
(* the places P, r is s.                                                   *)
OneMore(u, t, n, r, s, P, k) ==
  /\ n \in Nat /\ k \in Nat /\ P \subseteq Nat
  /\ DOMAIN t = 1 .. n /\ DOMAIN u = 1 .. n + 1
  /\ \A i \in 1 .. n : u[i] = t[i]
  /\ u[n + 1] = r[k]
  /\ \A p \in P : p < k /\ r[p] = s[p]

(* One more element, at a place behind the others, keeps the order.        *)
LEMMA InOrderAppend ==
  ASSUME NEW t, NEW n, NEW s, NEW P, NEW r, NEW k, NEW u,
         InOrder(t, s, P), OneMore(u, t, n, r, s, P, k)
  PROVE  InOrder(u, r, P \cup {k})
<1> USE DEF OneMore
<1>0. PICK at \in [DOMAIN t -> P] :
        /\ \A i, j \in DOMAIN t : i < j => at[i] < at[j]
        /\ \A i \in DOMAIN t : t[i] = s[at[i]]
        /\ \A p \in P : \E i \in DOMAIN t : at[i] = p
  BY DEF InOrder
<1>1. /\ at \in [1 .. n -> P]
      /\ \A i, j \in 1 .. n : i < j => at[i] < at[j]
      /\ \A i \in 1 .. n : t[i] = s[at[i]]
      /\ \A p \in P : \E i \in 1 .. n : at[i] = p
  BY <1>0
<1> DEFINE b == [i \in 1 .. n + 1 |-> IF i = n + 1 THEN k ELSE at[i]]
<1>2. /\ b \in [1 .. n + 1 -> P \cup {k}]
      /\ b[n + 1] = k /\ \A i \in 1 .. n : b[i] = at[i]
  OBVIOUS
<1> HIDE DEF b
<1>3. \A i, j \in 1 .. n + 1 : i < j => b[i] < b[j]
  <2> SUFFICES ASSUME NEW i \in 1 .. n + 1, NEW j \in 1 .. n + 1, i < j PROVE b[i] < b[j]
    OBVIOUS
  <2>1. i \in 1 .. n /\ b[i] = at[i] /\ at[i] \in P
    BY <1>1, <1>2
  <2>2. CASE j = n + 1
    BY <1>2, <2>1, <2>2
  <2>3. CASE j \in 1 .. n
    BY <1>1, <1>2, <2>1, <2>3
  <2> QED
    BY <2>2, <2>3
<1>4. \A i \in 1 .. n + 1 : u[i] = r[b[i]]
  <2> SUFFICES ASSUME NEW i \in 1 .. n + 1 PROVE u[i] = r[b[i]]
    OBVIOUS
  <2>1. CASE i = n + 1
    BY <1>2, <2>1
  <2>2. CASE i \in 1 .. n
    <3>1. at[i] \in P /\ b[i] = at[i] /\ u[i] = s[at[i]]
      BY <1>1, <1>2, <2>2
    <3> QED
      BY <3>1
  <2> QED
    BY <2>1, <2>2
<1>5. \A p \in P \cup {k} : \E i \in 1 .. n + 1 : b[i] = p
  <2> SUFFICES ASSUME NEW p \in P \cup {k} PROVE \E i \in 1 .. n + 1 : b[i] = p
    OBVIOUS
  <2>1. CASE p = k
    BY <1>2, <2>1
  <2>2. CASE p \in P
    <3>1. PICK i \in 1 .. n : at[i] = p
      BY <1>1, <2>2
    <3> QED
      BY <1>2, <3>1
  <2> QED
    BY <2>1, <2>2
<1>6. DOMAIN u = 1 .. n + 1
  OBVIOUS
<1> HIDE DEF OneMore
<1>7. /\ b \in [DOMAIN u -> P \cup {k}]
      /\ \A i, j \in DOMAIN u : i < j => b[i] < b[j]
      /\ \A i \in DOMAIN u : u[i] = r[b[i]]
      /\ \A p \in P \cup {k} : \E i \in DOMAIN u : b[i] = p
  BY <1>2, <1>3, <1>4, <1>5, <1>6
<1> QED
  BY <1>7 DEF InOrder

(* Elements elsewhere do not matter.                                       *)
LEMMA InOrderElsewhere ==
  ASSUME NEW t, NEW s, NEW P, InOrder(t, s, P), NEW r, \A p \in P : r[p] = s[p]
  PROVE  InOrder(t, r, P)
<1>1. PICK at \in [DOMAIN t -> P] :
        /\ \A i, j \in DOMAIN t : i < j => at[i] < at[j]
        /\ \A i \in DOMAIN t : t[i] = s[at[i]]
        /\ \A p \in P : \E i \in DOMAIN t : at[i] = p
  BY DEF InOrder
<1>2. \A i \in DOMAIN t : t[i] = r[at[i]]
  BY <1>1
<1> QED
  BY <1>1, <1>2 DEF InOrder

(* Nothing, at no place.                                                   *)
LEMMA InOrderEmpty == ASSUME NEW t, NEW s, DOMAIN t = {} PROVE InOrder(t, s, {})
<1>1. [x \in {} |-> x] \in [DOMAIN t -> {}]
  OBVIOUS
<1> QED
  BY <1>1 DEF InOrder

(* One more call.                                                          *)
LEMMA CallAdded ==
  ASSUME calls \in Seq(CallSet), NEW c \in CallSet, calls' = Append(calls, c)
  PROVE  /\ calls' \in Seq(CallSet)
         /\ Len(calls) \in Nat /\ Len(calls') = Len(calls) + 1
         /\ calls'[Len(calls) + 1] = c
         /\ \A kind : /\ Calls(kind) \subseteq 1 .. Len(calls)
                      /\ \A p \in Calls(kind) : calls'[p] = calls[p]
                      /\ Calls(kind)' = IF c[1] = kind THEN Calls(kind) \cup {Len(calls) + 1}
                                        ELSE Calls(kind)
<1>1. /\ calls' \in Seq(CallSet)
      /\ Len(calls) \in Nat /\ Len(calls') = Len(calls) + 1
      /\ calls'[Len(calls) + 1] = c
      /\ DOMAIN calls = 1 .. Len(calls) /\ DOMAIN calls' = 1 .. Len(calls) + 1
      /\ \A p \in 1 .. Len(calls) : calls'[p] = calls[p]
  BY AppendProperties, LenProperties
<1>2. ASSUME NEW kind
      PROVE  /\ Calls(kind) \subseteq 1 .. Len(calls)
             /\ \A p \in Calls(kind) : calls'[p] = calls[p]
             /\ Calls(kind)' = IF c[1] = kind THEN Calls(kind) \cup {Len(calls) + 1}
                               ELSE Calls(kind)
  BY <1>1 DEF Calls
<1> QED
  BY <1>1, <1>2

(* The progress told so far is that of the files counted.                  *)
LEMMA ProgressTold ==
  ASSUME TypeOK, ProgressIsGapless, NEW m \in Calls("progress")
  PROVE  calls[m] = Progress(calls[m][2]) /\ calls[m][2] \in 1 .. scanned_files
<1> DEFINE told == [i \in 1 .. scanned_files |-> Progress(i)]
<1>1. InOrder(told, calls, Calls("progress"))
  BY DEF ProgressIsGapless
<1>2. PICK i \in 1 .. scanned_files : told[i] = calls[m]
  BY <1>1 DEF InOrder
<1>3. calls[m] = Progress(i)
  BY <1>2
<1> QED
  BY <1>3 DEF Progress

(* A step that judges and tells nothing.                                   *)
LEMMA CallsStay ==
  ASSUME CallInv, UNCHANGED <<files, threats, calls, scanned_files, Judged>>,
         pc # "done", pc' # "done"
  PROVE  CallInv'
<1>1. \A kind : Calls(kind)' = Calls(kind)
  BY DEF Calls
<1>2. Rogues' = Rogues
  BY DEF Rogues, Whitelisted
<1>3. NamedInOrder'
  BY <1>2 DEF CallInv, NamedInOrder
<1>4. ProgressIsGapless'
  BY <1>1 DEF CallInv, ProgressIsGapless
<1>5. AnnouncedInOrder' /\ AnnouncedInTime'
  BY <1>1 DEF CallInv, AnnouncedInOrder, AnnouncedInTime
<1> QED
  BY <1>3, <1>4, <1>5 DEF CallInv

(* A new scan, or none yet: nothing is judged, nothing told.               *)
LEMMA CallsBegin ==
  ASSUME threats' = <<>>, calls' = <<>>, scanned_files' = 0, pc' # "done", pc' # "clamav"
  PROVE  CallInv'
<1>1. \A kind : Calls(kind)' = {}
  BY DEF Calls
<1>2. Judged' = 0
  BY DEF Judged
<1>3. NamedInOrder'
  <2>1. {i \in 1 .. Judged : files[i] \in Rogues}' = {}
    BY <1>2
  <2>2. DOMAIN threats' = {}
    OBVIOUS
  <2> QED
    BY <2>1, <2>2, InOrderEmpty DEF NamedInOrder
<1>4. ProgressIsGapless'
  <2>1. DOMAIN [i \in 1 .. 0 |-> Progress(i)] = {}
    OBVIOUS
  <2>2. InOrder([i \in 1 .. 0 |-> Progress(i)], <<>>, {})
    BY <2>1, InOrderEmpty
  <2> QED
    BY <1>1, <2>2 DEF ProgressIsGapless
<1>5. AnnouncedInOrder' /\ AnnouncedInTime'
  <2>1. DOMAIN [i \in DOMAIN <<>> |-> <<"threat", <<>>[i]>>] = {}
    OBVIOUS
  <2>2. InOrder([i \in DOMAIN <<>> |-> <<"threat", <<>>[i]>>], <<>>, {})
    BY <2>1, InOrderEmpty
  <2> QED
    BY <1>1, <2>2 DEF AnnouncedInOrder, AnnouncedInTime
<1> QED
  BY <1>3, <1>4, <1>5 DEF CallInv

(* The current file is judged.                                             *)
LEMMA JudgedNext ==
  ASSUME TypeOK, NamedInOrder, scanned_files < total_files, pc # "clamav",
         Judged' = scanned_files + 1, UNCHANGED files,
         threats' = IF path \in Rogues THEN Append(threats, path) ELSE threats
  PROVE  NamedInOrder'
<1> DEFINE k == scanned_files + 1
           P == {i \in 1 .. scanned_files : files[i] \in Rogues}
<1>1. Rogues' = Rogues /\ path = files[k] /\ k \in Nat
  BY DEF Rogues, Whitelisted, path, TypeOK
<1>2. InOrder(threats, files, P) /\ Judged = scanned_files
  BY DEF NamedInOrder, Judged
<1>3. {i \in 1 .. Judged : files[i] \in Rogues}' = {i \in 1 .. k : files[i] \in Rogues}
  BY <1>1
<1>4. CASE path \in Rogues
  <2>1. {i \in 1 .. k : files[i] \in Rogues} = P \cup {k}
    BY <1>1, <1>4 DEF TypeOK
  <2>2. /\ Len(threats) \in Nat /\ DOMAIN threats = 1 .. Len(threats)
        /\ DOMAIN threats' = 1 .. Len(threats) + 1
        /\ \A i \in 1 .. Len(threats) : threats'[i] = threats[i]
        /\ threats'[Len(threats) + 1] = files[k]
    BY <1>1, <1>4, CurrentFile, AppendProperties DEF TypeOK
  <2>3. P \in SUBSET Nat /\ \A p \in P : p < k
    BY DEF TypeOK
  <2>4. OneMore(threats', threats, Len(threats), files, files, P, k)
    BY <1>1, <2>2, <2>3 DEF OneMore
  <2> HIDE DEF P, k
  <2>5. InOrder(threats', files, P \cup {k})
    BY <1>2, <2>4, InOrderAppend
  <2> QED
    BY <1>3, <2>1, <2>5 DEF NamedInOrder
<1>5. CASE path \notin Rogues
  <2>1. {i \in 1 .. k : files[i] \in Rogues} = P
    BY <1>1, <1>5 DEF TypeOK
  <2> QED
    BY <1>2, <1>3, <1>5, <2>1 DEF NamedInOrder
<1> QED
  BY <1>4, <1>5

(* The file is counted and its progress told.                              *)
LEMMA ProgressAdded ==
  ASSUME TypeOK, CallInv, scanned_files < total_files, pc # "done", FileDone(calls),
         UNCHANGED <<threats, files>>, scanned_files + 1 <= Judged'
  PROVE  /\ calls' \in Seq(CallSet)
         /\ ProgressIsGapless' /\ AnnouncedInOrder'
         /\ (\A n : n \in 1 .. Judged => n \in 1 .. Judged') => AnnouncedInTime'
<1> DEFINE c == Progress(scanned_files + 1)
           told == [i \in 1 .. scanned_files |-> Progress(i)]
           telling == [i \in 1 .. scanned_files + 1 |-> Progress(i)]
<1>1. /\ calls \in Seq(CallSet) /\ scanned_files \in Nat
      /\ calls' = Append(calls, c) /\ scanned_files' = scanned_files + 1 /\ pc' = "read"
  BY DEF CallInv, FileDone, TypeOK
<1>2. c \in CallSet /\ c[1] = "progress" /\ c[2] = scanned_files + 1
  BY <1>1 DEF CallSet, Progress
<1> HIDE DEF c
<1>3. /\ calls' \in Seq(CallSet)
      /\ Len(calls) \in Nat /\ Len(calls') = Len(calls) + 1
      /\ calls'[Len(calls) + 1] = c
      /\ \A kind : /\ Calls(kind) \subseteq 1 .. Len(calls)
                   /\ \A p \in Calls(kind) : calls'[p] = calls[p]
                   /\ Calls(kind)' = IF c[1] = kind THEN Calls(kind) \cup {Len(calls) + 1}
                                     ELSE Calls(kind)
  BY <1>1, <1>2, CallAdded
<1>4. /\ Calls("progress")' = Calls("progress") \cup {Len(calls) + 1}
      /\ Calls("threat")' = Calls("threat") /\ Calls("complete")' = Calls("complete")
  BY <1>2, <1>3
<1>5. ProgressIsGapless'
  <2>1. InOrder(told, calls, Calls("progress"))
    BY DEF CallInv, ProgressIsGapless
  <2>2. /\ DOMAIN told = 1 .. scanned_files /\ DOMAIN telling = 1 .. scanned_files + 1
        /\ \A i \in 1 .. scanned_files : telling[i] = told[i]
        /\ telling[scanned_files + 1] = c
    BY <1>1 DEF c
  <2>3. Calls("progress") \in SUBSET Nat
        /\ \A p \in Calls("progress") : p < Len(calls) + 1 /\ calls'[p] = calls[p]
    BY <1>3
  <2> HIDE DEF told, telling
  <2>4. OneMore(telling, told, scanned_files, calls', calls, Calls("progress"), Len(calls) + 1)
    BY <1>1, <1>3, <2>2, <2>3 DEF OneMore
  <2>5. InOrder(telling, calls', Calls("progress") \cup {Len(calls) + 1})
    BY <2>1, <2>4, InOrderAppend
  <2>6. telling = [i \in 1 .. scanned_files |-> Progress(i)]'
    BY <1>1 DEF telling, Progress
  <2>7. Calls("complete")' = {}
    BY <1>4 DEF CallInv, ProgressIsGapless
  <2> QED
    BY <1>1, <1>4, <2>5, <2>6, <2>7 DEF ProgressIsGapless
<1>6. AnnouncedInOrder'
  <2>1. InOrder([i \in DOMAIN threats |-> <<"threat", threats[i]>>], calls, Calls("threat"))
    BY DEF CallInv, AnnouncedInOrder
  <2>2. InOrder([i \in DOMAIN threats |-> <<"threat", threats[i]>>], calls', Calls("threat"))
    BY <1>3, <2>1, InOrderElsewhere
  <2> QED
    BY <1>4, <2>2 DEF AnnouncedInOrder
<1>7. ASSUME \A n : n \in 1 .. Judged => n \in 1 .. Judged' PROVE AnnouncedInTime'
  <2> SUFFICES ASSUME NEW k \in Calls("threat")
               PROVE  \E n \in 1 .. Judged' :
                        /\ files[n] = calls'[k][2]
                        /\ \A m \in Calls("progress")' : m < k <=> calls'[m][2] < n
    BY <1>4 DEF AnnouncedInTime
  <2>1. PICK n \in 1 .. Judged :
          /\ files[n] = calls[k][2]
          /\ \A m \in Calls("progress") : m < k <=> calls[m][2] < n
    BY DEF CallInv, AnnouncedInTime
  <2>2. n <= scanned_files + 1 /\ n \in Nat
    BY <1>1, <2>1 DEF Judged
  <2>3. ASSUME NEW m \in Calls("progress")' PROVE m < k <=> calls'[m][2] < n
    <3>1. CASE m = Len(calls) + 1
      <4>1. k \in 1 .. Len(calls)
        BY <1>3
      <4> QED
        BY <1>1, <1>2, <1>3, <2>2, <3>1, <4>1
    <3>2. CASE m \in Calls("progress")
      BY <1>3, <2>1, <3>2
    <3> QED
      BY <1>4, <2>3, <3>1, <3>2
  <2> QED
    BY <1>3, <1>7, <2>1, <2>3
<1> QED
  BY <1>3, <1>5, <1>6, <1>7

(* A verdict is announced before the file is counted.                      *)
LEMMA ThreatAdded ==
  ASSUME TypeOK, CallInv, scanned_files < total_files, pc = "judge", pc' = "clamav",
         threats' = Append(threats, path), calls' = Append(calls, <<"threat", path>>),
         UNCHANGED <<files, scanned_files, total_files>>
  PROVE  calls' \in Seq(CallSet) /\ ProgressIsGapless' /\ AnnouncedInOrder' /\ AnnouncedInTime'
<1> DEFINE c == <<"threat", path>>
           named == [i \in DOMAIN threats |-> <<"threat", threats[i]>>]
           naming == [i \in DOMAIN threats' |-> <<"threat", threats'[i]>>]
<1>1. path \in Paths /\ calls \in Seq(CallSet) /\ calls' = Append(calls, c)
  BY CurrentFile DEF CallInv
<1>2. c \in CallSet /\ c[1] = "threat" /\ c[2] = path /\ c = <<"threat", path>>
  BY <1>1 DEF CallSet
<1> HIDE DEF c
<1>3. /\ calls' \in Seq(CallSet)
      /\ Len(calls) \in Nat /\ Len(calls') = Len(calls) + 1
      /\ calls'[Len(calls) + 1] = c
      /\ \A kind : /\ Calls(kind) \subseteq 1 .. Len(calls)
                   /\ \A p \in Calls(kind) : calls'[p] = calls[p]
                   /\ Calls(kind)' = IF c[1] = kind THEN Calls(kind) \cup {Len(calls) + 1}
                                     ELSE Calls(kind)
  BY <1>1, <1>2, CallAdded
<1>4. /\ Calls("progress")' = Calls("progress") /\ Calls("complete")' = Calls("complete")
      /\ Calls("threat")' = Calls("threat") \cup {Len(calls) + 1}
  BY <1>2, <1>3
<1>5. ProgressIsGapless'
  <2>1. InOrder([i \in 1 .. scanned_files |-> Progress(i)], calls, Calls("progress"))
    BY DEF CallInv, ProgressIsGapless
  <2>2. InOrder([i \in 1 .. scanned_files |-> Progress(i)], calls', Calls("progress"))
    BY <1>3, <2>1, InOrderElsewhere
  <2>3. Calls("complete")' = {}
    BY <1>4 DEF CallInv, ProgressIsGapless
  <2> QED
    BY <1>4, <2>2, <2>3 DEF ProgressIsGapless
<1>6. AnnouncedInOrder'
  <2>1. InOrder(named, calls, Calls("threat"))
    BY DEF CallInv, AnnouncedInOrder
  <2>2. /\ Len(threats) \in Nat /\ DOMAIN threats = 1 .. Len(threats)
        /\ DOMAIN threats' = 1 .. Len(threats) + 1
        /\ \A i \in 1 .. Len(threats) : threats'[i] = threats[i]
        /\ threats'[Len(threats) + 1] = path
    BY <1>1, AppendProperties DEF TypeOK
  <2>3. /\ DOMAIN named = 1 .. Len(threats) /\ DOMAIN naming = 1 .. Len(threats) + 1
        /\ \A i \in 1 .. Len(threats) : naming[i] = named[i]
        /\ naming[Len(threats) + 1] = c
    BY <1>2, <2>2
  <2>4. Calls("threat") \in SUBSET Nat
        /\ \A p \in Calls("threat") : p < Len(calls) + 1 /\ calls'[p] = calls[p]
    BY <1>3
  <2> HIDE DEF named, naming
  <2>5. OneMore(naming, named, Len(threats), calls', calls, Calls("threat"), Len(calls) + 1)
    BY <1>3, <2>2, <2>3, <2>4 DEF OneMore
  <2>6. InOrder(naming, calls', Calls("threat") \cup {Len(calls) + 1})
    BY <2>1, <2>5, InOrderAppend
  <2> QED
    BY <1>4, <2>6 DEF AnnouncedInOrder, naming
<1>7. AnnouncedInTime'
  <2>1. Judged = scanned_files /\ Judged' = scanned_files + 1 /\ scanned_files \in Nat
    BY DEF Judged, TypeOK
  <2> SUFFICES ASSUME NEW k \in Calls("threat")'
               PROVE  \E n \in 1 .. Judged' :
                        /\ files'[n] = calls'[k][2]
                        /\ \A m \in Calls("progress")' : m < k <=> calls'[m][2] < n
    BY DEF AnnouncedInTime
  <2>2. \A m \in Calls("progress") : calls'[m] = calls[m]
    BY <1>3
  <2>3. CASE k \in Calls("threat")
    <3>1. PICK n \in 1 .. Judged :
            /\ files[n] = calls[k][2]
            /\ \A m \in Calls("progress") : m < k <=> calls[m][2] < n
      BY <2>3 DEF CallInv, AnnouncedInTime
    <3>2. n \in 1 .. Judged' /\ calls'[k] = calls[k]
      BY <1>3, <2>1, <2>3, <3>1
    <3> QED
      BY <1>4, <2>2, <3>1, <3>2
  <2>4. CASE k = Len(calls) + 1
    <3>1. files'[scanned_files + 1] = calls'[k][2] /\ scanned_files + 1 \in 1 .. Judged'
      BY <1>2, <1>3, <2>1, <2>4 DEF path
    <3>2. \A m \in Calls("progress") : m < k /\ calls'[m][2] < scanned_files + 1
      <4> SUFFICES ASSUME NEW m \in Calls("progress")
                   PROVE  m < k /\ calls'[m][2] < scanned_files + 1
        OBVIOUS
      <4>1. calls[m][2] \in 1 .. scanned_files
        BY ProgressTold DEF CallInv
      <4> QED
        BY <1>3, <2>1, <2>4, <4>1
    <3> QED
      BY <1>4, <3>1, <3>2
  <2> QED
    BY <1>4, <2>3, <2>4
<1> QED
  BY <1>3, <1>5, <1>6, <1>7

LEMMA CallsInit == Init => CallInv
<1> SUFFICES ASSUME Init PROVE CallInv
  OBVIOUS
<1>1. threats = <<>> /\ calls = <<>> /\ scanned_files = 0 /\ pc = "idle"
  BY DEF Init
<1>2. \A kind : Calls(kind) = {}
  BY <1>1 DEF Calls
<1>3. NamedInOrder
  <2>1. {i \in 1 .. Judged : files[i] \in Rogues} = {} /\ DOMAIN threats = {}
    BY <1>1 DEF Judged
  <2> QED
    BY <2>1, InOrderEmpty DEF NamedInOrder
<1>4. ProgressIsGapless
  <2>1. DOMAIN [i \in 1 .. 0 |-> Progress(i)] = {}
    OBVIOUS
  <2>2. InOrder([i \in 1 .. 0 |-> Progress(i)], <<>>, {})
    BY <2>1, InOrderEmpty
  <2> QED
    BY <1>1, <1>2, <2>2 DEF ProgressIsGapless
<1>5. AnnouncedInOrder /\ AnnouncedInTime
  <2>1. DOMAIN [i \in DOMAIN <<>> |-> <<"threat", <<>>[i]>>] = {}
    OBVIOUS
  <2>2. InOrder([i \in DOMAIN <<>> |-> <<"threat", <<>>[i]>>], <<>>, {})
    BY <2>1, InOrderEmpty
  <2> QED
    BY <1>1, <1>2, <2>2 DEF AnnouncedInOrder, AnnouncedInTime
<1> QED
  BY <1>1, <1>3, <1>4, <1>5 DEF CallInv

LEMMA SkipTells ==
  ASSUME ScanInv, CallInv, SkipWhitelisted
  PROVE  CallInv'
<1>1. scanned_files < total_files /\ path \notin Rogues /\ TypeOK /\ scanned_files \in Nat
  BY VerdictOfPath DEF ScanInv, TypeOK, SkipWhitelisted, Rogues
<1>2. /\ pc = "judge" /\ pc' = "read" /\ FileDone(calls) /\ UNCHANGED <<threats, files>>
      /\ Judged = scanned_files /\ Judged' = scanned_files + 1
  BY DEF SkipWhitelisted, FileDone, Judged
<1>3. NamedInOrder'
  BY <1>1, <1>2, JudgedNext DEF CallInv
<1>4. \A n : n \in 1 .. Judged => n \in 1 .. Judged'
  BY <1>1, <1>2
<1> QED
  BY <1>1, <1>2, <1>3, <1>4, ProgressAdded DEF CallInv

LEMMA ScanFileTells ==
  ASSUME ScanInv, CallInv, ScanFile
  PROVE  CallInv'
<1>1. scanned_files < total_files /\ TypeOK /\ scanned_files \in Nat
  BY DEF ScanInv, TypeOK, ScanFile
<1>2. /\ pc = "clamav" /\ FileDone(calls) /\ UNCHANGED <<threats, files>>
      /\ Judged = scanned_files + 1 /\ Judged' = scanned_files + 1
  BY DEF ScanFile, FileDone, Judged
<1>3. NamedInOrder'
  BY <1>2 DEF CallInv, NamedInOrder, Rogues, Whitelisted
<1>4. \A n : n \in 1 .. Judged => n \in 1 .. Judged'
  BY <1>2
<1> QED
  BY <1>1, <1>2, <1>3, <1>4, ProgressAdded DEF CallInv

LEMMA MatchTells ==
  ASSUME ScanInv, CallInv, MatchRules
  PROVE  CallInv'
<1>1. /\ scanned_files < total_files /\ TypeOK /\ scanned_files \in Nat
      /\ path \in Paths /\ ~Whitelisted(path)
  BY VerdictOfPath, CurrentFile DEF ScanInv, TypeOK, MatchRules
<1>2. /\ pc = "judge" /\ pc' = "clamav" /\ UNCHANGED <<files, scanned_files, total_files>>
      /\ Judged = scanned_files /\ Judged' = scanned_files + 1
  BY DEF MatchRules, Judged
<1>3. IF path \in Rogues
        THEN threats' = Append(threats, path) /\ calls' = Append(calls, <<"threat", path>>)
        ELSE UNCHANGED <<threats, calls>>
  BY <1>1, VerdictOfPath DEF MatchRules
<1>4. NamedInOrder'
  BY <1>1, <1>2, <1>3, JudgedNext DEF CallInv
<1>5. CASE path \in Rogues
  BY <1>1, <1>2, <1>3, <1>4, <1>5, ThreatAdded DEF CallInv
<1>6. CASE path \notin Rogues
  <2>1. UNCHANGED <<threats, calls>> /\ \A kind : Calls(kind)' = Calls(kind)
    BY <1>3, <1>6 DEF Calls
  <2>2. ProgressIsGapless'
    BY <1>2, <2>1 DEF CallInv, ProgressIsGapless
  <2>3. AnnouncedInOrder'
    BY <2>1 DEF CallInv, AnnouncedInOrder
  <2>4. AnnouncedInTime'
    <3>1. \A n : n \in 1 .. Judged => n \in 1 .. Judged'
      BY <1>1, <1>2
    <3> QED
      BY <1>2, <2>1, <3>1 DEF CallInv, AnnouncedInTime
  <2> QED
    BY <1>4, <2>1, <2>2, <2>3, <2>4 DEF CallInv
<1> QED
  BY <1>5, <1>6

LEMMA CompleteTells ==
  ASSUME ScanInv, CallInv, Complete
  PROVE  CallInv'
<1> DEFINE c == <<"complete", Len(threats)>>
<1>1. /\ pc = "read" /\ pc' = "done" /\ scanned_files = total_files
      /\ UNCHANGED <<files, total_files, scanned_files, threats>> /\ calls' = Append(calls, c)
      /\ Judged' = Judged
  BY DEF Complete, Judged
<1>2. Len(threats) \in Nat
  BY LenProperties DEF ScanInv, TypeOK
<1>3. c \in CallSet /\ c[1] = "complete" /\ c = <<"complete", Len(threats)>>
  BY <1>2 DEF CallSet
<1>4. calls \in Seq(CallSet)
  BY DEF CallInv
<1> HIDE DEF c
<1>5. /\ calls' \in Seq(CallSet)
      /\ Len(calls) \in Nat /\ Len(calls') = Len(calls) + 1
      /\ calls'[Len(calls) + 1] = c
      /\ \A kind : /\ Calls(kind) \subseteq 1 .. Len(calls)
                   /\ \A p \in Calls(kind) : calls'[p] = calls[p]
                   /\ Calls(kind)' = IF c[1] = kind THEN Calls(kind) \cup {Len(calls) + 1}
                                     ELSE Calls(kind)
  BY <1>1, <1>3, <1>4, CallAdded
<1>6. /\ Calls("progress")' = Calls("progress") /\ Calls("threat")' = Calls("threat")
      /\ Calls("complete")' = Calls("complete") \cup {Len(calls) + 1}
  BY <1>3, <1>5
<1>7. NamedInOrder'
  BY <1>1 DEF CallInv, NamedInOrder, Rogues, Whitelisted
<1>8. ProgressIsGapless'
  <2>1. InOrder([i \in 1 .. scanned_files |-> Progress(i)], calls, Calls("progress"))
        /\ Calls("complete") = {}
    BY <1>1 DEF CallInv, ProgressIsGapless
  <2>2. InOrder([i \in 1 .. scanned_files |-> Progress(i)], calls', Calls("progress"))
    BY <1>5, <2>1, InOrderElsewhere
  <2>3. Calls("complete")' = {Len(calls')} /\ calls'[Len(calls')] = <<"complete", Len(threats')>>
    BY <1>1, <1>3, <1>5, <1>6, <2>1
  <2> QED
    BY <1>1, <1>6, <2>2, <2>3 DEF ProgressIsGapless
<1>9. AnnouncedInOrder'
  <2>1. InOrder([i \in DOMAIN threats |-> <<"threat", threats[i]>>], calls, Calls("threat"))
    BY DEF CallInv, AnnouncedInOrder
  <2>2. InOrder([i \in DOMAIN threats |-> <<"threat", threats[i]>>], calls', Calls("threat"))
    BY <1>5, <2>1, InOrderElsewhere
  <2> QED
    BY <1>1, <1>6, <2>2 DEF AnnouncedInOrder
<1>10. AnnouncedInTime'
  <2> SUFFICES ASSUME NEW k \in Calls("threat")'
               PROVE  \E n \in 1 .. Judged' :
                        /\ files'[n] = calls'[k][2]
                        /\ \A m \in Calls("progress")' : m < k <=> calls'[m][2] < n
    BY DEF AnnouncedInTime
  <2>0. k \in Calls("threat") /\ Calls("progress")' = Calls("progress")
    BY <1>6
  <2>1. calls'[k] = calls[k] /\ \A m \in Calls("progress") : calls'[m] = calls[m]
    BY <1>5, <2>0
  <2>2. PICK n \in 1 .. Judged :
          /\ files[n] = calls[k][2]
          /\ \A m \in Calls("progress") : m < k <=> calls[m][2] < n
    BY <2>0 DEF CallInv, AnnouncedInTime
  <2> QED
    BY <1>1, <2>0, <2>1, <2>2
<1> QED
  BY <1>5, <1>7, <1>8, <1>9, <1>10 DEF CallInv

LEMMA CallsNext == ScanInv /\ CallInv /\ [Next]_vars => CallInv'
<1> SUFFICES ASSUME ScanInv, CallInv, [Next]_vars PROVE CallInv'
  OBVIOUS
<1>1. CASE UNCHANGED <<pc, files, resultVars>>
  BY <1>1 DEF CallInv, NamedInOrder, ProgressIsGapless, AnnouncedInOrder, AnnouncedInTime,
     Calls, Judged, Rogues, Whitelisted, resultVars
<1>2. CASE ReadForHash \/ ReadForHeader
  <2>1. /\ UNCHANGED <<files, threats, calls, scanned_files>>
        /\ pc \in {"read", "parse"} /\ pc' \in {"parse", "judge", "crashed"}
    BY <1>2 DEF ReadForHash, ReadForHeader, Reading, resultVars
  <2>2. Judged' = Judged
    BY <2>1 DEF Judged
  <2> QED
    BY <2>1, <2>2, CallsStay
<1>3. ASSUME NEW target \in Targets, NEW speed \in Speeds, NEW available \in BOOLEAN,
             RunScan(target, speed, available)
      PROVE  CallInv'
  BY <1>3, CallsBegin DEF RunScan
<1>4. ASSUME NEW p \in Paths, NEW content \in Content, FileChange(p, content)
      PROVE  CallInv'
  BY <1>1, <1>4 DEF FileChange
<1>5. CASE UNCHANGED vars
  BY <1>1, <1>5 DEF vars
<1> QED
  BY <1>2, <1>3, <1>4, <1>5, SkipTells, MatchTells, ScanFileTells, CompleteTells
  DEF Next, ScanStep

(* What is named and told goes together with what is judged throughout.    *)
THEOREM CallsInvariance == Spec => [](ScanInv /\ CallInv)
<1>1. Init => ScanInv /\ CallInv
  BY InitInv, CallsInit
<1>2. ScanInv /\ CallInv /\ [Next]_vars => (ScanInv /\ CallInv)'
  BY NextInv, CallsNext
<1> QED
  BY <1>1, <1>2, PTL DEF Spec

(* The progress counts every file once, without a gap, and on_complete is  *)
(* the last callback, for every list of files.                             *)
THEOREM ProgressIsGaplessHolds == Spec => []ProgressIsGapless
<1>1. ScanInv /\ CallInv => ProgressIsGapless
  BY DEF CallInv
<1> QED
  BY <1>1, CallsInvariance, PTL

(* The listener and the reader of the result learn of the same threats in  *)
(* the same order, each at its place between the progress of the files.    *)
THEOREM ThreatsAnnouncedHolds == Spec => []ThreatsAnnounced
<1>1. ScanInv /\ CallInv => ThreatsAnnounced
  <2> SUFFICES ASSUME ScanInv, CallInv PROVE ThreatsAnnounced
    OBVIOUS
  <2>1. 1 .. Judged \subseteq DOMAIN files
    BY DEF ScanInv, TypeOK, Judged
  <2> QED
    BY <2>1 DEF CallInv, AnnouncedInOrder, AnnouncedInTime, ThreatsAnnounced
<1> QED
  BY <1>1, CallsInvariance, PTL

(* The verdict of the whole list, in its order and as often as a file is   *)
(* in it, whatever became of the files between the readings.               *)
THEOREM ListJudgedHolds == Spec => []ListJudged
<1>1. ScanInv /\ CallInv => ListJudged
  <2> SUFFICES ASSUME ScanInv, CallInv PROVE ListJudged
    OBVIOUS
  <2>1. pc = "done" => DOMAIN files = 1 .. Judged
    BY DEF ScanInv, TypeOK, AllCounted, Judged
  <2>2. pc = "done" =>
          {i \in 1 .. Judged : files[i] \in Rogues} = {i \in DOMAIN files : files[i] \in Rogues}
    BY <2>1
  <2> QED
    BY <2>2 DEF ScanInv, SkippedCounted, Skipped, CallInv, NamedInOrder, ListJudged
<1> QED
  BY <1>1, CallsInvariance, PTL
=============================================================================
