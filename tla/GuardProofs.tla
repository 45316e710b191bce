----------------------------- MODULE GuardProofs -----------------------------
(***************************************************************************)
(* Proofs about the guard, for every set of files, every rule table and    *)
(* whitelist, every capacity of the list and every interleaving.           *)
(***************************************************************************)
EXTENDS GuardSession, WorldProofs, SequenceTheorems

(***************************************************************************)
(* The list of known files.                                                *)
(***************************************************************************)

(* Recording a listing keeps the list of known files in its type and       *)
(* capacity.                                                               *)
LEMMA RecordAllType ==
  ASSUME NEW known \in Seq(Paths), NEW listing \in Seq(Paths)
  PROVE  /\ RecordAll(known, listing) \in Seq(Paths)
         /\ Len(RecordAll(known, listing)) <= MAX_KNOWN_FILES
<1> DEFINE s == known \o listing
           n == IF Len(known) + Len(listing) <= MAX_KNOWN_FILES
                  THEN Len(known) + Len(listing) ELSE MAX_KNOWN_FILES
<1>1. s \in Seq(Paths) /\ Len(s) = Len(known) + Len(listing)
  BY ConcatProperties
<1>2. n \in 0 .. Len(s) /\ n <= MAX_KNOWN_FILES
  BY <1>1, GuardAssumption
<1>3. SubSeq(s, 1, n) \in Seq(Paths) /\ Len(SubSeq(s, 1, n)) = n
  <2> HIDE DEF s, n
  <2> QED
    BY <1>1, <1>2, SubSeqProperties
<1> QED
  BY <1>2, <1>3 DEF RecordAll

(* The baseline on an empty list: the listing, or a full list.             *)
LEMMA RecordBaseline ==
  ASSUME NEW listing \in Seq(Paths), IsInjective(listing)
  PROVE  /\ IsInjective(RecordAll(<<>>, listing))
         /\ \/ RecordAll(<<>>, listing) = listing
            \/ Len(RecordAll(<<>>, listing)) >= MAX_KNOWN_FILES
<1> DEFINE n == IF Len(listing) <= MAX_KNOWN_FILES
                  THEN Len(listing) ELSE MAX_KNOWN_FILES
           s == SubSeq(listing, 1, n)
<1>1. RecordAll(<<>>, listing) = s
  BY ConcatEmptySeq, GuardAssumption DEF RecordAll
<1>2. n \in 0 .. Len(listing)
  BY GuardAssumption
<1>3. /\ s \in Seq(Paths) /\ Len(s) = n
      /\ \A i \in 1 .. n : s[i] = listing[i]
  <2> HIDE DEF n
  <2> QED
    BY <1>2, SubSeqProperties
<1>4. IsInjective(s)
  <2> HIDE DEF n, s
  <2> QED
    BY <1>2, <1>3 DEF IsInjective
<1>5. CASE Len(listing) <= MAX_KNOWN_FILES
  <2>1. s = listing
    BY <1>5, SubSeqFull
  <2> HIDE DEF s
  <2> QED
    BY <1>1, <1>4, <2>1
<1>6. CASE ~(Len(listing) <= MAX_KNOWN_FILES)
  <2>1. n = MAX_KNOWN_FILES
    BY <1>6
  <2> HIDE DEF s, n
  <2> QED
    BY <1>1, <1>3, <1>4, <2>1, GuardAssumption
<1> QED
  BY <1>5, <1>6

(* Recording a file that is not on the list.                               *)
LEMMA AddKnown ==
  ASSUME NEW known \in Seq(Paths), Len(known) <= MAX_KNOWN_FILES,
         NEW p \in Paths
  PROVE  LET new == add_known_file(known, p)
         IN  /\ new \in Seq(Paths)
             /\ Len(new) <= MAX_KNOWN_FILES
             /\ Range(known) \subseteq Range(new)
             /\ Len(known) >= MAX_KNOWN_FILES => new = known
             /\ Len(known) < MAX_KNOWN_FILES =>
                  Len(new) = Len(known) + 1 /\ p \in Range(new)
             /\ IsInjective(known) /\ p \notin Range(known) => IsInjective(new)
<1>1. CASE Len(known) >= MAX_KNOWN_FILES
  BY <1>1, GuardAssumption DEF add_known_file
<1>2. CASE Len(known) < MAX_KNOWN_FILES
  <2> DEFINE new == Append(known, p)
  <2>1. add_known_file(known, p) = new
    BY <1>2, GuardAssumption DEF add_known_file
  <2>2. /\ new \in Seq(Paths) /\ Len(new) = Len(known) + 1
        /\ \A i \in 1 .. Len(known) : new[i] = known[i]
        /\ new[Len(known) + 1] = p
    BY AppendProperties
  <2>3. DOMAIN known = 1 .. Len(known) /\ DOMAIN new = 1 .. Len(known) + 1
    BY <2>2
  <2> HIDE DEF new
  <2>4. Range(known) \subseteq Range(new) /\ p \in Range(new)
    BY <2>2, <2>3 DEF Range
  <2>5. IsInjective(known) /\ p \notin Range(known) => IsInjective(new)
    BY <2>2, <2>3 DEF Range, IsInjective
  <2> QED
    BY <1>2, <2>1, <2>2, <2>4, <2>5, GuardAssumption
<1> QED
  BY <1>1, <1>2, GuardAssumption

-----------------------------------------------------------------------------
(***************************************************************************)
(* Type correctness.                                                       *)
(***************************************************************************)

(* The listing of an empty tree.                                           *)
LEMMA EmptyListing ==
  /\ <<>> \in Seq(Paths) /\ Len(<<>>) = 0
  /\ IsInjective(<<>>) /\ Range(<<>>) = {}
BY DEF IsInjective, Range

(* No alarm has been given for any file.                                   *)
LEMMA NoAlarms == [p \in Paths |-> 0] \in [Paths -> Nat]
PROOF OBVIOUS

(* The types hold before the guard is started.                             *)
LEMMA TypeInit == Init => TypeOK
<1> SUFFICES ASSUME Init PROVE TypeOK
  OBVIOUS
<1>1. WorldTypeOK
  BY WorldInitType DEF Init
<1>2. g_enum_files \in Seq(Paths) /\ g_known_files \in Seq(Paths) /\ Len(g_known_files) = 0
  BY EmptyListing DEF Init
<1>3. base \in SUBSET Paths /\ fresh \in SUBSET Paths
  BY DEF Init
<1>4. alarms \in [Paths -> Nat]
  BY NoAlarms DEF Init
<1>5. /\ pc \in Locations /\ slice \in 0 .. Slices /\ idx \in Nat \ {0}
  BY GuardAssumption DEF Init, Locations
<1>6. g_guard_running \in BOOLEAN /\ stopAsked \in BOOLEAN
  BY DEF Init
<1>7. /\ initial_count \in Nat /\ total_new_files \in 0 .. MaxNew
      /\ threat_count \in Nat /\ starts \in 0 .. MaxStarts
  BY GuardAssumption DEF Init
<1> QED
  BY <1>1, <1>2, <1>3, <1>4, <1>5, <1>6, <1>7, GuardAssumption DEF TypeOK

(* Every step keeps the types.                                             *)
LEMMA TypeNext == TypeOK /\ [Next]_vars => TypeOK'
<1> SUFFICES ASSUME TypeOK, [Next]_vars PROVE TypeOK'
  OBVIOUS
<1> USE FileWorldAssumption, GuardAssumption
<1> USE DEF TypeOK, WorldTypeOK, Locations, Loop
<1>1. CASE StartGuard
  <2>1. WorldTypeOK'
    BY <1>1, OpenWalkType DEF StartGuard, WalkType
  <2>2. g_enum_files' \in Seq(Paths)
    BY <1>1, EmptyListing DEF StartGuard
  <2>3. base' \in SUBSET Paths /\ fresh' \in SUBSET Paths
    BY <1>1 DEF StartGuard
  <2>4. alarms' \in [Paths -> Nat]
    BY <1>1, NoAlarms DEF StartGuard
  <2>5. /\ pc' \in Locations /\ initial_count' \in Nat
        /\ total_new_files' \in 0 .. MaxNew /\ threat_count' \in Nat
    BY <1>1 DEF StartGuard
  <2>6. stopAsked' \in BOOLEAN
    BY <1>1 DEF StartGuard
  <2>7. /\ starts' \in 0 .. MaxStarts
        /\ UNCHANGED <<slice, idx, g_known_files, g_guard_running>>
    BY <1>1 DEF StartGuard
  <2> QED
    BY <2>1, <2>2, <2>3, <2>4, <2>5, <2>6, <2>7
<1>2. CASE Arm
  BY <1>2 DEF Arm, worldVars, ghostVars
<1>3. CASE SleepSlice
  BY <1>3 DEF SleepSlice, worldVars, ghostVars
<1>4. CASE BeginRound
  BY <1>4, OpenWalkType DEF BeginRound, WalkType, ghostVars
<1>5. CASE LeaveLoop
  BY <1>5 DEF LeaveLoop, worldVars, ghostVars
<1>6. CASE SkipKnown
  BY <1>6 DEF SkipKnown, worldVars, ghostVars
<1>7. CASE EndRound
  BY <1>7, EmptyListing DEF EndRound, worldVars, ghostVars
<1>8. CASE Return
  <2>1. walk' \in WalkType
    BY <1>8, NoWalkType DEF Return
  <2>2. fresh' \in SUBSET Paths
    BY <1>8 DEF Return
  <2>3. g_known_files' \in Seq(Paths) /\ Len(g_known_files') <= MAX_KNOWN_FILES
    BY <1>8, EmptyListing DEF Return
  <2>4. WorldTypeOK'
    BY <1>8, <2>1 DEF Return, WalkType
  <2> QED
    BY <1>8, <2>2, <2>3, <2>4 DEF Return
<1>9. CASE StopGuard
  BY <1>9 DEF StopGuard, worldVars
<1>10. CASE CtrlC
  <2>1. WorldTypeOK'
    BY <1>10, NoWalkType DEF CtrlC, WalkType
  <2>2. /\ g_enum_files' \in Seq(Paths) /\ g_known_files' \in Seq(Paths)
        /\ Len(g_known_files') = 0
    BY <1>10, EmptyListing DEF CtrlC
  <2>3. base' \in SUBSET Paths /\ fresh' \in SUBSET Paths
    BY <1>10 DEF CtrlC
  <2>4. alarms' \in [Paths -> Nat]
    BY <1>10, NoAlarms DEF CtrlC
  <2>5. /\ pc' \in Locations /\ slice' \in 0 .. Slices /\ idx' \in Nat \ {0}
    BY <1>10 DEF CtrlC
  <2>6. g_guard_running' \in BOOLEAN /\ UNCHANGED <<stopAsked, starts>>
    BY <1>10 DEF CtrlC
  <2>7. /\ initial_count' \in Nat /\ total_new_files' \in 0 .. MaxNew
        /\ threat_count' \in Nat
    BY <1>10 DEF CtrlC
  <2> QED
    BY <2>1, <2>2, <2>3, <2>4, <2>5, <2>6, <2>7
<1>11. CASE TakeBaseline
  <2>1. PICK listing \in Listings :
          /\ initial_count' = Len(listing)
          /\ g_known_files' = RecordAll(g_known_files, listing)
          /\ base' = Range(listing)
    BY <1>11 DEF TakeBaseline
  <2>2. listing \in Seq(Paths) /\ Range(listing) \subseteq Paths
    BY ListingSound
  <2>3. g_known_files' \in Seq(Paths) /\ Len(g_known_files') <= MAX_KNOWN_FILES
    BY <2>1, <2>2, RecordAllType
  <2>4. initial_count' \in Nat /\ base' \in SUBSET Paths
    BY <2>1, <2>2
  <2> QED
    BY <1>11, <2>3, <2>4, CloseWalkType DEF TakeBaseline, WalkType
<1>12. CASE RoundListed
  <2>1. PICK listing \in Listings : g_enum_files' = g_enum_files \o listing
    BY <1>12 DEF RoundListed
  <2>2. g_enum_files' \in Seq(Paths)
    BY <2>1, ListingSound, ConcatProperties
  <2> QED
    BY <1>12, <2>2, CloseWalkType DEF RoundListed, WalkType, ghostVars
<1>13. CASE ScanNew
  <2> DEFINE p == g_enum_files[idx]
  <2>1. p \in Paths
    BY <1>13 DEF ScanNew
  <2>2. g_known_files' \in Seq(Paths) /\ Len(g_known_files') <= MAX_KNOWN_FILES
    BY <1>13, <2>1, AddKnown DEF ScanNew
  <2>3. threat_count' \in Nat
    <3>1. threat_count' = threat_count \/ threat_count' = threat_count + 1
      BY <1>13 DEF ScanNew
    <3> QED
      BY <3>1
  <2>4. alarms' \in [Paths -> Nat]
    <3>1. alarms' = alarms \/ alarms' = [alarms EXCEPT ![p] = @ + 1]
      BY <1>13 DEF ScanNew
    <3>2. alarms \in [Paths -> Nat]
      OBVIOUS
    <3> HIDE DEF p
    <3> QED
      BY <2>1, <3>1, <3>2
  <2> QED
    BY <1>13, <2>2, <2>3, <2>4 DEF ScanNew, worldVars
<1>14. CASE \E p \in Paths, attr \in Attr : FileChange(p, attr)
  <2>1. PICK p \in Paths, attr \in Attr : FileChange(p, attr)
    BY <1>14
  <2>2. WorldTypeOK'
    BY <2>1, FsChangeType DEF FileChange
  <2>3. fresh' \in SUBSET Paths
    BY <2>1 DEF FileChange
  <2> QED
    BY <2>1, <2>2, <2>3 DEF FileChange, guardVars
<1>15. CASE UNCHANGED vars
  BY <1>15 DEF vars, worldVars, guardVars, ghostVars
<1> QED
  BY <1>1, <1>2, <1>3, <1>4, <1>5, <1>6, <1>7, <1>8, <1>9, <1>10, <1>11, <1>12,
     <1>13, <1>14, <1>15 DEF Next, GuardStep

(* Every variable keeps its type, and the list never exceeds its capacity. *)
THEOREM TypeCorrect == Spec => []TypeOK
<1> QED
  BY TypeInit, TypeNext, PTL DEF Spec

-----------------------------------------------------------------------------
(* The inductive invariant.                                               *)

(* An enumeration is open where one is waited for.                         *)
LEMMA WalkPlacedNext ==
  ASSUME TypeOK, WalkPlaced, [Next]_vars
  PROVE  WalkPlaced'
<1> USE DEF WalkPlaced
<1>1. CASE StartGuard
  BY <1>1, OpenWalkType DEF StartGuard
<1>2. CASE TakeBaseline
  BY <1>2, CloseWalkType DEF TakeBaseline, TypeOK, WorldTypeOK, WalkType
<1>3. CASE Arm
  BY <1>3 DEF Arm, worldVars, ghostVars
<1>4. CASE SleepSlice
  BY <1>4 DEF SleepSlice, worldVars, ghostVars
<1>5. CASE BeginRound
  BY <1>5, OpenWalkType DEF BeginRound
<1>6. CASE LeaveLoop
  BY <1>6 DEF LeaveLoop, worldVars, ghostVars
<1>7. CASE RoundListed
  BY <1>7, CloseWalkType DEF RoundListed, TypeOK, WorldTypeOK, WalkType
<1>8. CASE SkipKnown
  BY <1>8 DEF SkipKnown, worldVars, ghostVars
<1>9. CASE ScanNew
  BY <1>9 DEF ScanNew, worldVars, ghostVars
<1>10. CASE EndRound
  BY <1>10 DEF EndRound, worldVars, ghostVars
<1>11. CASE Return
  BY <1>11 DEF Return, NoWalk
<1>12. CASE StopGuard
  BY <1>12 DEF StopGuard, worldVars, ghostVars
<1>13. CASE CtrlC
  BY <1>13 DEF CtrlC, NoWalk
<1>14. CASE \E p \in Paths, attr \in Attr : FileChange(p, attr)
  BY <1>14, FsChangeType DEF FileChange, guardVars, TypeOK
<1>15. CASE UNCHANGED vars
  BY <1>15 DEF vars, worldVars, guardVars, ghostVars
<1> QED
  BY <1>1, <1>2, <1>3, <1>4, <1>5, <1>6, <1>7, <1>8, <1>9, <1>10, <1>11, <1>12, <1>13, <1>14, <1>15
     DEF Next, GuardStep

(* The list holds a file once, and nothing between sessions.               *)
LEMMA ListNext ==
  ASSUME TypeOK, KnownOnce, ListPlaced, [Next]_vars
  PROVE  KnownOnce' /\ ListPlaced'
<1> USE DEF KnownOnce, ListPlaced
<1>1. CASE StartGuard
  BY <1>1 DEF StartGuard, worldVars, ghostVars
<1>2. CASE TakeBaseline
  <2>1. PICK listing \in Listings : g_known_files' = RecordAll(<<>>, listing)
    BY <1>2 DEF TakeBaseline
  <2>2. listing \in Seq(Paths) /\ IsInjective(listing)
    BY FileWorldAssumption, ListingSound DEF TypeOK, WorldTypeOK
  <2> QED
    BY <1>2, <2>1, <2>2, RecordBaseline DEF TakeBaseline
<1>3. CASE Arm
  BY <1>3 DEF Arm, worldVars, ghostVars
<1>4. CASE SleepSlice
  BY <1>4 DEF SleepSlice, worldVars, ghostVars
<1>5. CASE BeginRound
  BY <1>5 DEF BeginRound, worldVars, ghostVars
<1>6. CASE LeaveLoop
  BY <1>6 DEF LeaveLoop, worldVars, ghostVars
<1>7. CASE RoundListed
  BY <1>7 DEF RoundListed, worldVars, ghostVars
<1>8. CASE SkipKnown
  BY <1>8 DEF SkipKnown, worldVars, ghostVars
<1>9. CASE ScanNew
  <2> DEFINE p == g_enum_files[idx]
  <2>1. p \in Paths /\ p \notin Range(g_known_files)
    BY <1>9 DEF ScanNew, TypeOK, is_known_file
  <2>2. g_known_files' = add_known_file(g_known_files, p)
    BY <1>9 DEF ScanNew
  <2>3. IsInjective(g_known_files')
    <3> HIDE DEF p
    <3> QED
      BY <2>1, <2>2, AddKnown DEF TypeOK
  <2> QED
    BY <1>9, <2>3 DEF ScanNew
<1>10. CASE EndRound
  BY <1>10 DEF EndRound, worldVars, ghostVars
<1>11. CASE Return
  BY <1>11, EmptyListing DEF Return
<1>12. CASE StopGuard
  BY <1>12 DEF StopGuard, worldVars, ghostVars
<1>13. CASE CtrlC
  BY <1>13, EmptyListing DEF CtrlC
<1>14. CASE \E p \in Paths, attr \in Attr : FileChange(p, attr)
  BY <1>14 DEF FileChange, guardVars
<1>15. CASE UNCHANGED vars
  BY <1>15 DEF vars, worldVars, guardVars, ghostVars
<1> QED
  BY <1>1, <1>2, <1>3, <1>4, <1>5, <1>6, <1>7, <1>8, <1>9, <1>10, <1>11, <1>12, <1>13, <1>14, <1>15
     DEF Next, GuardStep

(* The buffer holds one listing, and only while it is looked at.           *)
LEMMA BufferNext ==
  ASSUME TypeOK, WalkPlaced, BufferThisRound, [Next]_vars
  PROVE  BufferThisRound'
<1> USE DEF BufferThisRound
<1>1. CASE StartGuard
  <2>1. pc' # "check" /\ g_enum_files' = <<>>
    BY <1>1 DEF StartGuard
  <2> QED
    BY <2>1
<1>2. CASE TakeBaseline
  BY <1>2 DEF TakeBaseline
<1>3. CASE Arm
  BY <1>3 DEF Arm, worldVars, ghostVars
<1>4. CASE SleepSlice
  BY <1>4 DEF SleepSlice, worldVars, ghostVars
<1>5. CASE BeginRound
  BY <1>5 DEF BeginRound, worldVars, ghostVars
<1>6. CASE LeaveLoop
  BY <1>6 DEF LeaveLoop, worldVars, ghostVars
<1>7. CASE RoundListed
  <2>1. PICK listing \in Listings : g_enum_files' = g_enum_files \o listing
    BY <1>7 DEF RoundListed
  <2>2. /\ listing \in Seq(Paths) /\ IsInjective(listing)
        /\ Range(listing) \subseteq walk.may
    BY FileWorldAssumption, ListingSound DEF TypeOK, WorldTypeOK
  <2>3. g_enum_files' = listing
    BY <1>7, <2>1, <2>2, ConcatEmptySeq DEF RoundListed
  <2>4. walk'.may = walk.may
    BY <1>7, CloseWalkType DEF RoundListed, TypeOK, WorldTypeOK, WalkType
  <2> QED
    BY <1>7, <2>2, <2>3, <2>4 DEF RoundListed
<1>8. CASE SkipKnown
  BY <1>8 DEF SkipKnown, worldVars, ghostVars
<1>9. CASE ScanNew
  BY <1>9 DEF ScanNew, worldVars, ghostVars
<1>10. CASE EndRound
  BY <1>10 DEF EndRound, worldVars, ghostVars
<1>11. CASE Return
  BY <1>11 DEF Return, worldVars, ghostVars
<1>12. CASE StopGuard
  BY <1>12 DEF StopGuard, worldVars, ghostVars
<1>13. CASE CtrlC
  <2>1. pc' # "check" /\ g_enum_files' = <<>>
    BY <1>13 DEF CtrlC
  <2> QED
    BY <2>1
<1>14. CASE \E p \in Paths, attr \in Attr : FileChange(p, attr)
  <2>1. UNCHANGED <<pc, g_enum_files>> /\ walk.may \subseteq walk'.may
    BY <1>14, FsChangeType DEF FileChange, guardVars, TypeOK
  <2> QED
    BY <2>1
<1>15. CASE UNCHANGED vars
  BY <1>15 DEF vars, worldVars, guardVars, ghostVars
<1> QED
  BY <1>1, <1>2, <1>3, <1>4, <1>5, <1>6, <1>7, <1>8, <1>9, <1>10, <1>11, <1>12, <1>13, <1>14, <1>15
     DEF Next, GuardStep

(* Until the baseline is taken, nothing was counted.                       *)
LEMMA FreshSessionNext ==
  ASSUME TypeOK, FreshSession, [Next]_vars
  PROVE  FreshSession'
<1> USE DEF FreshSession
<1>1. CASE StartGuard
  BY <1>1 DEF StartGuard, worldVars, ghostVars
<1>2. CASE TakeBaseline
  BY <1>2 DEF TakeBaseline, worldVars, ghostVars
<1>3. CASE Arm
  BY <1>3 DEF Arm, worldVars, ghostVars
<1>4. CASE SleepSlice
  BY <1>4 DEF SleepSlice, worldVars, ghostVars
<1>5. CASE BeginRound
  BY <1>5 DEF BeginRound, worldVars, ghostVars
<1>6. CASE LeaveLoop
  BY <1>6 DEF LeaveLoop, worldVars, ghostVars
<1>7. CASE RoundListed
  BY <1>7 DEF RoundListed, worldVars, ghostVars
<1>8. CASE SkipKnown
  BY <1>8 DEF SkipKnown, worldVars, ghostVars
<1>9. CASE ScanNew
  BY <1>9 DEF ScanNew, worldVars, ghostVars
<1>10. CASE EndRound
  BY <1>10 DEF EndRound, worldVars, ghostVars
<1>11. CASE Return
  BY <1>11 DEF Return, worldVars, ghostVars
<1>12. CASE StopGuard
  BY <1>12 DEF StopGuard, worldVars, ghostVars
<1>13. CASE CtrlC
  BY <1>13 DEF CtrlC, worldVars, ghostVars
<1>14. CASE \E p \in Paths, attr \in Attr : FileChange(p, attr)
  BY <1>14 DEF FileChange, guardVars
<1>15. CASE UNCHANGED vars
  BY <1>15 DEF vars, worldVars, guardVars, ghostVars
<1> QED
  BY <1>1, <1>2, <1>3, <1>4, <1>5, <1>6, <1>7, <1>8, <1>9, <1>10, <1>11, <1>12, <1>13, <1>14, <1>15
     DEF Next, GuardStep

(* The known list keeps what the rounds entered into it.                   *)
LEMMA ListCompleteKept ==
  ASSUME ListComplete, InSession' => InSession,
         UNCHANGED <<g_known_files, alarms, base, initial_count, total_new_files>>
  PROVE  ListComplete'
BY DEF ListComplete, KnownFull, Alarmed

(* While it has room, the list holds all the session has dealt with.       *)
LEMMA ListCompleteNext ==
  ASSUME TypeOK, ListPlaced, FreshSession, ListComplete, [Next]_vars
  PROVE  ListComplete'
<1> USE DEF ListComplete, InSession
<1>1. CASE StartGuard
  BY <1>1 DEF StartGuard
<1>2. CASE TakeBaseline
  <2>1. PICK listing \in Listings :
          /\ initial_count' = Len(listing)
          /\ g_known_files' = RecordAll(<<>>, listing)
          /\ base' = Range(listing)
    BY <1>2 DEF TakeBaseline, ListPlaced
  <2>2. listing \in Seq(Paths) /\ IsInjective(listing)
    BY FileWorldAssumption, ListingSound DEF TypeOK, WorldTypeOK
  <2>3. Alarmed' = {} /\ total_new_files' = 0
    BY <1>2 DEF TakeBaseline, FreshSession, Alarmed
  <2>4. CASE RecordAll(<<>>, listing) = listing
    BY <2>1, <2>2, <2>3, <2>4
  <2>5. CASE Len(RecordAll(<<>>, listing)) >= MAX_KNOWN_FILES
    BY <2>1, <2>5 DEF KnownFull
  <2> QED
    BY <2>2, <2>4, <2>5, RecordBaseline
<1>3. CASE Arm
  BY <1>3, ListCompleteKept DEF Arm, worldVars, ghostVars
<1>4. CASE SleepSlice
  BY <1>4, ListCompleteKept DEF SleepSlice, worldVars, ghostVars
<1>5. CASE BeginRound
  BY <1>5, ListCompleteKept DEF BeginRound, worldVars, ghostVars
<1>6. CASE LeaveLoop
  BY <1>6, ListCompleteKept DEF LeaveLoop, worldVars, ghostVars
<1>7. CASE RoundListed
  BY <1>7, ListCompleteKept DEF RoundListed, worldVars, ghostVars
<1>8. CASE SkipKnown
  BY <1>8, ListCompleteKept DEF SkipKnown, worldVars, ghostVars
<1>9. CASE ScanNew
  <2> DEFINE p == g_enum_files[idx]
  <2>1. p \in Paths
    BY <1>9 DEF ScanNew, TypeOK
  <2>2. g_known_files' = add_known_file(g_known_files, p)
    BY <1>9 DEF ScanNew
  <2>3. Alarmed' \subseteq Alarmed \cup {p}
    BY <1>9, <2>1 DEF ScanNew, TypeOK, Alarmed
  <2>4. UNCHANGED <<base, initial_count>> /\ total_new_files' = total_new_files + 1 /\ InSession
    BY <1>9 DEF ScanNew, InSession
  <2> HIDE DEF p
  <2>5. CASE KnownFull
    BY <2>1, <2>2, <2>5, AddKnown DEF KnownFull, TypeOK
  <2>6. CASE ~KnownFull
    <3>1. /\ Range(g_known_files) \subseteq Range(g_known_files')
          /\ Len(g_known_files') = Len(g_known_files) + 1
          /\ p \in Range(g_known_files')
      BY <2>1, <2>2, <2>6, AddKnown, GuardAssumption DEF KnownFull, TypeOK
    <3>2. Len(g_known_files') = initial_count' + total_new_files'
      BY <2>4, <2>6, <3>1 DEF TypeOK
    <3> QED
      BY <2>3, <2>4, <2>6, <3>1, <3>2
  <2> QED
    BY <2>5, <2>6
<1>10. CASE EndRound
  BY <1>10, ListCompleteKept DEF EndRound, worldVars, ghostVars
<1>11. CASE Return
  BY <1>11 DEF Return
<1>12. CASE StopGuard
  BY <1>12, ListCompleteKept DEF StopGuard, worldVars, ghostVars
<1>13. CASE CtrlC
  BY <1>13 DEF CtrlC
<1>14. CASE \E p \in Paths, attr \in Attr : FileChange(p, attr)
  BY <1>14, ListCompleteKept DEF FileChange, guardVars
<1>15. CASE UNCHANGED vars
  BY <1>15, ListCompleteKept DEF vars, worldVars, guardVars, ghostVars
<1> QED
  BY <1>1, <1>2, <1>3, <1>4, <1>5, <1>6, <1>7, <1>8, <1>9, <1>10, <1>11, <1>12, <1>13, <1>14, <1>15
     DEF Next, GuardStep

(* The inductive invariant holds initially.                                *)
LEMMA InvInit == Init => GuardInv
<1> SUFFICES ASSUME Init PROVE GuardInv
  OBVIOUS
<1>1. TypeOK
  BY TypeInit
<1>2. KnownOnce /\ BufferThisRound /\ ListPlaced
  BY EmptyListing DEF Init, KnownOnce, BufferThisRound, ListPlaced
<1>3. WalkPlaced
  BY DEF Init, WorldInit, NoWalk, WalkPlaced
<1>4. FreshSession /\ ListComplete
  BY DEF Init, FreshSession, ListComplete, InSession
<1> QED
  BY <1>1, <1>2, <1>3, <1>4 DEF GuardInv

(* Every step keeps the inductive invariant.                               *)
LEMMA InvNext == GuardInv /\ [Next]_vars => GuardInv'
BY TypeNext, WalkPlacedNext, ListNext, BufferNext, FreshSessionNext, ListCompleteNext
   DEF GuardInv

(* The inductive invariant holds in every reachable state.                 *)
THEOREM Invariance == Spec => []GuardInv
<1> QED
  BY InvInit, InvNext, PTL DEF Spec

-----------------------------------------------------------------------------
(* The safety properties.                                                  *)

(* The list of known files never names a file twice (add_known_file is     *)
(* guarded by is_known_file).                                              *)
THEOREM KnownOnceHolds == Spec => []KnownOnce
<1>1. GuardInv => KnownOnce
  BY DEF GuardInv
<1> QED
  BY <1>1, Invariance, PTL

(* The shared enumeration buffer holds this round's listing and nothing of *)
(* an earlier one.                                                         *)
THEOREM BufferHolds == Spec => []BufferThisRound
<1>1. GuardInv => BufferThisRound
  BY DEF GuardInv
<1> QED
  BY <1>1, Invariance, PTL

(* The number of new files and threats that start_guard reports matches    *)
(* what it did.                                                            *)
THEOREM CountHolds == Spec => []NewFilesCounted
<1>1. GuardInv => NewFilesCounted
  BY DEF GuardInv, ListComplete, InSession, NewFilesCounted, Loop
<1> QED
  BY <1>1, Invariance, PTL

(* What one iteration over an unknown file does to the alarms.             *)
LEMMA ScanNewAlarms ==
  ASSUME TypeOK, BufferThisRound, ScanNew
  PROVE  \E p \in Paths :
           /\ p \notin Range(g_known_files)
           /\ p \in walk.may
           /\ g_known_files' = add_known_file(g_known_files, p)
           /\ \/ UNCHANGED <<alarms, threat_count>>
              \/ /\ p \in Rogues /\ fs[p] # "big"
                 /\ alarms' = [alarms EXCEPT ![p] = @ + 1]
                 /\ threat_count' = threat_count + 1
<1> DEFINE p == g_enum_files[idx]
<1>1. p \in Range(g_enum_files) /\ p \in Paths /\ p \notin Range(g_known_files)
  BY DEF ScanNew, TypeOK, is_known_file, Range
<1>2. p \in walk.may
  BY <1>1 DEF ScanNew, BufferThisRound
<1>3. fs[p] \in Attr
  BY <1>1 DEF TypeOK, WorldTypeOK
<1>4. g_known_files' = add_known_file(g_known_files, p)
  BY DEF ScanNew
<1>5. CASE check_single_file(p, fs[p]) # NULL
  <2>1. p \in Rogues /\ fs[p] # "big"
    BY <1>1, <1>3, <1>5, VerdictSound
  <2>2. /\ alarms' = [alarms EXCEPT ![p] = @ + 1]
        /\ threat_count' = threat_count + 1
    BY <1>5 DEF ScanNew
  <2> HIDE DEF p
  <2> QED
    BY <1>1, <1>2, <1>4, <2>1, <2>2
<1>6. CASE check_single_file(p, fs[p]) = NULL
  <2>1. UNCHANGED <<alarms, threat_count>>
    BY <1>6 DEF ScanNew
  <2> HIDE DEF p
  <2> QED
    BY <1>1, <1>2, <1>4, <2>1
<1> QED
  BY <1>5, <1>6

(* Nothing but the loop raises an alarm.                                   *)
LEMMA AlarmSteps ==
  ASSUME TypeOK, [Next]_vars, ~ScanNew
  PROVE  alarms' = alarms \/ alarms' = [q \in Paths |-> 0]
BY DEF Next, GuardStep, vars, guardVars, ghostVars, worldVars, StartGuard, TakeBaseline,
       Arm, SleepSlice, BeginRound, LeaveLoop, RoundListed, SkipKnown, EndRound,
       Return, StopGuard, CtrlC, FileChange

(* Steps within a session and outside the loop body leave its facts alone. *)
LEMMA SessionSteps ==
  ASSUME [Next]_vars, ~ScanNew, pc' # "idle"
  PROVE  \/ StartGuard
         \/ TakeBaseline
         \/ pc # "idle" /\ UNCHANGED <<base, alarms, g_known_files>>
BY DEF Next, GuardStep, vars, guardVars, ghostVars, worldVars,
       Arm, SleepSlice, BeginRound, LeaveLoop, RoundListed, SkipKnown, EndRound,
       Return, StopGuard, CtrlC, FileChange

AlarmsOnce == AlarmsOnceUnlessFull /\ BaselineQuietUnlessFull

(* Every step keeps the number of alarms at one per file while the list    *)
(* has room.                                                               *)
LEMMA AlarmsOnceNext == GuardInv /\ AlarmsOnce /\ [Next]_vars => AlarmsOnce'
<1> SUFFICES ASSUME GuardInv, AlarmsOnce, [Next]_vars PROVE AlarmsOnce'
  OBVIOUS
<1> SUFFICES ASSUME pc' # "idle"
             PROVE  \A q \in Paths : alarms'[q] > 1 \/ (q \in base' /\ alarms'[q] > 0)
                                     => KnownFull'
  <2>1. TypeOK'
    BY TypeNext DEF GuardInv
  <2> QED
    BY <2>1 DEF AlarmsOnce, AlarmsOnceUnlessFull, BaselineQuietUnlessFull, TypeOK
<1> USE DEF GuardInv
<1>1. CASE ScanNew
  <2>1. PICK p \in Paths :
          /\ p \notin Range(g_known_files)
          /\ g_known_files' = add_known_file(g_known_files, p)
          /\ alarms' = alarms \/ alarms' = [alarms EXCEPT ![p] = @ + 1]
    BY <1>1, ScanNewAlarms
  <2>2. base' = base /\ pc = "check"
    BY <1>1 DEF ScanNew
  <2>3. CASE KnownFull
    BY <2>1, <2>3, AddKnown DEF KnownFull, TypeOK
  <2>4. CASE ~KnownFull
    <3>1. p \notin base /\ alarms[p] = 0
      BY <2>1, <2>2, <2>4 DEF ListComplete, InSession, Alarmed, TypeOK
    <3>2. \A q \in Paths : ~(alarms[q] > 1) /\ (q \in base => ~(alarms[q] > 0))
      BY <2>2, <2>4 DEF AlarmsOnce, AlarmsOnceUnlessFull, BaselineQuietUnlessFull, TypeOK
    <3>3. \A q \in Paths : ~(alarms'[q] > 1) /\ (q \in base => ~(alarms'[q] > 0))
      BY <2>1, <3>1, <3>2 DEF TypeOK
    <3> QED
      BY <2>2, <3>3
  <2> QED
    BY <2>3, <2>4
<1>2. CASE StartGuard
  BY <1>2 DEF StartGuard
<1>3. CASE TakeBaseline
  <2>1. alarms' = [q \in Paths |-> 0]
    BY <1>3 DEF TakeBaseline, FreshSession
  <2> QED
    BY <2>1
<1>4. CASE pc # "idle" /\ UNCHANGED <<base, alarms, g_known_files>>
  BY <1>4 DEF AlarmsOnce, AlarmsOnceUnlessFull, BaselineQuietUnlessFull, KnownFull, TypeOK
<1> QED
  BY <1>1, <1>2, <1>3, <1>4, SessionSteps

(* No alarm is given before the first session.                             *)
LEMMA AlarmsOnceInit == Init => AlarmsOnce
BY DEF Init, AlarmsOnce, AlarmsOnceUnlessFull, BaselineQuietUnlessFull

(* While its list has room, a session names a file at most once.           *)
THEOREM AlarmsOnceHolds == Spec => []AlarmsOnceUnlessFull
<1>1. AlarmsOnce => AlarmsOnceUnlessFull
  BY DEF AlarmsOnce
<1> QED
  BY <1>1, AlarmsOnceInit, AlarmsOnceNext, Invariance, PTL DEF Spec

(* While its list has room, a session names no file of its baseline.       *)
THEOREM BaselineQuietHolds == Spec => []BaselineQuietUnlessFull
<1>1. AlarmsOnce => BaselineQuietUnlessFull
  BY DEF AlarmsOnce
<1> QED
  BY <1>1, AlarmsOnceInit, AlarmsOnceNext, Invariance, PTL DEF Spec

(* No alarm without a reason, however full the list is.                    *)
THEOREM AlarmsJustifiedHolds == Spec => AlarmsJustified
<1> DEFINE Justified == \A p \in Paths : alarms'[p] > alarms[p] =>
             p \in walk.may /\ p \in Rogues /\ fs[p] # "big" /\ ~is_known_file(p)
<1>1. GuardInv /\ [Next]_vars => Justified
  <2> SUFFICES ASSUME GuardInv, [Next]_vars PROVE Justified
    OBVIOUS
  <2> USE DEF GuardInv
  <2>1. CASE ScanNew
    <3>1. PICK p \in Paths :
            /\ p \notin Range(g_known_files)
            /\ p \in walk.may
            /\ \/ alarms' = alarms
               \/ /\ p \in Rogues /\ fs[p] # "big"
                  /\ alarms' = [alarms EXCEPT ![p] = @ + 1]
      BY <2>1, ScanNewAlarms
    <3>2. \A q \in Paths : q # p => alarms'[q] = alarms[q]
      BY <3>1 DEF TypeOK
    <3>3. alarms' # alarms => p \in Rogues /\ fs[p] # "big"
      BY <3>1
    <3>4. \A q \in Paths : alarms'[q] > alarms[q] => q = p /\ alarms' # alarms
      BY <3>2 DEF TypeOK
    <3> QED
      BY <3>1, <3>3, <3>4 DEF is_known_file
  <2>2. CASE ~ScanNew
    BY <2>2, AlarmSteps DEF TypeOK
  <2> QED
    BY <2>1, <2>2
<1>2. GuardInv /\ [Next]_vars => [Justified]_vars
  BY <1>1
<1> QED
  BY <1>2, Invariance, PTL DEF Spec, AlarmsJustified

-----------------------------------------------------------------------------
(***************************************************************************)
(* The refinement: with a list that can hold every file, a guard session   *)
(* is a session of AlarmSession.                                           *)
(***************************************************************************)

(* A file that is not on the list leaves room for itself.                  *)
LEMMA Room ==
  ASSUME TypeOK, KnownOnce, Cardinality(Paths) <= MAX_KNOWN_FILES,
         NEW p \in Paths, p \notin Range(g_known_files)
  PROVE  ~KnownFull
<1> DEFINE D == 1 .. Len(g_known_files)
           others == Paths \ {p}
<1>1. /\ IsFiniteSet(others) /\ Cardinality(others) = Cardinality(Paths) - 1
      /\ Cardinality(Paths) \in Nat
  BY FS_RemoveElement, FS_CardinalityType, FileWorldAssumption DEF FileWorldAssumption
<1>2. IsFiniteSet(D) /\ Cardinality(D) = Len(g_known_files)
  <2>1. Len(g_known_files) \in Nat
    BY DEF TypeOK
  <2>2. \A n \in Nat : IsFiniteSet(1 .. n) /\ Cardinality(1 .. n) = n
    BY FS_Interval
  <2> QED
    BY <2>1, <2>2
<1>3. g_known_files \in [D -> others]
  BY DEF TypeOK, Range
<1>4. ~ \E x, y \in D : x # y /\ g_known_files[x] = g_known_files[y]
  BY DEF KnownOnce, IsInjective, TypeOK
<1>5. ~(Cardinality(others) < Cardinality(D))
  <2> HIDE DEF D, others
  <2> QED
    BY <1>1, <1>2, <1>3, <1>4, FS_PigeonHole
<1> QED
  BY <1>1, <1>2, <1>5, GuardAssumption DEF KnownFull, TypeOK

(* The guard starts as the abstract session does.                          *)
LEMMA SessionInit == Init => Session!Init
BY DEF Init, Session!Init, InSession

(* Every step of the guard is a step of the abstract session or leaves it  *)
(* alone.                                                                  *)
LEMMA SessionNext ==
  ASSUME Cardinality(Paths) <= MAX_KNOWN_FILES, GuardInv, TypeOK', [Next]_vars
  PROVE  [Session!Next]_Session!vars
<1> USE DEF GuardInv
<1>1. CASE TakeBaseline
  <2>1. ~InSession /\ InSession'
    BY <1>1 DEF TakeBaseline, InSession
  <2>2. Alarmed' = {} /\ threat_count' = 0 /\ base' \in SUBSET Paths
    BY <1>1 DEF TakeBaseline, FreshSession, Alarmed, TypeOK
  <2> QED
    BY <2>1, <2>2 DEF Session!Next, Session!Begin
<1>2. CASE ScanNew
  <2>1. PICK p \in Paths :
          /\ p \notin Range(g_known_files)
          /\ \/ UNCHANGED <<alarms, threat_count>>
             \/ /\ p \in Rogues
                /\ alarms' = [alarms EXCEPT ![p] = @ + 1]
                /\ threat_count' = threat_count + 1
    BY <1>2, ScanNewAlarms
  <2>2. InSession /\ InSession' /\ base' = base
    BY <1>2 DEF ScanNew, InSession
  <2>3. CASE UNCHANGED <<alarms, threat_count>>
    BY <2>2, <2>3 DEF Session!vars, Alarmed
  <2>4. CASE /\ p \in Rogues
             /\ alarms' = [alarms EXCEPT ![p] = @ + 1]
             /\ threat_count' = threat_count + 1
    <3>1. ~KnownFull
      BY <2>1, Room
    <3>2. p \notin base /\ p \notin Alarmed
      BY <2>1, <2>2, <3>1 DEF ListComplete
    <3>3. Alarmed' = Alarmed \cup {p}
      <4>1. alarms \in [Paths -> Nat] /\ alarms' = [alarms EXCEPT ![p] = @ + 1]
        BY <2>4 DEF TypeOK
      <4>2. \A q \in Paths : alarms'[q] > 0 <=> alarms[q] > 0 \/ q = p
        BY <4>1
      <4> QED
        BY <2>1, <4>2 DEF Alarmed
    <3>4. Session!Raise(p)
      BY <2>2, <2>4, <3>2, <3>3 DEF Session!Raise
    <3> QED
      BY <2>4, <3>4 DEF Session!Next
  <2> QED
    BY <2>1, <2>3, <2>4
<1>3. CASE pc \in {"idle", "baseWalk"} /\ pc' \in {"idle", "baseWalk"}
  BY <1>3 DEF Session!vars, InSession
<1>4. CASE pc \notin {"idle", "baseWalk"} /\ pc' \in {"idle", "baseWalk"}
  BY <1>4 DEF Session!Next, Session!End, InSession
<1>5. CASE UNCHANGED <<base, alarms, threat_count>> /\ (InSession <=> InSession')
  BY <1>5 DEF Session!vars, Alarmed
<1>6. \/ TakeBaseline \/ ScanNew
      \/ pc \in {"idle", "baseWalk"} /\ pc' \in {"idle", "baseWalk"}
      \/ pc \notin {"idle", "baseWalk"} /\ pc' \in {"idle", "baseWalk"}
      \/ UNCHANGED <<base, alarms, threat_count>> /\ (InSession <=> InSession')
  BY DEF Next, GuardStep, vars, guardVars, ghostVars, worldVars, StartGuard, Arm,
         SleepSlice, BeginRound, LeaveLoop, RoundListed, SkipKnown, EndRound, Return,
         StopGuard, CtrlC, FileChange, InSession
<1> QED
  BY <1>1, <1>2, <1>3, <1>4, <1>5, <1>6

(* A list with room for every file makes the guard keep its promise: one   *)
(* alarm per new rogue file, none for the baseline, and a count to match.  *)
THEOREM GuardRefinesSession ==
  ASSUME Cardinality(Paths) <= MAX_KNOWN_FILES
  PROVE  Spec => SessionSpec
<1>1. GuardInv /\ GuardInv' /\ [Next]_vars => [Session!Next]_Session!vars
  BY SessionNext DEF GuardInv
<1> QED
  BY <1>1, SessionInit, Invariance, PTL DEF Spec, SessionSpec, Session!Spec

=============================================================================
