----------------------------- MODULE ScanProofs -----------------------------
(***************************************************************************)
(* Proofs about the one-shot scan, for every tree, rule table and number   *)
(* of changes other programs make while it runs.                           *)
(***************************************************************************)
EXTENDS Scan, WorldProofs, SequenceTheorems, WellFoundedInduction

Done(n) == {g_enum_files[i] : i \in 1 .. n}

(* Nothing has been looked at before the listing is there.                 *)
FreshScan ==
  pc \in {"idle", "walk"} =>
    /\ g_enum_files = <<>> /\ reported = <<>>
    /\ total = 0 /\ scanned = 0 /\ skipped = 0 /\ threats = 0

(* What the enumeration promises, carried to the listing and the result.   *)
WalkKept ==
  /\ pc = "walk" => walk.open /\ walk.must \subseteq walk.may /\ steady \subseteq walk.must
  /\ pc # "walk" => ~walk.open

ListKept ==
  pc = "check" =>
    /\ total = Len(g_enum_files)
    /\ IsInjective(g_enum_files)
    /\ Range(g_enum_files) \subseteq walk.may
    /\ steady \subseteq Range(g_enum_files)
    /\ Range(reported) \subseteq Done(scanned)
    /\ Rogues \cap steady \cap Done(scanned) \subseteq Range(reported)

SteadySmall == \A p \in steady : fs[p] = "small"

ScanInv ==
  /\ TypeOK
  /\ FreshScan
  /\ WalkKept
  /\ ListKept
  /\ SteadySmall
  /\ NothingSteadyMissed
  /\ ReportsSound
  /\ SummaryAddsUp

(* No verdict means no rule, as NULL is no rule.                           *)
LEMMA NoRule ==
  ASSUME NEW p \in Paths, match_rogue_pattern(p) = NULL
  PROVE  p \notin Rogues
<1> SUFFICES ASSUME MatchingRules(p) # {} PROVE FALSE
  BY DEF Rogues
<1>1. MatchingRules(p) \subseteq Nat
  BY DetectAssumption DEF DetectAssumption, MatchingRules
<1>2. IsWellFoundedOn({ss \in Nat \X Nat : ss[1] < ss[2]}, Nat)
  BY NatLessThanWellFounded DEF OpToRel
<1>3. \E i \in MatchingRules(p) : \A j \in MatchingRules(p) : i <= j
  <2> DEFINE Less == {ss \in Nat \X Nat : ss[1] < ss[2]}
  <2>1. \A i, j \in Nat : j < i => <<j, i>> \in Less
    OBVIOUS
  <2>2. IsWellFoundedOn(Less, Nat)
    BY <1>2
  <2> HIDE DEF Less
  <2>3. PICK i \in MatchingRules(p) : \A j \in MatchingRules(p) : <<j, i>> \notin Less
    BY <1>1, <2>2, WFMin
  <2>4. \A j \in MatchingRules(p) : ~(j < i)
    BY <1>1, <2>1, <2>3
  <2> QED
    BY <1>1, <2>4
<1> DEFINE first == CHOOSE k \in MatchingRules(p) : \A j \in MatchingRules(p) : k <= j
<1>4. first \in MatchingRules(p)
  BY <1>3
<1>5. ROGUE_PATTERNS[first] # NULL
  BY <1>4, DetectAssumption DEF DetectAssumption, MatchingRules
<1> QED
  BY <1>5 DEF match_rogue_pattern

(* The empty listing and the empty report.                                 *)
LEMMA EmptyFacts ==
  /\ <<>> \in Seq(Paths) /\ Len(<<>>) = 0
  /\ IsInjective(<<>>) /\ Range(<<>>) = {}
<1>1. <<>> \in Seq(Paths) /\ Len(<<>>) = 0 /\ DOMAIN <<>> = {}
  OBVIOUS
<1> QED
  BY <1>1 DEF IsInjective, Range

(* The inductive invariant holds before the scan.                          *)
LEMMA ScanInit == Init => ScanInv
<1> SUFFICES ASSUME Init PROVE ScanInv
  OBVIOUS
<1>1. WorldTypeOK /\ ~walk.open
  BY WorldInitType DEF Init, WorldInit, NoWalk
<1>2. Cardinality(Paths) \in Nat
  BY FS_CardinalityType, FileWorldAssumption DEF FileWorldAssumption
<1>3. /\ pc = "idle" /\ g_enum_files = <<>> /\ reported = <<>> /\ conclusion = "none"
      /\ total = 0 /\ scanned = 0 /\ skipped = 0 /\ threats = 0
  BY DEF Init
<1>4. steady = {}
  BY DEF Init
<1>5. TypeOK
  BY <1>1, <1>2, <1>3, <1>4, EmptyFacts DEF TypeOK, Locations
<1>6. FreshScan /\ WalkKept /\ ListKept
  BY <1>1, <1>3 DEF FreshScan, WalkKept, ListKept
<1>7. SteadySmall
  BY <1>4 DEF SteadySmall
<1>8. NothingSteadyMissed /\ ReportsSound /\ SummaryAddsUp
  BY <1>3, EmptyFacts DEF NothingSteadyMissed, ReportsSound, SummaryAddsUp
<1> QED
  BY <1>5, <1>6, <1>7, <1>8 DEF ScanInv

(* The first directory is opened.                                          *)
LEMMA StartKeeps == ScanInv /\ Start => ScanInv'
<1> SUFFICES ASSUME ScanInv, Start PROVE ScanInv'
  OBVIOUS
<1>1. walk' \in WalkType /\ walk'.open /\ walk'.must = walk'.may
  BY OpenWalkType DEF Start
<1>2. pc = "idle" /\ pc' = "walk"
  BY DEF Start
<1>3. UNCHANGED <<fs, changes, g_enum_files, total, scanned, skipped, threats,
                  reported, conclusion>>
  BY DEF Start
<1>4. steady' = {p \in Paths : fs[p] = "small"}
  BY DEF Start
<1>5. steady' \subseteq walk'.must
  BY <1>4 DEF Start, OpenWalk, Present
<1>6. TypeOK'
  BY <1>1, <1>2, <1>3, <1>4 DEF ScanInv, TypeOK, WorldTypeOK, WalkType, Locations
<1>7. FreshScan' /\ WalkKept' /\ ListKept'
  BY <1>1, <1>2, <1>3, <1>5 DEF ScanInv, FreshScan, WalkKept, ListKept
<1>8. SteadySmall'
  BY <1>3, <1>4 DEF SteadySmall
<1>9. NothingSteadyMissed' /\ ReportsSound' /\ SummaryAddsUp'
  BY <1>2, <1>3 DEF ScanInv, NothingSteadyMissed, ReportsSound, SummaryAddsUp
<1> QED
  BY <1>6, <1>7, <1>8, <1>9 DEF ScanInv

(* The listing holds what was steady all along.                            *)
LEMMA ListedKeeps == ScanInv /\ Listed => ScanInv'
<1> SUFFICES ASSUME ScanInv, Listed PROVE ScanInv'
  OBVIOUS
<1>1. PICK listing \in Listings :
        /\ g_enum_files' = listing
        /\ total' = Len(listing)
        /\ pc' = IF listing = <<>> THEN "return" ELSE "check"
  BY DEF Listed
<1>2. pc = "walk" /\ UNCHANGED <<fs, changes, scanned, skipped, threats, reported,
                                 conclusion, steady>>
  BY DEF Listed
<1>3. walk \in WalkType /\ walk.may \subseteq Paths /\ walk.must \subseteq walk.may
      /\ steady \subseteq walk.must
  BY <1>2 DEF ScanInv, TypeOK, WorldTypeOK, WalkType, WalkKept
<1>4. walk' \in WalkType /\ ~walk'.open /\ walk'.may = walk.may
  BY <1>3, CloseWalkType DEF Listed
<1>5. listing \in Seq(Paths) /\ IsInjective(listing) /\ Range(listing) \subseteq walk.may
  BY <1>3, FileWorldAssumption, ListingSound
<1>6. steady \subseteq Range(listing) /\ total' \in 0 .. Cardinality(Paths)
  BY <1>1, <1>3, FileWorldAssumption, ListingComplete
<1>7. /\ reported = <<>> /\ scanned = 0 /\ skipped = 0 /\ threats = 0
      /\ Range(reported) = {} /\ Len(reported) = 0
  BY <1>2, EmptyFacts DEF ScanInv, FreshScan
<1>8. pc' \in {"return", "check"}
  BY <1>1
<1>9. TypeOK'
  <2>1. WorldTypeOK'
    BY <1>2, <1>4 DEF ScanInv, TypeOK, WorldTypeOK, WalkType
  <2>2. g_enum_files' \in Seq(Paths)
    BY <1>1, <1>5
  <2>3. scanned' \in 0 .. total' /\ skipped' \in 0 .. scanned' /\ threats' \in 0 .. scanned'
    BY <1>2, <1>6, <1>7
  <2> QED
    BY <1>2, <1>6, <1>8, <2>1, <2>2, <2>3 DEF ScanInv, TypeOK, Locations
<1>10. FreshScan' /\ WalkKept'
  BY <1>4, <1>8 DEF FreshScan, WalkKept
<1>11. ListKept'
  <2>1. Done(scanned)' = {}
    BY <1>2, <1>7 DEF Done
  <2> QED
    BY <1>1, <1>2, <1>4, <1>5, <1>6, <1>7, <2>1 DEF ListKept
<1>12. SteadySmall'
  BY <1>2 DEF ScanInv, SteadySmall
<1>13. NothingSteadyMissed'
  <2>1. pc' \in {"return", "done"} => Range(listing) = {}
    BY <1>1, EmptyFacts
  <2> QED
    BY <1>2, <1>6, <2>1 DEF NothingSteadyMissed
<1>14. ReportsSound'
  BY <1>2, <1>7 DEF ScanInv, ReportsSound
<1>15. SummaryAddsUp'
  <2>1. pc' = "return" => total' = 0
    BY <1>1, EmptyFacts
  <2> QED
    BY <1>2, <1>7, <1>8, <2>1 DEF SummaryAddsUp
<1> QED
  BY <1>9, <1>10, <1>11, <1>12, <1>13, <1>14, <1>15 DEF ScanInv

(* One entry is looked at: a steady rogue is not skipped.                  *)
LEMMA CurrentFacts ==
  ASSUME ScanInv, NextFile
  PROVE  /\ pc = "check" /\ pc' = "check"
         /\ Current \in Paths /\ Current \in walk.may
         /\ scanned' = scanned + 1 /\ scanned' \in 1 .. total /\ scanned \in Nat
         /\ total = Len(g_enum_files)
         /\ Done(scanned)' = Done(scanned) \cup {Current}
         /\ Current \notin Done(scanned)
         /\ UNCHANGED <<worldVars, g_enum_files, total, conclusion, steady>>
<1>1. /\ pc = "check" /\ pc' = "check" /\ scanned' = scanned + 1 /\ scanned < total
      /\ UNCHANGED <<worldVars, g_enum_files, total, conclusion, steady>>
  BY DEF NextFile
<1>2. /\ total = Len(g_enum_files) /\ IsInjective(g_enum_files)
      /\ Range(g_enum_files) \subseteq walk.may
      /\ g_enum_files \in Seq(Paths)
      /\ scanned \in Nat /\ total \in Nat
  BY <1>1 DEF ScanInv, TypeOK, ListKept
<1>3. scanned + 1 \in DOMAIN g_enum_files /\ DOMAIN g_enum_files = 1 .. total
  BY <1>1, <1>2
<1>4. Current \in Paths /\ Current \in walk.may
  BY <1>2, <1>3 DEF Current, Range
<1>5. Done(scanned)' = Done(scanned) \cup {Current}
  BY <1>1, <1>2 DEF Done, Current
<1>6. Current \notin Done(scanned)
  BY <1>1, <1>2, <1>3 DEF Done, Current, IsInjective
<1> QED
  BY <1>1, <1>2, <1>4, <1>5, <1>6

(* An entry that is passed over is no steady rogue.                        *)
LEMMA SkipKeeps ==
  ASSUME ScanInv, NextFile, skipped' \in {skipped, skipped + 1},
         UNCHANGED <<threats, reported>>,
         Current \notin Rogues \cap steady
  PROVE  ScanInv'
<1>1. /\ pc = "check" /\ pc' = "check"
      /\ scanned' = scanned + 1 /\ scanned' \in 1 .. total /\ scanned \in Nat
      /\ Done(scanned)' = Done(scanned) \cup {Current}
      /\ UNCHANGED <<worldVars, g_enum_files, total, conclusion, steady, threats, reported>>
  BY CurrentFacts
<1>2. skipped \in Nat /\ threats \in Nat /\ skipped + threats <= scanned
  BY DEF ScanInv, TypeOK, SummaryAddsUp
<1>3. TypeOK'
  <2>1. /\ scanned' \in 0 .. total' /\ skipped' \in 0 .. scanned' /\ threats' \in 0 .. scanned'
        /\ total' = total
    BY <1>1, <1>2
  <2> QED
    BY <1>1, <2>1 DEF ScanInv, TypeOK, WorldTypeOK, worldVars
<1>4. FreshScan' /\ WalkKept' /\ SteadySmall'
  BY <1>1 DEF ScanInv, FreshScan, WalkKept, SteadySmall, worldVars
<1>5. ListKept'
  BY <1>1 DEF ScanInv, ListKept, worldVars
<1>6. NothingSteadyMissed' /\ ReportsSound'
  BY <1>1 DEF ScanInv, NothingSteadyMissed, ReportsSound, worldVars
<1>7. SummaryAddsUp'
  BY <1>1, <1>2 DEF ScanInv, SummaryAddsUp
<1> QED
  BY <1>3, <1>4, <1>5, <1>6, <1>7 DEF ScanInv

(* One entry is named.                                                     *)
LEMMA NameKeeps ==
  ASSUME ScanInv, NextFile, Current \in Rogues,
         threats' = threats + 1, reported' = Append(reported, Current), UNCHANGED skipped
  PROVE  ScanInv'
<1>1. /\ pc = "check" /\ pc' = "check"
      /\ Current \in Paths /\ Current \in walk.may
      /\ scanned' = scanned + 1 /\ scanned' \in 1 .. total /\ scanned \in Nat
      /\ Done(scanned)' = Done(scanned) \cup {Current}
      /\ Current \notin Done(scanned)
      /\ UNCHANGED <<worldVars, g_enum_files, total, conclusion, steady>>
  BY CurrentFacts
<1>2. /\ skipped \in Nat /\ threats \in Nat /\ skipped + threats <= scanned
      /\ threats = Len(reported)
  BY DEF ScanInv, TypeOK, SummaryAddsUp
<1>3. reported \in Seq(Paths) /\ IsInjective(reported) /\ Range(reported) \subseteq Done(scanned)
  BY <1>1 DEF ScanInv, TypeOK, ReportsSound, ListKept
<1>4. /\ reported' \in Seq(Paths) /\ Len(reported') = Len(reported) + 1
      /\ \A i \in 1 .. Len(reported') :
           reported'[i] = IF i = Len(reported) + 1 THEN Current ELSE reported[i]
  BY <1>1, <1>3, AppendProperties
<1>5. Range(reported') = Range(reported) \cup {Current}
  BY <1>3, <1>4 DEF Range
<1>6. IsInjective(reported')
  <2>1. Current \notin Range(reported)
    BY <1>1, <1>3
  <2> QED
    BY <1>3, <1>4, <2>1 DEF IsInjective, Range
<1>7. TypeOK'
  <2>1. /\ scanned' \in 0 .. total' /\ skipped' \in 0 .. scanned' /\ threats' \in 0 .. scanned'
        /\ total' = total
    BY <1>1, <1>2
  <2> QED
    BY <1>1, <1>4, <2>1 DEF ScanInv, TypeOK, WorldTypeOK, worldVars
<1>8. FreshScan' /\ WalkKept' /\ SteadySmall'
  BY <1>1 DEF ScanInv, FreshScan, WalkKept, SteadySmall, worldVars
<1>9. ListKept'
  BY <1>1, <1>3, <1>5 DEF ScanInv, ListKept, worldVars
<1>10. NothingSteadyMissed'
  BY <1>1 DEF NothingSteadyMissed
<1>11. ReportsSound'
  BY <1>1, <1>5, <1>6 DEF ScanInv, ReportsSound, worldVars
<1>12. SummaryAddsUp'
  BY <1>1, <1>2, <1>4 DEF SummaryAddsUp
<1> QED
  BY <1>7, <1>8, <1>9, <1>10, <1>11, <1>12 DEF ScanInv

(* Every step of the scan, of the user and of other programs.              *)
LEMMA ScanNext == ScanInv /\ [Next]_vars => ScanInv'
<1> SUFFICES ASSUME ScanInv, [Next]_vars PROVE ScanInv'
  OBVIOUS
<1>1. CASE Start
  BY <1>1, StartKeeps
<1>2. CASE Listed
  BY <1>2, ListedKeeps
<1>3. CASE SkipWhitelisted
  <2>1. Current \notin Rogues
    BY <1>3 DEF SkipWhitelisted, Rogues
  <2> QED
    BY <1>3, <2>1, SkipKeeps DEF SkipWhitelisted
<1>4. CASE SkipBig
  <2>1. Current \notin steady
    BY <1>4 DEF SkipBig, ScanInv, SteadySmall
  <2> QED
    BY <1>4, <2>1, SkipKeeps DEF SkipBig
<1>5. CASE JudgeByName
  <2>1. NextFile /\ UNCHANGED skipped
    BY <1>5 DEF JudgeByName
  <2>2. Current \in Paths
    BY <2>1, CurrentFacts
  <2>3. CASE match_rogue_pattern(Current) # NULL
    <3>1. Current \in Rogues
      BY <1>5, <2>2, <2>3 DEF JudgeByName, Rogues, match_rogue_pattern
    <3> QED
      BY <1>5, <2>1, <2>3, <3>1, NameKeeps DEF JudgeByName
  <2>4. CASE match_rogue_pattern(Current) = NULL
    <3>1. Current \notin Rogues
      BY <2>2, <2>4, NoRule
    <3> QED
      BY <1>5, <2>1, <2>4, <3>1, SkipKeeps DEF JudgeByName
  <2> QED
    BY <2>3, <2>4
<1>6. CASE Release
  <2>1. /\ pc = "check" /\ pc' = "return" /\ scanned = total /\ g_enum_files' = <<>>
        /\ UNCHANGED <<worldVars, total, scanned, skipped, threats, reported, conclusion, steady>>
    BY <1>6 DEF Release
  <2>2. TypeOK'
    BY <2>1, EmptyFacts DEF ScanInv, TypeOK, WorldTypeOK, Locations, worldVars
  <2>3. FreshScan' /\ WalkKept' /\ ListKept' /\ SteadySmall'
    BY <2>1 DEF ScanInv, FreshScan, WalkKept, ListKept, SteadySmall, worldVars
  <2>4. NothingSteadyMissed'
    <3>1. Range(g_enum_files) \subseteq Done(scanned)
      BY <2>1 DEF ScanInv, TypeOK, ListKept, Done, Range
    <3> QED
      BY <2>1, <3>1 DEF ScanInv, ListKept, NothingSteadyMissed
  <2>5. ReportsSound' /\ SummaryAddsUp'
    BY <2>1 DEF ScanInv, ReportsSound, SummaryAddsUp, worldVars
  <2> QED
    BY <2>2, <2>3, <2>4, <2>5 DEF ScanInv
<1>7. CASE Conclude
  <2>1. /\ pc = "return" /\ pc' = "done"
        /\ conclusion' = IF threats > 0 THEN "threats" ELSE "clean"
        /\ UNCHANGED <<worldVars, g_enum_files, total, scanned, skipped, threats, reported, steady>>
    BY <1>7 DEF Conclude
  <2>2. TypeOK'
    <3>1. conclusion' \in {"clean", "threats"}
      BY <2>1
    <3> QED
      BY <2>1, <3>1 DEF ScanInv, TypeOK, WorldTypeOK, Locations, worldVars
  <2>3. FreshScan' /\ WalkKept' /\ ListKept' /\ SteadySmall'
    BY <2>1 DEF ScanInv, FreshScan, WalkKept, ListKept, SteadySmall, worldVars
  <2>4. NothingSteadyMissed' /\ ReportsSound'
    BY <2>1 DEF ScanInv, NothingSteadyMissed, ReportsSound, worldVars
  <2>5. SummaryAddsUp'
    <3>1. threats = Len(reported) /\ threats \in Nat /\ reported \in Seq(Paths)
      BY DEF ScanInv, TypeOK, SummaryAddsUp
    <3>2. threats > 0 <=> reported # <<>>
      BY <3>1, EmptySeq
    <3>3. skipped + threats <= scanned /\ scanned = total
      BY <2>1 DEF ScanInv, SummaryAddsUp
    <3> QED
      BY <2>1, <3>1, <3>2, <3>3 DEF SummaryAddsUp
  <2> QED
    BY <2>2, <2>3, <2>4, <2>5 DEF ScanInv
<1>8. CASE CtrlC
  <2>1. /\ pc' = "killed" /\ walk' = NoWalk
        /\ UNCHANGED <<fs, changes, g_enum_files, total, scanned, skipped, threats,
                       reported, conclusion, steady>>
    BY <1>8 DEF CtrlC
  <2>2. TypeOK'
    BY <2>1, NoWalkType DEF ScanInv, TypeOK, WorldTypeOK, WalkType, Locations
  <2>3. FreshScan' /\ WalkKept' /\ ListKept' /\ SteadySmall'
    BY <2>1 DEF ScanInv, FreshScan, WalkKept, ListKept, SteadySmall, NoWalk
  <2>4. NothingSteadyMissed' /\ ReportsSound' /\ SummaryAddsUp'
    BY <2>1 DEF ScanInv, NothingSteadyMissed, ReportsSound, SummaryAddsUp
  <2> QED
    BY <2>2, <2>3, <2>4 DEF ScanInv
<1>9. ASSUME NEW p \in Paths, NEW attr \in Attr, FileChange(p, attr) PROVE ScanInv'
  <2>1. FsChange(p, attr) /\ steady' = steady \ {p} /\ UNCHANGED scanVars
    BY <1>9 DEF FileChange
  <2>2. /\ WorldTypeOK' /\ walk'.open = walk.open
        /\ walk.may \subseteq walk'.may
        /\ walk.must \subseteq walk.may => walk'.must \subseteq walk'.may
    BY <2>1, FsChangeType DEF ScanInv, TypeOK
  <2>3. walk.must \ {p} \subseteq walk'.must
    BY <2>1 DEF FsChange, ScanInv, TypeOK, WorldTypeOK
  <2>4. TypeOK'
    BY <2>1, <2>2 DEF ScanInv, TypeOK, scanVars
  <2>5. FreshScan' /\ WalkKept'
    BY <2>1, <2>2, <2>3 DEF ScanInv, FreshScan, WalkKept, scanVars
  <2>6. ListKept'
    <3>1. Done(scanned)' = Done(scanned)
      BY <2>1 DEF Done, scanVars
    <3> QED
      BY <2>1, <2>2, <3>1 DEF ScanInv, ListKept, scanVars
  <2>7. SteadySmall'
    BY <2>1 DEF ScanInv, SteadySmall, FsChange, TypeOK, WorldTypeOK
  <2>8. NothingSteadyMissed' /\ ReportsSound' /\ SummaryAddsUp'
    BY <2>1, <2>2 DEF ScanInv, NothingSteadyMissed, ReportsSound, SummaryAddsUp, scanVars
  <2> QED
    BY <2>4, <2>5, <2>6, <2>7, <2>8 DEF ScanInv
<1>10. CASE UNCHANGED vars
  <2>1. UNCHANGED <<fs, walk, changes, pc, g_enum_files, total, scanned, skipped, threats,
                    reported, conclusion, steady>>
    BY <1>10 DEF vars, worldVars, scanVars
  <2> QED
    BY <2>1 DEF ScanInv, TypeOK, WorldTypeOK, FreshScan, WalkKept, ListKept, Done,
         SteadySmall, NothingSteadyMissed, ReportsSound, SummaryAddsUp
<1> QED
  BY <1>1, <1>2, <1>3, <1>4, <1>5, <1>6, <1>7, <1>8, <1>9, <1>10 DEF Next, ScanStep

(* The inductive invariant holds in every reachable state.                 *)
LEMMA ScanInvariance == Spec => []ScanInv
BY ScanInit, ScanNext, PTL DEF Spec

(* Every variable keeps its type; the loop of jk100_run_scan stays within  *)
(* its listing.                                                            *)
THEOREM TypeCorrect == Spec => []TypeOK
<1>1. ScanInv => TypeOK
  BY DEF ScanInv
<1> QED
  BY <1>1, ScanInvariance, PTL

(* Whatever other programs do, a file that stood unchanged from the start  *)
(* of the scan and that a rule matches is named before the conclusion.     *)
THEOREM NothingSteadyMissedHolds == Spec => []NothingSteadyMissed
<1>1. ScanInv => NothingSteadyMissed
  BY DEF ScanInv
<1> QED
  BY <1>1, ScanInvariance, PTL

(* A threat line is never repeated and never names a file that was not     *)
(* there, that no rule matches or that is whitelisted.                     *)
THEOREM ReportsSoundHolds == Spec => []ReportsSound
<1>1. ScanInv => ReportsSound
  BY DEF ScanInv
<1> QED
  BY <1>1, ScanInvariance, PTL

(* The counters, the threat lines and the conclusion of main agree.        *)
THEOREM SummaryAddsUpHolds == Spec => []SummaryAddsUp
<1>1. ScanInv => SummaryAddsUp
  BY DEF ScanInv
<1> QED
  BY <1>1, ScanInvariance, PTL

-----------------------------------------------------------------------------
(* The scan keeps the contract of a scan.                                  *)

(* What is left of a list when one more entry was looked at.               *)
LEMMA LeftFacts ==
  ASSUME NEW s \in Seq(Paths), NEW n \in 0 .. Len(s)
  PROVE  /\ SubSeq(s, n + 1, Len(s)) \in Seq(Paths)
         /\ n = 0 => SubSeq(s, n + 1, Len(s)) = s
         /\ n = Len(s) => SubSeq(s, n + 1, Len(s)) = <<>>
         /\ n < Len(s) =>
              /\ SubSeq(s, n + 1, Len(s)) # <<>>
              /\ Head(SubSeq(s, n + 1, Len(s))) = s[n + 1]
              /\ Tail(SubSeq(s, n + 1, Len(s))) = SubSeq(s, n + 2, Len(s))
<1> DEFINE r == SubSeq(s, n + 1, Len(s))
<1>1. r \in Seq(Paths) /\ Len(r) = Len(s) - n /\ \A i \in 1 .. Len(r) : r[i] = s[n + i]
  BY SubSeqProperties
<1>2. n = 0 => r = s
  BY <1>1, SeqEqual
<1>3. n = Len(s) => r = <<>>
  BY <1>1, EmptySeq
<1>4. ASSUME n < Len(s)
      PROVE  r # <<>> /\ Head(r) = s[n + 1] /\ Tail(r) = SubSeq(s, n + 2, Len(s))
  <2> DEFINE t == SubSeq(s, n + 2, Len(s))
  <2>1. Len(r) \in Nat /\ Len(r) > 0 /\ Len(<<>>) = 0
    BY <1>1, <1>4
  <2>2. r # <<>>
    <3> HIDE DEF r
    <3> QED
      BY <2>1
  <2>3. Head(r) = s[n + 1]
    BY <1>1, <2>1
  <2>4. t \in Seq(Paths) /\ Len(t) = Len(s) - n - 1 /\ \A i \in 1 .. Len(t) : t[i] = s[n + 1 + i]
    BY <1>4, SubSeqProperties
  <2>5. Tail(r) \in Seq(Paths) /\ Len(Tail(r)) = Len(r) - 1
        /\ \A i \in 1 .. Len(Tail(r)) : Tail(r)[i] = r[i + 1]
    BY <1>1, <2>2, HeadTailProperties
  <2>6. \A i \in 1 .. Len(t) : Tail(r)[i] = t[i]
    BY <1>1, <2>4, <2>5
  <2>7. Len(Tail(r)) = Len(t)
    BY <1>1, <2>4, <2>5
  <2>8. Tail(r) = t
    <3> HIDE DEF r, t
    <3> QED
      BY <2>4, <2>5, <2>6, <2>7, SeqEqual
  <2> QED
    BY <2>2, <2>3, <2>8
<1> QED
  BY <1>1, <1>2, <1>3, <1>4

(* In the loop, the list of the contract is what is left of the listing.   *)
LEMMA LeftInLoop ==
  ASSUME ScanInv, pc = "check"
  PROVE  /\ Left \in Seq(Paths)
         /\ scanned = total => Left = <<>>
         /\ scanned < total =>
              Left # <<>> /\ Head(Left) = Current
              /\ Tail(Left) = SubSeq(g_enum_files, scanned + 2, total)
<1>1. g_enum_files \in Seq(Paths) /\ total = Len(g_enum_files) /\ scanned \in 0 .. total
  BY DEF ScanInv, TypeOK, ListKept
<1> QED
  BY <1>1, LeftFacts DEF Left, Current

(* A step of the loop takes the head of the list.                          *)
LEMMA LoopTakesHead ==
  ASSUME ScanInv, NextFile
  PROVE  /\ Phase = "judging" /\ Phase' = "judging"
         /\ Left # <<>> /\ Head(Left) = Current /\ Left' = Tail(Left)
<1>1. pc = "check" /\ pc' = "check" /\ scanned < total /\ scanned' = scanned + 1
      /\ UNCHANGED <<g_enum_files, total>> /\ scanned \in Nat
  BY DEF NextFile, ScanInv, TypeOK
<1>2. Left # <<>> /\ Head(Left) = Current /\ Tail(Left) = SubSeq(g_enum_files, scanned + 2, total)
  BY <1>1, LeftInLoop
<1>3. Left' = SubSeq(g_enum_files, scanned + 2, total)
  <2>1. scanned' + 1 = scanned + 2
    BY <1>1
  <2>2. Left' = SubSeq(g_enum_files, scanned' + 1, total)
    BY <1>1 DEF Left
  <2> QED
    BY <2>1, <2>2
<1> QED
  BY <1>1, <1>2, <1>3 DEF Phase

(* A step that changes nothing of a scan's contract.                       *)
LEMMA ContractStutter ==
  ASSUME UNCHANGED <<Phase, Left, reported>>
  PROVE  [Contract!Next]_Contract!vars
BY DEF Contract!vars, Phase, Left

(* The scan starts as the contract does.                                   *)
LEMMA ContractInit == Init => Contract!Init
BY DEF Init, Contract!Init, Phase, Left

(* Every step of the scan is a step of the contract or leaves it alone.    *)
LEMMA ContractNext == ScanInv /\ [Next]_vars => [Contract!Next]_Contract!vars
<1> SUFFICES ASSUME ScanInv, [Next]_vars PROVE [Contract!Next]_Contract!vars
  OBVIOUS
<1>1. CASE Start
  <2>1. UNCHANGED <<Phase, Left, reported>>
    BY <1>1 DEF Start, Phase, Left
  <2> QED
    BY <2>1, ContractStutter
<1>2. CASE Listed
  <2>1. PICK listing \in Listings :
          /\ g_enum_files' = listing
          /\ total' = Len(listing)
          /\ pc' = IF listing = <<>> THEN "return" ELSE "check"
    BY <1>2 DEF Listed
  <2>2. listing \in Seq(Paths)
    BY FileWorldAssumption, ListingSound DEF ScanInv, TypeOK, WorldTypeOK
  <2>3. pc = "walk" /\ scanned' = 0 /\ reported = <<>> /\ reported' = reported
    BY <1>2 DEF Listed, ScanInv, FreshScan
  <2>4. Left' = listing
    <3>1. CASE listing = <<>>
      BY <2>1, <3>1 DEF Left
    <3>2. CASE listing # <<>>
      BY <2>1, <2>2, <2>3, <3>2, LeftFacts DEF Left
    <3> QED
      BY <3>1, <3>2
  <2>5. Phase = "ready" /\ Phase' = "judging"
    BY <2>1, <2>3 DEF Phase
  <2>6. Contract!List
    BY <2>2, <2>3, <2>4, <2>5 DEF Contract!List, Phase, Left
  <2> QED
    BY <2>6 DEF Contract!Next
<1>3. ASSUME NextFile, UNCHANGED reported PROVE Contract!Pass
  BY <1>3, LoopTakesHead DEF Contract!Pass, Phase, Left
<1>4. CASE SkipWhitelisted
  BY <1>3, <1>4 DEF SkipWhitelisted, Contract!Next
<1>5. CASE SkipBig
  BY <1>3, <1>5 DEF SkipBig, Contract!Next
<1>6. CASE JudgeByName
  <2>1. NextFile
    BY <1>6 DEF JudgeByName
  <2>2. CASE match_rogue_pattern(Current) = NULL
    BY <1>3, <1>6, <2>1, <2>2 DEF JudgeByName, Contract!Next
  <2>3. CASE match_rogue_pattern(Current) # NULL
    <3>1. reported' = Append(reported, Current)
      BY <1>6, <2>3 DEF JudgeByName
    <3>2. Current \in Rogues
      BY <1>6, <2>1, <2>3, CurrentFacts DEF JudgeByName, Rogues, match_rogue_pattern
    <3>3. Contract!Name
      BY <2>1, <3>1, <3>2, LoopTakesHead DEF Contract!Name, Phase, Left
    <3> QED
      BY <3>3 DEF Contract!Next
  <2> QED
    BY <2>2, <2>3
<1>7. CASE Release
  <2>1. pc = "check" /\ pc' = "return" /\ scanned = total /\ reported' = reported
    BY <1>7 DEF Release
  <2>2. UNCHANGED <<Phase, Left, reported>>
    <3>1. Left = <<>>
      BY <2>1, LeftInLoop
    <3> QED
      BY <2>1, <3>1 DEF Phase, Left
  <2> QED
    BY <2>2, ContractStutter
<1>8. CASE Conclude
  <2>1. Contract!Conclude
    BY <1>8 DEF Conclude, Contract!Conclude, Phase, Left
  <2> QED
    BY <2>1 DEF Contract!Next
<1>9. CASE CtrlC
  <2>1. pc \in {"idle", "walk", "check", "return"}
    BY <1>9 DEF CtrlC, ScanInv, TypeOK, Locations
  <2>2. Contract!Interrupt
    BY <1>9, <2>1 DEF CtrlC, Contract!Interrupt, Contract!End, Phase, Left
  <2> QED
    BY <2>2 DEF Contract!Next
<1>10. ASSUME NEW p \in Paths, NEW attr \in Attr, FileChange(p, attr)
       PROVE  [Contract!Next]_Contract!vars
  <2>1. UNCHANGED <<Phase, Left, reported>>
    BY <1>10 DEF FileChange, scanVars, Phase, Left
  <2> QED
    BY <2>1, ContractStutter
<1>11. CASE UNCHANGED vars
  <2>1. UNCHANGED <<Phase, Left, reported>>
    BY <1>11 DEF vars, scanVars, Phase, Left
  <2> QED
    BY <2>1, ContractStutter
<1> QED
  BY <1>1, <1>2, <1>4, <1>5, <1>6, <1>7, <1>8, <1>9, <1>10, <1>11 DEF Next, ScanStep

(* jk100_run_scan implements the contract of a scan, on every tree: the    *)
(* user alone ends it early, and no file keeps it from its conclusion.     *)
THEOREM ScanKeepsContract == Spec => ContractSpec
<1> QED
  BY ContractInit, ContractNext, ScanInvariance, PTL DEF Spec, ContractSpec, Contract!Spec

=============================================================================
