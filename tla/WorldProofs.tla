----------------------------- MODULE WorldProofs -----------------------------
(***************************************************************************)
(* Facts about the verdict on one file and about the enumeration, used in  *)
(* the proofs of the components.                                           *)
(***************************************************************************)
EXTENDS FileWorld, FiniteSetTheorems, TLAPS

(* A detection names a rule's file outside the whitelist and within the    *)
(* size limit.                                                             *)
LEMMA VerdictSound ==
  ASSUME NEW p \in Paths, NEW attr \in Attr, check_single_file(p, attr) # NULL
  PROVE  p \in Rogues /\ attr # "big"
BY DEF check_single_file, match_rogue_pattern, Rogues

(* A listing names each file once, and only files that were there at some  *)
(* moment of the enumeration.                                              *)
LEMMA ListingSound ==
  ASSUME FileWorldAssumption, walk.may \subseteq Paths, NEW listing \in Listings
  PROVE  /\ listing \in Seq(Paths)
         /\ IsInjective(listing)
         /\ Range(listing) \subseteq walk.may
<1>1. PICK S \in SUBSET walk.may : listing \in SetToSeqs(S)
  BY DEF Listings
<1>2. IsFiniteSet(S) /\ S \subseteq Paths
  BY <1>1, FS_Subset DEF FileWorldAssumption
<1>3. Cardinality(S) \in Nat
  BY <1>2, FS_CardinalityType
<1>4. /\ listing \in [1 .. Cardinality(S) -> S]
      /\ \A i, j \in 1 .. Cardinality(S) : i # j => listing[i] # listing[j]
  BY <1>1 DEF SetToSeqs
<1>5. listing \in Seq(Paths)
  BY <1>2, <1>3, <1>4
<1>6. IsInjective(listing)
  BY <1>4 DEF IsInjective
<1>7. Range(listing) \subseteq walk.may
  BY <1>1, <1>4 DEF Range
<1> QED
  BY <1>5, <1>6, <1>7

(* A listing leaves out no file that was there throughout.                 *)
LEMMA ListingComplete ==
  ASSUME FileWorldAssumption, walk.may \subseteq Paths, NEW listing \in Listings
  PROVE  /\ walk.must \subseteq Range(listing)
         /\ Len(listing) \in 0 .. Cardinality(Paths)
<1>1. PICK S \in SUBSET walk.may : walk.must \subseteq S /\ listing \in SetToSeqs(S)
  BY DEF Listings
<1>2. IsFiniteSet(S) /\ Cardinality(S) <= Cardinality(Paths)
  BY <1>1, FS_Subset DEF FileWorldAssumption
<1>3. Cardinality(S) \in Nat /\ Cardinality(Paths) \in Nat
  BY <1>2, FS_CardinalityType DEF FileWorldAssumption
<1> DEFINE D == 1 .. Cardinality(S)
<1>4. listing \in Injection(D, S)
  BY <1>1 DEF SetToSeqs, Injection, IsInjective
<1>5. Cardinality(D) = Cardinality(S)
  BY <1>3, FS_Interval
<1>6. listing \in Surjection(D, S)
  <2> HIDE DEF D
  <2> QED
    BY <1>2, <1>4, <1>5, FS_Injection
<1>7. \A q \in S : \E i \in D : listing[i] = q
  BY <1>6 DEF Surjection
<1>8. DOMAIN listing = D
  BY <1>4 DEF Injection
<1>9. S \subseteq Range(listing)
  BY <1>7, <1>8 DEF Range
<1>10. Len(listing) = Cardinality(S)
  BY <1>3, <1>4, <1>8 DEF Injection
<1> QED
  BY <1>1, <1>2, <1>3, <1>9, <1>10

-----------------------------------------------------------------------------
(* The steps of the tree and of the enumeration keep the types.             *)

WalkType == [open : BOOLEAN, must : SUBSET Paths, may : SUBSET Paths]

(* No enumeration is under way.                                            *)
LEMMA NoWalkType == NoWalk \in WalkType
BY DEF NoWalk, WalkType

(* The initial tree has its type.                                          *)
LEMMA WorldInitType == WorldInit => WorldTypeOK
BY NoWalkType, FileWorldAssumption DEF WorldInit, WorldTypeOK, WalkType

(* The enumeration begins with what is there.                              *)
LEMMA OpenWalkType ==
  OpenWalk => walk' \in WalkType /\ walk'.open /\ walk'.must = walk'.may
BY DEF OpenWalk, Present, WalkType

(* The enumeration returns and keeps what may be listed.                   *)
LEMMA CloseWalkType ==
  ASSUME walk \in WalkType, CloseWalk
  PROVE  /\ walk' \in WalkType
         /\ ~walk'.open /\ walk'.must = {} /\ walk'.may = walk.may
BY DEF CloseWalk, WalkType

(* Another program changes the tree, and the enumeration sees it or not.   *)
LEMMA FsChangeType ==
  ASSUME WorldTypeOK, NEW p \in Paths, NEW attr \in Attr, FsChange(p, attr)
  PROVE  /\ WorldTypeOK'
         /\ walk'.open = walk.open
         /\ walk.may \subseteq walk'.may
         /\ ~walk.open => walk' = walk
         /\ walk.must \subseteq walk.may => walk'.must \subseteq walk'.may
<1>1. fs' \in [Paths -> Attr] /\ changes' \in 0 .. MaxChanges
  BY FileWorldAssumption DEF WorldTypeOK, FsChange
<1>2. CASE ~walk.open
  BY <1>1, <1>2 DEF WorldTypeOK, FsChange
<1>3. CASE walk.open /\ attr = "absent"
  <2>1. walk' = [walk EXCEPT !.must = @ \ {p}]
    BY <1>3 DEF FsChange
  <2> QED
    BY <1>1, <1>3, <2>1 DEF WorldTypeOK
<1>4. CASE walk.open /\ attr # "absent"
  <2>1. walk' = [walk EXCEPT !.may = @ \cup {p}]
    BY <1>4 DEF FsChange
  <2> QED
    BY <1>1, <1>4, <2>1 DEF WorldTypeOK
<1> QED
  BY <1>2, <1>3, <1>4

=============================================================================
