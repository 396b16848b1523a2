---------------------------- MODULE RestoreProofs ----------------------------
(***************************************************************************)
(* A restore loses nothing and says what it did, and a backup can be       *)
(* restored, whatever the archive, the trees, the edits of others and the  *)
(* faults are.                                                             *)
(***************************************************************************)
EXTENDS Restore, FiniteSetTheorems, SequenceTheorems, WellFoundedInduction, TLAPS

-------------------------------------------------------------------------------
(* Parts of sequences.                                                     *)

(* The position of k among those chosen.                                   *)
Rank(chosen, k) == Cardinality({j \in chosen : j <= k})

LEMMA FiniteChosen ==
  ASSUME NEW n \in Nat, NEW chosen \in SUBSET (1..n)
  PROVE  IsFiniteSet(chosen) /\ Cardinality(chosen) \in Nat
<1>1. IsFiniteSet(1..n)
  BY FS_Interval
<1>2. IsFiniteSet(chosen)
  BY <1>1, FS_Subset
<1> QED
  BY <1>2, FS_CardinalityType

(* Of two that are chosen the later one has the greater rank.              *)
LEMMA RankGrows ==
  ASSUME NEW n \in Nat, NEW chosen \in SUBSET (1..n), NEW k \in chosen
  PROVE  /\ Rank(chosen, k) \in 1..Cardinality(chosen)
         /\ \A l \in chosen : k < l => Rank(chosen, k) < Rank(chosen, l)
<1> DEFINE upTo(x) == {j \in chosen : j <= x}
<1>1. IsFiniteSet(chosen) /\ Cardinality(chosen) \in Nat
  BY FiniteChosen
<1>2. ASSUME NEW x \in chosen
      PROVE  /\ upTo(x) \in SUBSET chosen /\ IsFiniteSet(upTo(x)) /\ Cardinality(upTo(x)) \in Nat
             /\ Cardinality(upTo(x)) <= Cardinality(chosen)
  <2>1. upTo(x) \in SUBSET chosen
    OBVIOUS
  <2> HIDE DEF upTo
  <2> QED
    BY <1>1, <2>1, FS_Subset, FS_CardinalityType
<1>3. Cardinality(upTo(k)) >= 1
  <2>1. k \in upTo(k)
    OBVIOUS
  <2> HIDE DEF upTo
  <2> QED
    BY <1>2, <2>1, FS_EmptySet
<1>4. ASSUME NEW l \in chosen, k < l PROVE Cardinality(upTo(k)) < Cardinality(upTo(l))
  <2>1. k \in Nat /\ l \in Nat /\ \A j \in chosen : j \in Nat
    OBVIOUS
  <2>2. upTo(k) \in SUBSET upTo(l)
    <3>1. \A j \in chosen : j <= k => j <= l
      BY <1>4, <2>1
    <3> QED
      BY <3>1
  <2>3. l \in upTo(l) /\ l \notin upTo(k)
    BY <1>4, <2>1
  <2> HIDE DEF upTo
  <2>4. upTo(k) # upTo(l)
    BY <2>3
  <2>5. Cardinality(upTo(k)) <= Cardinality(upTo(l)) /\ Cardinality(upTo(k)) # Cardinality(upTo(l))
    BY <1>2, <2>2, <2>4, FS_Subset
  <2> QED
    BY <1>2, <2>5
<1>5. \A x : Rank(chosen, x) = Cardinality(upTo(x))
  BY DEF Rank
<1> HIDE DEF upTo
<1> QED
  BY <1>1, <1>2, <1>3, <1>4, <1>5

(* Some position of those chosen has each rank.                            *)
LEMMA RankTaken ==
  ASSUME NEW n \in Nat, NEW chosen \in SUBSET (1..n), NEW i \in 1..Cardinality(chosen)
  PROVE  \E k \in chosen : Rank(chosen, k) = i
<1> SUFFICES ASSUME \A k \in chosen : Rank(chosen, k) # i PROVE FALSE
  OBVIOUS
<1> DEFINE size == Cardinality(chosen)
           others == (1..size) \ {i}
           rank == [k \in chosen |-> Rank(chosen, k)]
<1>1. IsFiniteSet(chosen) /\ size \in Nat
  BY FiniteChosen
<1>2. IsFiniteSet(others) /\ Cardinality(others) = size - 1
  <2> HIDE DEF size
  <2>1. IsFiniteSet(1..size) /\ Cardinality(1..size) = size
    BY <1>1, FS_Interval
  <2>2. i \in 1..size
    BY DEF size
  <2> QED
    BY <2>1, <2>2, FS_RemoveElement
<1>3. rank \in [chosen -> others]
  BY RankGrows
<1>4. \A k, l \in chosen : k # l => rank[k] # rank[l]
  <2>1. ASSUME NEW k \in chosen, NEW l \in chosen, k < l PROVE rank[k] # rank[l]
    <3>1. Rank(chosen, k) < Rank(chosen, l) /\ Rank(chosen, k) \in 1..size /\ Rank(chosen, l) \in 1..size
      BY <2>1, RankGrows
    <3> HIDE DEF size
    <3> QED
      BY <1>1, <3>1
  <2>2. \A k, l \in chosen : k # l => k < l \/ l < k
    OBVIOUS
  <2> HIDE DEF rank
  <2> QED
    BY <2>1, <2>2
<1>5. IsFiniteSet(chosen) /\ Cardinality(others) < Cardinality(chosen)
  <2> HIDE DEF others
  <2> QED
    BY <1>1, <1>2
<1> HIDE DEF size, others, rank
<1> QED
  BY <1>2, <1>3, <1>4, <1>5, FS_PigeonHole

(* A part has elements of the sequence, from different positions among     *)
(* those chosen.                                                           *)
PartOf(s, chosen, at) ==
  /\ at \in [1..Cardinality(chosen) -> chosen]
  /\ \A i, j \in 1..Cardinality(chosen) : at[i] = at[j] => i = j
  /\ \A i \in 1..Cardinality(chosen) : Part(s, chosen)[i] = s[at[i]]

LEMMA PartIsPart ==
  ASSUME NEW S, NEW s \in Seq(S), NEW chosen \in SUBSET DOMAIN s
  PROVE  /\ Part(s, chosen) \in Seq(S)
         /\ DOMAIN Part(s, chosen) = 1..Cardinality(chosen)
         /\ \E at : PartOf(s, chosen, at)
<1> DEFINE size == Cardinality(chosen)
           at == [i \in 1..size |-> CHOOSE k \in chosen : Rank(chosen, k) = i]
<1>1. PICK n \in Nat : DOMAIN s = 1..n /\ \A k \in 1..n : s[k] \in S
  BY LenProperties, ElementOfSeq
<1>2. size \in Nat
  BY <1>1, FiniteChosen
<1>3. \A i \in 1..size : at[i] \in chosen /\ Rank(chosen, at[i]) = i
  BY <1>1, RankTaken
<1>4. Part(s, chosen) = [i \in 1..size |-> s[at[i]]]
  BY DEF Part, Rank
<1> HIDE DEF at, size
<1>5. \A i \in 1..size : Part(s, chosen)[i] = s[at[i]] /\ s[at[i]] \in S
  BY <1>1, <1>3, <1>4
<1>6. Part(s, chosen) \in [1..size -> S]
  BY <1>4, <1>5
<1>7. Part(s, chosen) \in Seq(S)
  <2>1. Part(s, chosen) \in UNION {[1..m -> S] : m \in Nat}
    BY <1>2, <1>6
  <2> QED
    BY <2>1, SeqDef, Zenon
<1>8. PartOf(s, chosen, at)
  <2>1. at \in [1..size -> chosen]
    BY <1>3 DEF at
  <2>2. \A i, j \in 1..size : at[i] = at[j] => i = j
    BY <1>3
  <2> QED
    BY <1>5, <2>1, <2>2 DEF PartOf, size
<1> QED
  BY <1>6, <1>7, <1>8 DEF size

(* No name twice.                                                          *)
Distinct(s) == \A i, j \in DOMAIN s : s[i].name = s[j].name => i = j

LEMMA NoNameTwice ==
  ASSUME NEW s \in Seq(ArchiveEntry), Cardinality(NamesIn(s)) = Len(s)
  PROVE  Distinct(s)
<1> SUFFICES ASSUME NEW i \in DOMAIN s, NEW j \in DOMAIN s, s[i].name = s[j].name, i # j
             PROVE  FALSE
  BY DEF Distinct
<1> DEFINE n == Len(s)
           others == (1..n) \ {i}
           name == [k \in 1..n |-> s[k].name]
           at == [x \in NamesIn(s) |-> CHOOSE k \in others : s[k].name = x]
<1>1. n \in Nat /\ DOMAIN s = 1..n
  BY LenProperties
<1>2. IsFiniteSet(1..n) /\ Cardinality(1..n) = n
  <2> HIDE DEF n
  <2> QED
    BY <1>1, FS_Interval
<1>3. IsFiniteSet(others) /\ Cardinality(others) = n - 1
  <2> HIDE DEF n
  <2> QED
    BY <1>1, <1>2, FS_RemoveElement
<1>4. IsFiniteSet(NamesIn(s))
  <2>1. name \in Surjection(1..n, NamesIn(s))
    <3>1. name \in [1..n -> NamesIn(s)] /\ \A x \in NamesIn(s) : \E k \in 1..n : name[k] = x
      BY <1>1 DEF NamesIn
    <3> QED
      BY <3>1 DEF Surjection
  <2> HIDE DEF name, n
  <2> QED
    BY <1>2, <2>1, FS_Surjection
<1>5. \A x \in NamesIn(s) : at[x] \in others /\ s[at[x]].name = x
  <2>1. ASSUME NEW x \in NamesIn(s) PROVE \E k \in others : s[k].name = x
    <3>1. PICK k \in 1..n : s[k].name = x
      BY <1>1 DEF NamesIn
    <3> QED
      BY <1>1, <3>1
  <2> HIDE DEF others
  <2> QED
    BY <2>1
<1>6. at \in [NamesIn(s) -> others] /\ \A x, y \in NamesIn(s) : x # y => at[x] # at[y]
  BY <1>5
<1>7. Cardinality(NamesIn(s)) = n
  OBVIOUS
<1> HIDE DEF at, others, name, n
<1>8. Cardinality(others) < Cardinality(NamesIn(s))
  BY <1>1, <1>3, <1>7
<1> QED
  BY <1>3, <1>4, <1>6, <1>8, FS_PigeonHole

(* A part of a sequence without a name twice is one.                       *)
LEMMA PartDistinct ==
  ASSUME NEW s \in Seq(ArchiveEntry), NEW chosen \in SUBSET DOMAIN s
  PROVE  /\ Part(s, chosen) \in Seq(ArchiveEntry)
         /\ \A i \in DOMAIN Part(s, chosen) : \E k \in chosen : Part(s, chosen)[i] = s[k]
         /\ Distinct(s) => Distinct(Part(s, chosen))
<1>1. /\ Part(s, chosen) \in Seq(ArchiveEntry)
      /\ DOMAIN Part(s, chosen) = 1..Cardinality(chosen)
      /\ \E at : PartOf(s, chosen, at)
  BY PartIsPart
<1>2. PICK at : PartOf(s, chosen, at)
  BY <1>1
<1>3. \A i \in DOMAIN Part(s, chosen) : at[i] \in chosen /\ Part(s, chosen)[i] = s[at[i]]
  BY <1>1, <1>2 DEF PartOf
<1>4. ASSUME Distinct(s) PROVE Distinct(Part(s, chosen))
  BY <1>1, <1>2, <1>3, <1>4 DEF Distinct, PartOf
<1> QED
  BY <1>1, <1>3, <1>4

LEMMA ArchiveKnown ==
  ASSUME NEW a \in Archive
  PROVE  a.entries \in Seq(ArchiveEntry) /\ Payload(a) \in Seq(ArchiveEntry)
<1>1. a.entries \in Seq(ArchiveEntry)
  BY DEF Archive
<1>2. {i \in DOMAIN a.entries : a.entries[i].name # Manifest} \in SUBSET DOMAIN a.entries
  OBVIOUS
<1> QED
  BY <1>1, <1>2, PartDistinct DEF Payload

(* A valid archive has no name twice.                                      *)
LEMMA ValidDistinct ==
  ASSUME NEW a \in Archive, validateArchive(a)
  PROVE  Distinct(Payload(a))
<1>1. a.entries \in Seq(ArchiveEntry)
  BY DEF Archive
<1>2. Distinct(a.entries)
  BY <1>1, NoNameTwice DEF validateArchive
<1>3. {i \in DOMAIN a.entries : a.entries[i].name # Manifest} \in SUBSET DOMAIN a.entries
  OBVIOUS
<1> QED
  BY <1>1, <1>2, <1>3, PartDistinct DEF Payload

(* A second reading of the same shape has the same names.                  *)
LEMMA SameShapeDistinct ==
  ASSUME NEW s \in Seq(ArchiveEntry), NEW t \in Seq(ArchiveEntry), Distinct(s), Shape(t) = Shape(s)
  PROVE  Distinct(t)
<1>1. DOMAIN s = DOMAIN t
  BY DEF Shape
<1>2. \A i \in DOMAIN t : t[i].name = s[i].name
  <2> SUFFICES ASSUME NEW i \in DOMAIN t PROVE t[i].name = s[i].name
    OBVIOUS
  <2>1. Shape(t)[i] = Shape(s)[i]
    OBVIOUS
  <2>2. /\ Shape(t)[i] = <<t[i].name, t[i].size, t[i].type = "dir">>
        /\ Shape(s)[i] = <<s[i].name, s[i].size, s[i].type = "dir">>
    BY <1>1 DEF Shape
  <2> QED
    BY <2>1, <2>2
<1> QED
  BY <1>1, <1>2 DEF Distinct

-------------------------------------------------------------------------------
(* The inductive invariant.  A file that the restore has in hand is moved  *)
(* aside, or there was none; every other is where it was, but for the      *)
(* directories that were made, until all files are in place.               *)

Pcs == {"idle", "check", "validate", "extract", "preflight", "mkdir", "look", "aside", "place",
        "undo", "return", "unmake", "forget", "ended"}
Early == {"idle", "check", "validate", "extract", "preflight"}
Outcomes == {"none", "refused", "failed", "incomplete", "restored", "died"}

RestoreState ==
  [pc : Pcs, force : BOOLEAN, opened : Archive \cup {Absent}, entries : Seq(ArchiveEntry),
   plan : Seq(ArchiveEntry), todo : SUBSET RestoreNames, made : Seq(RestoreNames), at : Nat, had : SUBSET RestoreNames,
   intact : BOOLEAN, outcome : Outcomes]
BackupState ==
  [pc : {"idle", "read", "ended", "written"}, secrets : BOOLEAN, unread : Seq(RestoreNames),
   got : SUBSET (RestoreNames \X Content)]

RestoreTyped ==
  /\ files \in [RestoreNames -> Standing] /\ before \in [RestoreNames -> Standing]
  /\ stage \in [RestoreNames -> Standing] /\ aside \in [RestoreNames -> Standing]
  /\ archive \in Archive /\ touched \in SUBSET RestoreNames
  /\ restore \in RestoreState /\ backup \in BackupState

(* The positions of the files that the restore has in hand.                *)
Handled ==
  {i \in 1..restore.at : \/ restore.pc \in {"look", "aside"} /\ i < restore.at
                         \/ restore.pc \in {"place", "undo", "return"}}
InHand(n) == \E i \in Handled : PlannedFiles[i].name = n
Made(d) == \E i \in DOMAIN restore.made : restore.made[i] = d
Orig(n) == IF Made(n) THEN "dir" ELSE before[n]

(* A directory that was not there, kept as another program wrote in it.    *)
LeftFor(n) == before[n] = Absent /\ \E f \in touched : n \in Above[f]
Saved(n) == before[n] \in Content => files[n] = before[n] \/ aside[n] = before[n]
Rooted(t) == \A n \in RestoreNames : t[n] # Absent => \A d \in Above[n] : t[d] # Absent

PlanKnown ==
  /\ RestoreAt("extract") => Distinct(restore.entries) /\ restore.opened \in Archive
  /\ Distinct(restore.plan)
  /\ \A i \in DOMAIN restore.plan : restore.plan[i].name \in RestoreNames

Positions ==
  /\ restore.at <= Len(PlannedFiles)
  /\ restore.pc \in {"look", "aside", "place", "return"} => restore.at > 0
  /\ restore.pc \in Early \cup {"mkdir", "unmake"} => restore.at = 0

Staged ==
  restore.pc \in {"preflight", "mkdir", "look", "aside", "place"} =>
    \A i \in DOMAIN PlannedFiles : i >= restore.at => stage[PlannedFiles[i].name] = PlannedFiles[i].content

PlacedSoFar ==
  /\ restore.pc \in {"look", "aside", "place"} =>
       \A i \in DOMAIN PlannedFiles :
         i < restore.at => PlannedFiles[i].name \in touched \/ files[PlannedFiles[i].name] = PlannedFiles[i].content
  /\ RestoreAt("forget") => AllPlaced

(* No directory is made before one that it lies in, or twice.              *)
MadeInOrder ==
  /\ restore.pc \in Early => restore.made = <<>>
  /\ \A i, j \in DOMAIN restore.made :
       i < j => /\ restore.made[i] # restore.made[j]
                /\ restore.made[j] \notin Above[restore.made[i]]
  /\ RestoreAt("mkdir") =>
       \A i \in DOMAIN restore.made :
         /\ restore.made[i] \notin restore.todo
         /\ \A d \in restore.todo : d \notin Above[restore.made[i]]

MadeNew ==
  \A n \in RestoreNames : Made(n) /\ n \notin touched => before[n] = Absent

Forward ==
  /\ restore.pc \in Early \cup {"mkdir", "look", "aside", "place"} => restore.intact
  /\ restore.pc \in Early \cup {"mkdir", "look", "aside", "place"} =>
       \A n \in restore.had : InHand(n)

KeptName(n) ==
  /\ Saved(n)
  /\ InHand(n) /\ n \in restore.had => aside[n] = Orig(n)
  /\ InHand(n) /\ n \notin restore.had => Orig(n) = Absent /\ aside[n] = Absent
  /\ restore.intact /\ ~InHand(n) => aside[n] = Absent
  /\ restore.intact /\ ~InHand(n) => \/ files[n] = Orig(n)
                                     \/ RestoreAt("unmake") /\ LeftFor(n)
  /\ restore.intact /\ RestoreAt("return") /\ n = Current => files[n] = Absent

Kept == restore.pc \notin {"forget", "ended"} => \A n \in RestoreNames \ touched : KeptName(n)

Ended ==
  /\ RestoreAt("ended") => (\A n \in RestoreNames \ touched : Saved(n)) \/ AllPlaced
  /\ RestoreAt("ended") \/ restore.outcome = "none"

BeforeRooted ==
  Rooted(before) /\ (RestoreAt("idle") => Rooted(files) /\ \A n \in RestoreNames : aside[n] = Absent)

RestoreInv ==
  /\ RestoreTyped /\ PlanKnown /\ Positions /\ Staged /\ PlacedSoFar /\ MadeInOrder /\ MadeNew
  /\ Forward /\ Kept /\ Ended /\ BeforeRooted /\ AllOrNothing

(* The files of a plan that is known are known.                            *)
FilesOf(plan) == Part(plan, {i \in DOMAIN plan : plan[i].type = "file"})

LEMMA FilesKnown ==
  ASSUME RestoreTyped, PlanKnown
  PROVE  /\ PlannedFiles \in Seq(ArchiveEntry) /\ Distinct(PlannedFiles)
         /\ DOMAIN PlannedFiles = 1..Len(PlannedFiles) /\ Len(PlannedFiles) \in Nat
         /\ \A i \in DOMAIN PlannedFiles : PlannedFiles[i].name \in RestoreNames
<1> DEFINE chosen == {i \in DOMAIN restore.plan : restore.plan[i].type = "file"}
<1>1. restore.plan \in Seq(ArchiveEntry) /\ chosen \in SUBSET DOMAIN restore.plan
  BY DEF RestoreTyped, RestoreState
<1> HIDE DEF chosen
<1>2. /\ PlannedFiles \in Seq(ArchiveEntry) /\ Distinct(PlannedFiles)
      /\ \A i \in DOMAIN PlannedFiles : \E k \in chosen : PlannedFiles[i] = restore.plan[k]
  BY <1>1, PartDistinct DEF PlannedFiles, PlanKnown, chosen
<1>3. \A i \in DOMAIN PlannedFiles : PlannedFiles[i].name \in RestoreNames
  BY <1>1, <1>2 DEF PlanKnown
<1>4. DOMAIN PlannedFiles = 1..Len(PlannedFiles) /\ Len(PlannedFiles) \in Nat
  BY <1>2, LenProperties
<1> QED
  BY <1>2, <1>3, <1>4

LEMMA NothingDistinct == Distinct(<<>>) /\ DOMAIN <<>> = {} /\ \A S : <<>> \in Seq(S)
<1>1. DOMAIN <<>> = {}
  BY EmptySeq
<1> QED
  BY <1>1, EmptySeq DEF Distinct

(* A directory lies at less depth than what lies in it.                    *)
LEMMA DepthGrows ==
  ASSUME NEW n \in RestoreNames, NEW d \in Above[n] PROVE d \in RestoreNames /\ Depth(d) \in Nat /\ Depth(n) \in Nat /\ Depth(d) < Depth(n)
<1>1. /\ Above[n] \in SUBSET Project /\ IsFiniteSet(Project) /\ Project \subseteq RestoreNames
  BY RestoreAssumption DEF RestoreNames
<1>2. d \in RestoreNames /\ Above[d] \in SUBSET Above[n] /\ d \notin Above[d]
  BY <1>1, RestoreAssumption
<1>3. IsFiniteSet(Above[n]) /\ Cardinality(Above[n]) \in Nat
  BY <1>1, FS_Subset, FS_CardinalityType
<1>4. /\ IsFiniteSet(Above[d]) /\ Cardinality(Above[d]) \in Nat
      /\ Cardinality(Above[d]) <= Cardinality(Above[n])
      /\ Cardinality(Above[n]) = Cardinality(Above[d]) => Above[n] = Above[d]
  BY <1>2, <1>3, FS_Subset, FS_CardinalityType
<1> QED
  BY <1>2, <1>3, <1>4 DEF Depth

(* A restore that has not begun has nothing in hand.                       *)
LEMMA FreshKept ==
  ASSUME RestoreTyped, restore.plan = <<>>, restore.made = <<>>, restore.had = {}, restore.at = 0,
         restore.intact, restore.outcome = "none", restore.pc \in {"idle", "check", "validate"},
         before = files, Rooted(files), \A n \in RestoreNames : aside[n] = Absent
  PROVE  RestoreInv
<1>1. PlanKnown
  BY NothingDistinct DEF PlanKnown, RestoreAt
<1>2. Positions
  BY <1>1, FilesKnown DEF Positions, Early
<1>3. \A n \in RestoreNames : ~Made(n) /\ ~InHand(n)
  BY NothingDistinct DEF Made, InHand, Handled
<1>4. Staged /\ PlacedSoFar /\ MadeInOrder /\ MadeNew /\ Forward
  BY <1>3, NothingDistinct DEF Staged, PlacedSoFar, MadeInOrder, MadeNew, Forward, RestoreAt, Early
<1>5. Kept
  BY <1>3 DEF Kept, KeptName, Saved, Orig, RestoreAt
<1>6. Ended /\ BeforeRooted /\ AllOrNothing
  BY DEF Ended, BeforeRooted, AllOrNothing, RestoreAt
<1> QED
  BY <1>1, <1>2, <1>4, <1>5, <1>6 DEF RestoreInv

LEMMA RestoreInitInv == RestoreInit => RestoreInv
<1> SUFFICES ASSUME RestoreInit PROVE RestoreInv
  OBVIOUS
<1>1. RestoreTyped
  <2>1. restore = AtRest /\ AtRest \in RestoreState
    BY NothingDistinct DEF RestoreInit, AtRest, RestoreState, Pcs, Outcomes
  <2>2. backup \in BackupState
    BY NothingDistinct DEF RestoreInit, BackupState
  <2>3. files \in [RestoreNames -> Standing] /\ before \in [RestoreNames -> Standing] /\ archive \in Archive
    BY RestoreAssumption DEF RestoreInit
  <2>4. stage \in [RestoreNames -> Standing] /\ aside \in [RestoreNames -> Standing] /\ touched \in SUBSET RestoreNames
    BY DEF RestoreInit, Standing
  <2> QED
    BY <2>1, <2>2, <2>3, <2>4 DEF RestoreTyped
<1>2. Rooted(files) /\ before = files /\ \A n \in RestoreNames : aside[n] = Absent
  BY RestoreAssumption DEF RestoreInit, Rooted
<1> QED
  BY <1>1, <1>2, FreshKept DEF RestoreInit, AtRest

-------------------------------------------------------------------------------
(* What the steps do.                                                      *)

(* A plan and what was made stay what they are.                            *)
LEMMA SameInHand ==
  ASSUME restore'.plan = restore.plan, restore'.made = restore.made, before' = before
  PROVE  /\ PlannedFiles' = PlannedFiles
         /\ \A n : (Made(n)' <=> Made(n)) /\ Orig(n)' = Orig(n)
BY DEF PlannedFiles, Made, Orig

LEMMA EarlyUntouched ==
  ASSUME RestoreInv, restore.pc \in Early
  PROVE  \A n \in RestoreNames \ touched : files[n] = before[n]
<1>1. \A n : ~Made(n)
  BY NothingDistinct DEF RestoreInv, MadeInOrder, Made
<1>2. \A n : ~InHand(n)
  BY DEF InHand, Handled, Early
<1> QED
  BY <1>1, <1>2 DEF RestoreInv, Kept, KeptName, Forward, Orig, Early, RestoreAt

(* A restore that ends leaves the trees as they are.                       *)
LEMMA EndKeeps ==
  ASSUME RestoreInv, ~RestoreAt("ended"), NEW outcome \in Outcomes \ {"none"},
         restore' = [restore EXCEPT !.pc = "ended", !.outcome = outcome],
         UNCHANGED <<files, aside, before, touched, archive, backup>>, stage' \in [RestoreNames -> Standing],
         outcome = "restored" => RestoreAt("forget"),
         outcome \in {"refused", "failed"} =>
           \A n \in RestoreNames \ touched : files[n] = before[n] \/ \E f \in touched : n \in Above[f]
  PROVE  RestoreInv'
<1>1. RestoreTyped /\ restore \in RestoreState
  BY DEF RestoreInv, RestoreTyped
<1>2. /\ restore'.pc = "ended" /\ restore'.outcome = outcome /\ restore'.plan = restore.plan
      /\ restore'.made = restore.made /\ restore'.at = restore.at
      /\ restore' \in RestoreState
  BY <1>1 DEF RestoreState, Pcs
<1>3. RestoreTyped'
  BY <1>1, <1>2 DEF RestoreTyped
<1>4. PlannedFiles' = PlannedFiles /\ \A n : (Made(n)' <=> Made(n)) /\ Orig(n)' = Orig(n)
  BY <1>2, SameInHand
<1>5. AllPlaced' <=> AllPlaced
  BY <1>4 DEF AllPlaced
<1>6. PlanKnown' /\ Positions' /\ Staged' /\ PlacedSoFar' /\ MadeInOrder' /\ MadeNew' /\ Forward'
      /\ Kept' /\ BeforeRooted'
  BY <1>2, <1>4 DEF RestoreInv, PlanKnown, Positions, Staged, PlacedSoFar, MadeInOrder, MadeNew,
                    Forward, Kept, BeforeRooted, RestoreAt, Early
<1>7. (\A n \in RestoreNames \ touched : Saved(n)) \/ AllPlaced
  BY DEF RestoreInv, Kept, KeptName, PlacedSoFar, RestoreAt
<1>8. Ended'
  BY <1>2, <1>5, <1>7 DEF Ended, RestoreAt, Saved
<1>9. AllOrNothing'
  BY <1>2, <1>5 DEF AllOrNothing, RestoreInv, PlacedSoFar
<1> QED
  BY <1>3, <1>6, <1>8, <1>9 DEF RestoreInv

LEMMA BeginRestoreKeeps == ASSUME RestoreInv, NEW force \in BOOLEAN, BeginRestore(force) PROVE RestoreInv'
<1> DEFINE pc == IF force THEN "validate" ELSE "check"
<1>1. RestoreTyped /\ AtRest \in RestoreState
  BY NothingDistinct DEF RestoreInv, AtRest, RestoreState, Pcs, Outcomes
<1>2. restore' = [AtRest EXCEPT !.force = force, !.pc = pc]
  BY DEF BeginRestore
<1>3. /\ restore' \in RestoreState /\ restore'.pc \in {"check", "validate"}
      /\ restore'.plan = <<>> /\ restore'.made = <<>> /\ restore'.had = {} /\ restore'.at = 0
      /\ restore'.intact /\ restore'.outcome = "none"
  <2>1. /\ AtRest.plan = <<>> /\ AtRest.made = <<>> /\ AtRest.had = {} /\ AtRest.at = 0
        /\ AtRest.intact /\ AtRest.outcome = "none"
    BY DEF AtRest
  <2> QED
    BY <1>1, <1>2, <2>1 DEF RestoreState, Pcs
<1>4. RestoreTyped'
  BY <1>1, <1>3 DEF RestoreTyped, BeginRestore
<1>5. before' = files' /\ Rooted(files)'
  BY DEF BeginRestore, RestoreInv, BeforeRooted, Rooted
<1>6. \A n \in RestoreNames : aside'[n] = Absent
  BY DEF BeginRestore, RestoreInv, BeforeRooted
<1>7. (/\ RestoreTyped /\ restore.plan = <<>> /\ restore.made = <<>> /\ restore.had = {}
       /\ restore.at = 0 /\ restore.intact /\ restore.outcome = "none"
       /\ restore.pc \in {"idle", "check", "validate"}
       /\ before = files /\ Rooted(files) /\ \A n \in RestoreNames : aside[n] = Absent
       => RestoreInv)'
  BY FreshKept, PTL
<1> QED
  BY <1>3, <1>4, <1>5, <1>6, <1>7

(* A step of the restore before it changes anything.                       *)
LEMMA EarlyKeeps ==
  ASSUME RestoreInv, restore.pc \in Early \ {"idle"}, restore'.pc \in (Early \ {"idle"}) \cup {"mkdir"},
         RestoreTyped', PlanKnown', Staged',
         UNCHANGED <<files, aside, before, touched>>,
         restore'.made = restore.made, restore'.had = restore.had, restore'.at = restore.at,
         restore'.intact = restore.intact, restore'.outcome = restore.outcome
  PROVE  RestoreInv'
<1>1. /\ restore.made = <<>> /\ restore.at = 0 /\ restore.intact /\ restore.outcome = "none"
  BY DEF RestoreInv, MadeInOrder, Positions, Forward, Ended, Early, RestoreAt
<1>2. Positions'
  <2>1. (RestoreTyped /\ PlanKnown => Len(PlannedFiles) \in Nat)'
    BY FilesKnown, PTL
  <2> QED
    BY <1>1, <2>1 DEF Positions, Early
<1>3. \A n : ~Made(n) /\ ~Made(n)' /\ ~InHand(n) /\ ~InHand(n)'
  BY <1>1, NothingDistinct DEF Made, InHand, Handled
<1>4. PlacedSoFar' /\ MadeInOrder' /\ MadeNew' /\ Ended' /\ BeforeRooted' /\ AllOrNothing'
  BY <1>1, <1>3, NothingDistinct
  DEF RestoreInv, PlacedSoFar, MadeInOrder, MadeNew, Ended, BeforeRooted, AllOrNothing, RestoreAt, Early
<1>5. Forward' /\ Kept'
  BY <1>1, <1>3 DEF RestoreInv, Forward, Kept, KeptName, Saved, Orig, RestoreAt, Early
<1> QED
  BY <1>2, <1>4, <1>5 DEF RestoreInv

LEMMA RefusedKeeps ==
  ASSUME RestoreInv, restore.pc \in Early, EndRestore("refused"), UNCHANGED <<files, aside, env>>,
         stage' \in [RestoreNames -> Standing]
  PROVE  RestoreInv'
<1>1. \A n \in RestoreNames \ touched : files[n] = before[n]
  BY EarlyUntouched
<1>2. /\ ~RestoreAt("ended") /\ "refused" \in Outcomes \ {"none"}
      /\ restore' = [restore EXCEPT !.pc = "ended", !.outcome = "refused"]
      /\ UNCHANGED <<files, aside, before, touched, archive, backup>>
  BY DEF EndRestore, env, RestoreAt, Early, Outcomes
<1> QED
  BY <1>1, <1>2, EndKeeps

LEMMA CheckLabKeeps == ASSUME RestoreInv, CheckLab PROVE RestoreInv'
<1>1. RestoreTyped /\ PlanKnown /\ restore \in RestoreState /\ restore.pc = "check"
  BY DEF RestoreInv, RestoreTyped, CheckLab, RestoreAt
<1>2. CASE EndRestore("refused")
  BY <1>1, <1>2, RefusedKeeps DEF CheckLab, Early, RestoreTyped
<1>3. CASE RestoreGoes("validate")
  <2>1. /\ restore' \in RestoreState /\ restore'.pc = "validate" /\ restore'.plan = restore.plan
        /\ restore'.made = restore.made /\ restore'.had = restore.had /\ restore'.at = restore.at
        /\ restore'.intact = restore.intact /\ restore'.outcome = restore.outcome
    BY <1>1, <1>3 DEF RestoreGoes, RestoreState, Pcs
  <2>2. RestoreTyped' /\ PlanKnown' /\ Staged'
    BY <1>1, <2>1 DEF CheckLab, env, RestoreTyped, PlanKnown, Staged, RestoreAt
  <2> QED
    BY <1>1, <2>1, <2>2, EarlyKeeps DEF CheckLab, env, Early
<1> QED
  BY <1>2, <1>3 DEF CheckLab

LEMMA ValidateKeeps == ASSUME RestoreInv, Validate PROVE RestoreInv'
<1>1. RestoreTyped /\ PlanKnown /\ restore \in RestoreState /\ restore.pc = "validate"
      /\ archive \in Archive
  BY DEF RestoreInv, RestoreTyped, Validate, RestoreAt
<1>2. CASE EndRestore("refused")
  BY <1>1, <1>2, RefusedKeeps DEF Validate, Early, RestoreTyped
<1>3. CASE validateArchive(archive)
  <2>1. restore' = [restore EXCEPT !.pc = "extract", !.opened = archive, !.entries = Payload(archive)]
    BY <1>3 DEF Validate
  <2>2. Payload(archive) \in Seq(ArchiveEntry) /\ Distinct(Payload(archive))
    BY <1>1, <1>3, ArchiveKnown, ValidDistinct
  <2>3. /\ restore' \in RestoreState /\ restore'.pc = "extract" /\ restore'.plan = restore.plan
        /\ restore'.opened = archive /\ restore'.entries = Payload(archive)
        /\ restore'.made = restore.made /\ restore'.had = restore.had /\ restore'.at = restore.at
        /\ restore'.intact = restore.intact /\ restore'.outcome = restore.outcome
    BY <1>1, <2>1, <2>2 DEF RestoreState, Pcs
  <2>4. RestoreTyped' /\ PlanKnown' /\ Staged'
    BY <1>1, <2>2, <2>3 DEF Validate, env, RestoreTyped, PlanKnown, Staged, RestoreAt
  <2> QED
    BY <1>1, <2>3, <2>4, EarlyKeeps DEF Validate, env, Early
<1> QED
  BY <1>2, <1>3 DEF Validate

(* The plan is a part of what was read again, and each of its names is     *)
(* staged.                                                                 *)
LEMMA ExtractKeeps == ASSUME RestoreInv, Extract PROVE RestoreInv'
<1> DEFINE entries == Payload(restore.opened)
           chosen == {i \in DOMAIN entries : mapDestination(entries[i].name) \in {"lab", "project"}}
           plan == Part(entries, chosen)
           staged == [n \in RestoreNames |->
                 IF n \in NamesIn(plan)
                 THEN LET e == CHOOSE x \in Range(plan) : x.name = n
                      IN  IF e.type = "dir" THEN "dir" ELSE e.content
                 ELSE Absent]
<1>1. RestoreTyped /\ PlanKnown /\ restore \in RestoreState /\ restore.pc = "extract"
      /\ restore.opened \in Archive /\ restore.entries \in Seq(ArchiveEntry) /\ Distinct(restore.entries)
  BY DEF RestoreInv, RestoreTyped, RestoreState, Extract, RestoreAt, PlanKnown
<1>2. CASE EndRestore("refused") /\ UNCHANGED stage
  BY <1>1, <1>2, RefusedKeeps DEF Extract, Early, RestoreTyped
<1>3. CASE /\ Shape(entries) = Shape(restore.entries)
           /\ restore' = [restore EXCEPT !.pc = "preflight", !.plan = plan, !.opened = Absent]
           /\ stage' = staged
  <2>1. entries \in Seq(ArchiveEntry) /\ Distinct(entries) /\ chosen \in SUBSET DOMAIN entries
    BY <1>1, <1>3, ArchiveKnown, SameShapeDistinct
  <2>2. /\ plan \in Seq(ArchiveEntry) /\ Distinct(plan)
        /\ \A i \in DOMAIN plan : \E k \in chosen : plan[i] = entries[k]
    <3> HIDE DEF entries, chosen
    <3> QED
      BY <2>1, PartDistinct
  <2>3. \A i \in DOMAIN plan : plan[i].name \in RestoreNames
    <3>1. \A k \in chosen : entries[k].name \in RestoreNames
      BY DEF mapDestination, RestoreNames
    <3> HIDE DEF plan, chosen, entries
    <3> QED
      BY <2>2, <3>1
  <2>4. \A i \in DOMAIN plan :
          /\ plan[i] \in Range(plan) /\ plan[i] \in ArchiveEntry
          /\ \A x \in Range(plan) : x.name = plan[i].name => x = plan[i]
    <3> HIDE DEF plan
    <3> QED
      BY <2>2 DEF Range, Distinct
  <2>5. /\ staged \in [RestoreNames -> Standing]
        /\ \A i \in DOMAIN plan : plan[i].type = "file" => staged[plan[i].name] = plan[i].content
    <3> HIDE DEF plan
    <3>1. ASSUME NEW i \in DOMAIN plan
          PROVE  /\ plan[i].name \in NamesIn(plan)
                 /\ (CHOOSE x \in Range(plan) : x.name = plan[i].name) = plan[i]
      BY <2>4 DEF NamesIn
    <3>2. \A n \in NamesIn(plan) : \E i \in DOMAIN plan : n = plan[i].name
      BY DEF NamesIn
    <3>3. ASSUME NEW i \in DOMAIN plan
          PROVE  staged[plan[i].name] = IF plan[i].type = "dir" THEN "dir" ELSE plan[i].content
      <4> DEFINE first(n) == CHOOSE x \in Range(plan) : x.name = n
      <4>1. \A n \in RestoreNames :
              n \in NamesIn(plan) =>
                staged[n] = IF first(n).type = "dir" THEN "dir" ELSE first(n).content
        BY Zenon
      <4>2. first(plan[i].name) = plan[i]
        BY <3>1
      <4> HIDE DEF staged, first
      <4> QED
        BY <2>3, <3>1, <4>1, <4>2
    <3>4. \A n \in RestoreNames : staged[n] \in Standing
      <4> SUFFICES ASSUME NEW n \in RestoreNames PROVE staged[n] \in Standing
        OBVIOUS
      <4>1. CASE n \in NamesIn(plan)
        <5>1. PICK i \in DOMAIN plan : n = plan[i].name
          BY <3>2, <4>1
        <5>2. plan[i].content \in Content
          BY <2>4 DEF ArchiveEntry
        <5> HIDE DEF staged
        <5> QED
          BY <3>3, <5>1, <5>2 DEF Standing
      <4>2. CASE n \notin NamesIn(plan)
        BY <4>2 DEF Standing
      <4> QED
        BY <4>1, <4>2
    <3>5. DOMAIN staged = RestoreNames /\ staged = [n \in RestoreNames |-> staged[n]]
      OBVIOUS
    <3> HIDE DEF staged
    <3>6. staged \in [RestoreNames -> Standing]
      BY <3>4, <3>5
    <3> QED
      BY <3>3, <3>6
  <2> HIDE DEF staged, plan, chosen, entries
  <2>6. /\ restore' \in RestoreState /\ restore'.pc = "preflight" /\ restore'.plan = plan
        /\ restore'.made = restore.made /\ restore'.had = restore.had /\ restore'.at = restore.at
        /\ restore'.intact = restore.intact /\ restore'.outcome = restore.outcome
    BY <1>1, <1>3, <2>2 DEF RestoreState, Pcs
  <2>7. RestoreTyped' /\ PlanKnown'
    BY <1>1, <1>3, <2>2, <2>3, <2>5, <2>6 DEF Extract, env, RestoreTyped, PlanKnown, RestoreAt
  <2>8. Staged'
    <3> DEFINE regular == {i \in DOMAIN plan : plan[i].type = "file"}
    <3>1. PlannedFiles' = Part(plan, regular)
      BY <2>6 DEF PlannedFiles
    <3>2. regular \in SUBSET DOMAIN plan
      OBVIOUS
    <3>3. \A i \in DOMAIN PlannedFiles' : \E k \in DOMAIN plan : PlannedFiles'[i] = plan[k] /\ plan[k].type = "file"
      BY <2>2, <3>1, <3>2, PartDistinct
    <3> QED
      BY <1>3, <2>5, <3>3 DEF Staged
  <2> QED
    BY <1>1, <2>6, <2>7, <2>8, EarlyKeeps DEF Extract, env, Early
<1> QED
  BY <1>2, <1>3, Zenon DEF Extract

LEMMA RequiredKnown ==
  ASSUME NEW plan \in Seq(ArchiveEntry), \A i \in DOMAIN plan : plan[i].name \in RestoreNames
  PROVE  requiredDirectories(plan) \in SUBSET RestoreNames
<1>1. \A n \in RestoreNames : Above[n] \subseteq RestoreNames
  BY RestoreAssumption DEF RestoreNames
<1> QED
  BY <1>1 DEF requiredDirectories

LEMMA PreflightKeeps == ASSUME RestoreInv, Preflight PROVE RestoreInv'
<1>1. RestoreTyped /\ PlanKnown /\ Staged /\ restore \in RestoreState /\ restore.pc = "preflight"
  BY DEF RestoreInv, RestoreTyped, Preflight, RestoreAt
<1>2. CASE EndRestore("refused") /\ stage' = NoStage
  BY <1>1, <1>2, RefusedKeeps DEF Preflight, Early, NoStage, Standing
<1>3. CASE restore' = [restore EXCEPT !.pc = "mkdir", !.todo = requiredDirectories(restore.plan)]
           /\ UNCHANGED stage
  <2>1. requiredDirectories(restore.plan) \in SUBSET RestoreNames
    BY <1>1, RequiredKnown DEF RestoreState, PlanKnown
  <2>2. /\ restore' \in RestoreState /\ restore'.pc = "mkdir" /\ restore'.plan = restore.plan
        /\ restore'.made = restore.made /\ restore'.had = restore.had /\ restore'.at = restore.at
        /\ restore'.intact = restore.intact /\ restore'.outcome = restore.outcome
    BY <1>1, <1>3, <2>1 DEF RestoreState, Pcs
  <2>3. RestoreTyped' /\ PlanKnown'
    BY <1>1, <1>3, <2>2 DEF Preflight, env, RestoreTyped, PlanKnown, RestoreAt
  <2>4. Staged'
    BY <1>1, <1>3, <2>2 DEF Staged, PlannedFiles
  <2> QED
    BY <1>1, <2>2, <2>3, <2>4, EarlyKeeps DEF Preflight, env, Early
<1> QED
  BY <1>2, <1>3 DEF Preflight

LEMMA MakeDirectoryKeeps == ASSUME RestoreInv, MakeDirectory PROVE RestoreInv'
<1>1. PICK d \in restore.todo :
       /\ \A f \in restore.todo : Depth(d) <= Depth(f)
       /\ \/ /\ Exists(d)
             /\ restore' = [restore EXCEPT !.todo = restore.todo \ {d}]
             /\ NoFault /\ UNCHANGED files
          \/ /\ ~Exists(d)
             /\ restore' = [restore EXCEPT !.todo = restore.todo \ {d}, !.made = Append(restore.made, d)]
             /\ files' = Put(files, d, "dir")
             /\ NoFault
          \/ /\ ~Exists(d) /\ RestoreFault
             /\ RestoreGoes("unmake") /\ UNCHANGED files
  BY Zenon DEF MakeDirectory
<1>2. /\ RestoreTyped /\ PlanKnown /\ restore \in RestoreState /\ restore.pc = "mkdir"
      /\ restore.made \in Seq(RestoreNames) /\ d \in RestoreNames /\ restore.at = 0 /\ restore.intact
      /\ restore.outcome = "none"
  BY <1>1 DEF RestoreInv, RestoreTyped, RestoreState, MakeDirectory, Positions, Forward, Ended, RestoreAt
<1>3. UNCHANGED <<stage, aside, before, touched, archive, backup>>
  BY DEF MakeDirectory, env
<1>4. \A n : ~InHand(n)
  BY <1>2 DEF InHand, Handled
<1>5. restore.had = {}
  BY <1>2, <1>4 DEF RestoreInv, Forward, RestoreState
<1>6. CASE /\ restore' = [restore EXCEPT !.todo = restore.todo \ {d}] /\ UNCHANGED files
  <2>1. /\ restore' \in RestoreState /\ restore'.pc = "mkdir" /\ restore'.plan = restore.plan
        /\ restore'.made = restore.made /\ restore'.had = {} /\ restore'.at = 0
        /\ restore'.intact /\ restore'.outcome = "none" /\ restore'.todo = restore.todo \ {d}
    BY <1>2, <1>5, <1>6 DEF RestoreState, Pcs
  <2>2. PlannedFiles' = PlannedFiles /\ \A n : (Made(n)' <=> Made(n)) /\ Orig(n)' = Orig(n) /\ ~InHand(n)'
    BY <1>3, <2>1, SameInHand DEF InHand, Handled
  <2>3. RestoreTyped' /\ PlanKnown' /\ Positions' /\ Staged' /\ PlacedSoFar'
    BY <1>2, <1>3, <1>6, <2>1, <2>2
    DEF RestoreInv, RestoreTyped, PlanKnown, Positions, Staged, PlacedSoFar, RestoreAt, Early
  <2>4. MadeInOrder'
    BY <1>2, <2>1 DEF RestoreInv, MadeInOrder, RestoreAt, Early
  <2>5. MadeNew' /\ Forward' /\ Kept' /\ Ended' /\ BeforeRooted' /\ AllOrNothing'
    BY <1>2, <1>3, <1>4, <1>6, <2>1, <2>2
    DEF RestoreInv, MadeNew, Forward, Kept, KeptName, Saved, Ended, BeforeRooted, AllOrNothing, RestoreAt, Early
  <2> QED
    BY <2>3, <2>4, <2>5 DEF RestoreInv
<1>7. CASE /\ ~Exists(d) /\ files' = Put(files, d, "dir")
           /\ restore' = [restore EXCEPT !.todo = restore.todo \ {d}, !.made = Append(restore.made, d)]
  <2>1. /\ restore' \in RestoreState /\ restore'.pc = "mkdir" /\ restore'.plan = restore.plan
        /\ restore'.made = Append(restore.made, d) /\ restore'.had = {} /\ restore'.at = 0
        /\ restore'.intact /\ restore'.outcome = "none" /\ restore'.todo = restore.todo \ {d}
    <3>1. Append(restore.made, d) \in Seq(RestoreNames)
      BY <1>2, AppendProperties
    <3> QED
      BY <1>2, <1>5, <1>7, <3>1 DEF RestoreState, Pcs
  <2>2. PICK n \in Nat : /\ DOMAIN restore.made = 1..n /\ DOMAIN restore'.made = 1..(n + 1)
                         /\ \A i \in 1..n : restore'.made[i] = restore.made[i]
                         /\ restore'.made[n + 1] = d
    BY <1>2, <2>1, AppendProperties, LenProperties
  <2>3. PlannedFiles' = PlannedFiles /\ \A m : (Made(m)' <=> Made(m) \/ m = d) /\ ~InHand(m)'
    BY <1>3, <2>1, <2>2 DEF InHand, Handled, PlannedFiles, Made
  <2>4. ~Made(d)
    BY <1>1, <1>2 DEF RestoreInv, MadeInOrder, Made, RestoreAt
  <2>5. files' \in [RestoreNames -> Standing] /\ files'[d] = "dir" /\ \A m \in RestoreNames \ {d} : files'[m] = files[m]
    BY <1>2, <1>7 DEF Put, RestoreTyped, Standing
  <2>6. files[d] = Absent /\ (d \notin touched => before[d] = Absent)
    BY <1>2, <1>4, <1>7, <2>4 DEF Exists, RestoreInv, Kept, KeptName, Orig, RestoreAt
  <2>7. RestoreTyped' /\ PlanKnown' /\ Positions' /\ Staged' /\ PlacedSoFar'
    BY <1>2, <1>3, <2>1, <2>3, <2>5
    DEF RestoreInv, RestoreTyped, PlanKnown, Positions, Staged, PlacedSoFar, RestoreAt, Early
  <2>8. MadeInOrder'
    <3>1. \A e \in restore.todo : e \notin Above[d]
      BY <1>1, <1>2, DepthGrows
    <3>2. \A i \in 1..n : /\ restore.made[i] \notin restore.todo
                          /\ \A e \in restore.todo : e \notin Above[restore.made[i]]
      BY <1>2, <2>2 DEF RestoreInv, MadeInOrder, RestoreAt
    <3>3. \A i, j \in 1..n : i < j => /\ restore.made[i] # restore.made[j]
                                      /\ restore.made[j] \notin Above[restore.made[i]]
      BY <2>2 DEF RestoreInv, MadeInOrder
    <3>4. d \in restore.todo
      BY <1>1
    <3>5. \A i, j \in 1..(n + 1) : i < j => /\ restore'.made[i] # restore'.made[j]
                                            /\ restore'.made[j] \notin Above[restore'.made[i]]
      BY <2>2, <3>2, <3>3, <3>4
    <3>6. \A i \in 1..(n + 1) : /\ restore'.made[i] \notin restore'.todo
                                /\ \A e \in restore'.todo : e \notin Above[restore'.made[i]]
      BY <2>1, <2>2, <3>1, <3>2
    <3> QED
      BY <2>1, <2>2, <3>5, <3>6 DEF MadeInOrder, Early
  <2>9. MadeNew'
    BY <1>3, <2>3, <2>6 DEF RestoreInv, MadeNew
  <2>10. Kept'
    <3> SUFFICES ASSUME NEW m \in RestoreNames \ touched PROVE KeptName(m)'
      BY <1>3 DEF Kept
    <3>1. KeptName(m) /\ (files[m] = Orig(m)) /\ aside[m] = Absent
      BY <1>2, <1>4 DEF RestoreInv, Kept, KeptName, RestoreAt
    <3>2. CASE m = d
      BY <1>3, <2>1, <2>3, <2>5, <2>6, <3>1, <3>2, RestoreAssumption DEF KeptName, Saved, Orig, RestoreAt
    <3>3. CASE m # d
      BY <1>3, <2>1, <2>3, <2>5, <3>1, <3>3 DEF KeptName, Saved, Orig, RestoreAt
    <3> QED
      BY <3>2, <3>3
  <2>11. Forward' /\ Ended' /\ BeforeRooted' /\ AllOrNothing'
    BY <1>2, <1>3, <2>1 DEF RestoreInv, Forward, Ended, BeforeRooted, AllOrNothing, RestoreAt, Early
  <2> QED
    BY <2>7, <2>8, <2>9, <2>10, <2>11 DEF RestoreInv
<1>8. CASE RestoreGoes("unmake") /\ UNCHANGED files
  <2>1. /\ restore' \in RestoreState /\ restore'.pc = "unmake" /\ restore'.plan = restore.plan
        /\ restore'.made = restore.made /\ restore'.had = {} /\ restore'.at = 0
        /\ restore'.intact /\ restore'.outcome = "none"
    BY <1>2, <1>5, <1>8 DEF RestoreGoes, RestoreState, Pcs
  <2>2. PlannedFiles' = PlannedFiles /\ \A n : (Made(n)' <=> Made(n)) /\ Orig(n)' = Orig(n) /\ ~InHand(n)'
    BY <1>3, <2>1, SameInHand DEF InHand, Handled
  <2>3. RestoreTyped' /\ PlanKnown' /\ Positions' /\ Staged' /\ PlacedSoFar' /\ MadeInOrder'
    BY <1>2, <1>3, <1>8, <2>1, <2>2
    DEF RestoreInv, RestoreTyped, PlanKnown, Positions, Staged, PlacedSoFar, MadeInOrder, RestoreAt, Early
  <2>4. MadeNew' /\ Forward' /\ Kept' /\ Ended' /\ BeforeRooted' /\ AllOrNothing'
    BY <1>2, <1>3, <1>4, <1>8, <2>1, <2>2
    DEF RestoreInv, MadeNew, Forward, Kept, KeptName, Saved, Ended, BeforeRooted, AllOrNothing, RestoreAt, Early
  <2> QED
    BY <2>3, <2>4 DEF RestoreInv
<1> QED
  BY <1>1, <1>6, <1>7, <1>8

(* The file a restore is at is one of the plan, and the only one of its    *)
(* name.                                                                   *)
LEMMA CurrentKnown ==
  ASSUME RestoreInv, restore.at > 0
  PROVE  /\ restore.at \in 1..Len(PlannedFiles) /\ restore.at \in DOMAIN PlannedFiles /\ Current \in RestoreNames
         /\ Current = PlannedFiles[restore.at].name
         /\ \A i \in DOMAIN PlannedFiles : PlannedFiles[i].name = Current => i = restore.at
         /\ DOMAIN PlannedFiles = 1..Len(PlannedFiles) /\ Len(PlannedFiles) \in Nat
         /\ \A i \in DOMAIN PlannedFiles : PlannedFiles[i].name \in RestoreNames
<1>1. /\ DOMAIN PlannedFiles = 1..Len(PlannedFiles) /\ Len(PlannedFiles) \in Nat /\ Distinct(PlannedFiles)
      /\ \A i \in DOMAIN PlannedFiles : PlannedFiles[i].name \in RestoreNames
  BY FilesKnown DEF RestoreInv
<1>2. restore.at \in Nat /\ restore.at <= Len(PlannedFiles)
  BY DEF RestoreInv, RestoreTyped, RestoreState, Positions
<1> QED
  BY <1>1, <1>2 DEF Current, Distinct

(* A file in hand was moved aside, or there was none.                      *)
LEMMA HandSaves ==
  ASSUME RestoreInv, restore.pc \notin {"forget", "ended"}, NEW n \in RestoreNames \ touched, InHand(n),
         before[n] \in Content
  PROVE  n \in restore.had /\ aside[n] = before[n] /\ Orig(n) = before[n]
<1>1. ~Made(n)
  BY RestoreAssumption DEF RestoreInv, MadeNew
<1> QED
  BY <1>1, RestoreAssumption DEF RestoreInv, Kept, KeptName, Orig

(* A step that changes neither the trees nor what is in hand.              *)
LEMMA QuietKeeps ==
  ASSUME RestoreInv, restore.pc \in Pcs \ {"forget", "ended"},
         restore'.pc \in {"look", "aside", "place", "undo", "unmake"},
         RestoreTyped', Positions', Staged', PlacedSoFar',
         UNCHANGED <<files, aside, before, touched>>,
         restore'.plan = restore.plan, restore'.made = restore.made, restore'.had = restore.had,
         restore'.intact = restore.intact, restore'.outcome = restore.outcome,
         restore'.pc # "undo" => restore.pc \in {"mkdir", "look", "aside", "undo"},
         restore'.pc \in {"look", "aside", "place"} => restore.pc \in {"mkdir", "look", "aside"},
         restore.pc # "unmake", \A n : InHand(n)' <=> InHand(n)
  PROVE  RestoreInv'
<1>1. PlannedFiles' = PlannedFiles /\ \A n : (Made(n)' <=> Made(n)) /\ Orig(n)' = Orig(n)
  BY SameInHand
<1>2. PlanKnown' /\ MadeInOrder' /\ MadeNew' /\ Ended' /\ BeforeRooted' /\ AllOrNothing'
  BY <1>1 DEF RestoreInv, PlanKnown, MadeInOrder, MadeNew, Ended, BeforeRooted, AllOrNothing, RestoreAt, Early
<1>3. Forward' /\ Kept'
  BY <1>1 DEF RestoreInv, Forward, Kept, KeptName, Saved, RestoreAt, Early
<1> QED
  BY <1>2, <1>3 DEF RestoreInv

LEMMA DirectoriesMadeKeeps == ASSUME RestoreInv, DirectoriesMade PROVE RestoreInv'
<1>1. /\ RestoreTyped /\ PlanKnown /\ restore \in RestoreState /\ restore.pc = "mkdir"
      /\ restore.at = 0 /\ restore.outcome = "none" /\ restore.intact
  BY DEF RestoreInv, RestoreTyped, DirectoriesMade, Positions, Ended, Forward, RestoreAt, Early
<1>2. DOMAIN PlannedFiles = 1..Len(PlannedFiles) /\ Len(PlannedFiles) \in Nat
  BY <1>1, FilesKnown
<1>3. restore' = NextFile(0) /\ UNCHANGED <<files, stage, aside, archive, backup, before, touched>>
  BY DEF DirectoriesMade, env
<1>4. \A n : ~InHand(n)
  BY <1>1 DEF InHand, Handled
<1>5. CASE 0 < Len(PlannedFiles)
  <2>1. restore' = [restore EXCEPT !.pc = "look", !.at = 1]
    BY <1>3, <1>5 DEF NextFile
  <2>2. /\ restore' \in RestoreState /\ restore'.pc = "look" /\ restore'.plan = restore.plan
        /\ restore'.made = restore.made /\ restore'.had = restore.had /\ restore'.at = 1
        /\ restore'.intact = restore.intact /\ restore'.outcome = restore.outcome
    BY <1>1, <2>1 DEF RestoreState, Pcs
  <2>3. PlannedFiles' = PlannedFiles
    BY <2>2 DEF PlannedFiles
  <2>4. \A n : ~InHand(n)'
    BY <2>2 DEF InHand, Handled
  <2>5. RestoreTyped' /\ Positions' /\ Staged' /\ PlacedSoFar'
    BY <1>1, <1>2, <1>3, <1>5, <2>2, <2>3
    DEF RestoreInv, RestoreTyped, Positions, Staged, PlacedSoFar, RestoreAt, Early
  <2> QED
    BY <1>1, <1>3, <1>4, <2>2, <2>4, <2>5, QuietKeeps DEF Pcs
<1>6. CASE ~(0 < Len(PlannedFiles))
  <2>1. restore' = [restore EXCEPT !.pc = "forget"]
    BY <1>3, <1>6 DEF NextFile
  <2>2. /\ restore' \in RestoreState /\ restore'.pc = "forget" /\ restore'.plan = restore.plan
        /\ restore'.made = restore.made /\ restore'.had = restore.had /\ restore'.at = 0
        /\ restore'.intact = restore.intact /\ restore'.outcome = restore.outcome
    BY <1>1, <2>1 DEF RestoreState, Pcs
  <2>3. PlannedFiles' = PlannedFiles /\ \A n : Made(n)' <=> Made(n)
    BY <1>3, <2>2, SameInHand
  <2>4. AllPlaced'
    BY <1>2, <1>6, <2>3 DEF AllPlaced
  <2>5. RestoreTyped' /\ PlanKnown' /\ Positions' /\ Staged' /\ PlacedSoFar'
    BY <1>1, <1>2, <1>3, <2>2, <2>3, <2>4
    DEF RestoreTyped, PlanKnown, Positions, Staged, PlacedSoFar, RestoreAt, Early
  <2>6. MadeInOrder' /\ MadeNew' /\ Forward' /\ Kept' /\ Ended' /\ BeforeRooted' /\ AllOrNothing'
    BY <1>1, <1>3, <2>2, <2>3
    DEF RestoreInv, MadeInOrder, MadeNew, Forward, Kept, Ended, BeforeRooted, AllOrNothing, RestoreAt, Early
  <2> QED
    BY <2>5, <2>6 DEF RestoreInv
<1> QED
  BY <1>5, <1>6

(* A step that changes neither the plan nor what was made.                 *)
LEMMA MovingKeeps ==
  ASSUME RestoreInv, restore.pc \in {"look", "aside", "place", "undo", "return"},
         restore'.pc \in {"look", "aside", "place", "undo", "return"},
         restore'.plan = restore.plan, restore'.made = restore.made,
         restore'.outcome = restore.outcome, UNCHANGED <<before, touched>>,
         RestoreTyped', Positions', Staged', PlacedSoFar', Forward',
         \A n \in RestoreNames \ touched : KeptName(n)'
  PROVE  RestoreInv'
<1>1. PlannedFiles' = PlannedFiles /\ \A n : (Made(n)' <=> Made(n)) /\ Orig(n)' = Orig(n)
  BY SameInHand
<1>2. PlanKnown' /\ MadeInOrder' /\ MadeNew' /\ Ended' /\ BeforeRooted'
  BY <1>1 DEF RestoreInv, PlanKnown, MadeInOrder, MadeNew, Ended, BeforeRooted, RestoreAt, Early
<1>3. AllOrNothing'
  BY DEF RestoreInv, Ended, AllOrNothing, RestoreAt
<1>4. Kept'
  BY DEF Kept
<1> QED
  BY <1>2, <1>3, <1>4 DEF RestoreInv

(* What is in hand while and after the file at hand is dealt with.         *)
LEMMA HandGrows ==
  ASSUME RestoreInv, restore.at > 0
  PROVE  /\ restore.pc \in {"look", "aside"} => ~InHand(Current)
         /\ restore.pc \in {"place", "undo", "return"} => InHand(Current)
         /\ UNCHANGED PlannedFiles /\ restore'.at = restore.at =>
              /\ restore'.pc \in {"look", "aside"} /\ restore.pc \in {"look", "aside"} =>
                    \A n : InHand(n)' <=> InHand(n)
              /\ restore'.pc = "place" /\ restore.pc \in {"look", "aside"} =>
                    \A n : InHand(n)' <=> (InHand(n) \/ n = Current)
              /\ restore'.pc \in {"undo", "return"} /\ restore.pc \in {"place", "undo", "return"} =>
                    \A n : InHand(n)' <=> InHand(n)
         /\ UNCHANGED PlannedFiles /\ restore'.at = restore.at + 1 =>
              /\ restore'.pc = "look" /\ restore.pc = "place" =>
                    \A n : InHand(n)' <=> InHand(n)
         /\ UNCHANGED PlannedFiles /\ restore'.at = restore.at - 1 =>
              /\ restore'.pc = "undo" /\ restore.pc \in {"look", "aside"} =>
                    \A n : InHand(n)' <=> InHand(n)
              /\ restore'.pc = "undo" /\ restore.pc = "return" =>
                    \A n : InHand(n)' <=> (InHand(n) /\ n # Current)
<1> DEFINE at == restore.at
<1>1. /\ at \in 1..Len(PlannedFiles) /\ Current = PlannedFiles[at].name /\ Len(PlannedFiles) \in Nat
      /\ \A i \in 1..Len(PlannedFiles) : PlannedFiles[i].name = Current => i = at
  BY CurrentKnown
<1>2. /\ restore.pc \in {"look", "aside"} => Handled = 1..(at - 1)
      /\ restore.pc \in {"place", "undo", "return"} => Handled = 1..at
  BY <1>1 DEF Handled
<1>3. /\ restore'.pc \in {"look", "aside"} => Handled' = {i \in 1..restore'.at : i < restore'.at}
      /\ restore'.pc \in {"place", "undo", "return"} => Handled' = 1..restore'.at
  BY DEF Handled
<1>4. \A n : InHand(n) <=> \E i \in Handled : PlannedFiles[i].name = n
  BY DEF InHand
<1>5. \A n : InHand(n)' <=> \E i \in Handled' : PlannedFiles'[i].name = n
  BY DEF InHand
<1>6. 1..at = (1..(at - 1)) \cup {at} /\ 1..at \subseteq 1..Len(PlannedFiles)
  BY <1>1
<1>7. /\ restore.pc \in {"look", "aside"} => ~InHand(Current)
      /\ restore.pc \in {"place", "undo", "return"} => InHand(Current)
  BY <1>1, <1>2, <1>4, <1>6
<1>8. ASSUME UNCHANGED PlannedFiles, restore'.at = restore.at
      PROVE  /\ restore'.pc \in {"look", "aside"} /\ restore.pc \in {"look", "aside"} =>
                    \A n : InHand(n)' <=> InHand(n)
             /\ restore'.pc = "place" /\ restore.pc \in {"look", "aside"} =>
                    \A n : InHand(n)' <=> (InHand(n) \/ n = Current)
             /\ restore'.pc \in {"undo", "return"} /\ restore.pc \in {"place", "undo", "return"} =>
                    \A n : InHand(n)' <=> InHand(n)
  <2>1. {i \in 1..at : i < at} = 1..(at - 1)
    BY <1>1
  <2> QED
    BY <1>1, <1>2, <1>3, <1>4, <1>5, <1>6, <1>8, <2>1
<1>9. ASSUME UNCHANGED PlannedFiles, restore'.at = restore.at + 1, restore'.pc = "look", restore.pc = "place"
      PROVE  \A n : InHand(n)' <=> InHand(n)
  <2>1. {i \in 1..(at + 1) : i < at + 1} = 1..at
    BY <1>1
  <2> QED
    BY <1>2, <1>3, <1>4, <1>5, <1>9, <2>1
<1>10. ASSUME UNCHANGED PlannedFiles, restore'.at = restore.at - 1, restore'.pc = "undo"
       PROVE  /\ restore.pc \in {"look", "aside"} => \A n : InHand(n)' <=> InHand(n)
              /\ restore.pc = "return" => \A n : InHand(n)' <=> (InHand(n) /\ n # Current)
  <2>1. \A i \in 1..(at - 1) : PlannedFiles[i].name # Current
    BY <1>1
  <2> QED
    BY <1>1, <1>2, <1>3, <1>4, <1>5, <1>6, <1>10, <2>1
<1> QED
  BY <1>7, <1>8, <1>9, <1>10

LEMMA LookKeeps == ASSUME RestoreInv, Look PROVE RestoreInv'
<1>1. /\ RestoreTyped /\ PlanKnown /\ restore \in RestoreState /\ restore.pc = "look"
      /\ restore.at > 0 /\ restore.at \in Nat /\ restore.intact /\ restore.outcome = "none"
  BY DEF RestoreInv, RestoreTyped, RestoreState, Look, Positions, Forward, Ended, RestoreAt
<1>2. /\ restore.at \in 1..Len(PlannedFiles) /\ Current \in RestoreNames /\ DOMAIN PlannedFiles = 1..Len(PlannedFiles)
      /\ Len(PlannedFiles) \in Nat
  BY <1>1, CurrentKnown
<1>3. UNCHANGED <<files, stage, aside, archive, backup, before, touched>>
  BY DEF Look, env
<1>4. CASE RestoreGoes("aside")
  <2>1. /\ restore' \in RestoreState /\ restore'.pc = "aside" /\ restore'.plan = restore.plan
        /\ restore'.made = restore.made /\ restore'.had = restore.had /\ restore'.at = restore.at
        /\ restore'.intact = restore.intact /\ restore'.outcome = restore.outcome
    BY <1>1, <1>4 DEF RestoreGoes, RestoreState, Pcs
  <2>2. PlannedFiles' = PlannedFiles
    BY <2>1 DEF PlannedFiles
  <2>3. \A n : InHand(n)' <=> InHand(n)
    BY <1>1, <2>1, <2>2, HandGrows
  <2>4. RestoreTyped' /\ Positions' /\ Staged' /\ PlacedSoFar'
    BY <1>1, <1>2, <1>3, <2>1, <2>2
    DEF RestoreInv, RestoreTyped, Positions, Staged, PlacedSoFar, RestoreAt, Early
  <2> QED
    BY <1>1, <1>3, <2>1, <2>3, <2>4, QuietKeeps DEF Pcs
<1>5. CASE ~Exists(Current) /\ RestoreGoes("place")
  <2>1. /\ restore' \in RestoreState /\ restore'.pc = "place" /\ restore'.plan = restore.plan
        /\ restore'.made = restore.made /\ restore'.had = restore.had /\ restore'.at = restore.at
        /\ restore'.intact = restore.intact /\ restore'.outcome = restore.outcome
    BY <1>1, <1>5 DEF RestoreGoes, RestoreState, Pcs
  <2>2. PlannedFiles' = PlannedFiles /\ \A n : (Made(n)' <=> Made(n)) /\ Orig(n)' = Orig(n)
    BY <1>3, <2>1, SameInHand
  <2>3. ~InHand(Current) /\ \A n : InHand(n)' <=> (InHand(n) \/ n = Current)
    BY <1>1, <2>1, <2>2, HandGrows
  <2>4. RestoreTyped' /\ Positions' /\ Staged' /\ PlacedSoFar' /\ Forward'
    BY <1>1, <1>2, <1>3, <2>1, <2>2, <2>3
    DEF RestoreInv, RestoreTyped, Positions, Staged, PlacedSoFar, Forward, RestoreAt, Early
  <2>5. ASSUME NEW n \in RestoreNames \ touched PROVE KeptName(n)'
    <3>1. KeptName(n) /\ (n \in restore.had => InHand(n))
      BY <1>1 DEF RestoreInv, Kept, Forward
    <3>2. CASE n = Current
      BY <1>1, <1>3, <1>5, <2>1, <2>2, <2>3, <3>1, <3>2 DEF KeptName, Saved, Exists, RestoreAt
    <3>3. CASE n # Current
      BY <1>1, <1>3, <2>1, <2>2, <2>3, <3>1, <3>3 DEF KeptName, Saved, RestoreAt
    <3> QED
      BY <3>2, <3>3
  <2> QED
    BY <1>1, <1>3, <2>1, <2>4, <2>5, MovingKeeps
<1>6. CASE restore' = [restore EXCEPT !.pc = "undo", !.at = restore.at - 1]
  <2>1. /\ restore' \in RestoreState /\ restore'.pc = "undo" /\ restore'.plan = restore.plan
        /\ restore'.made = restore.made /\ restore'.had = restore.had
        /\ restore'.at = restore.at - 1
        /\ restore'.intact = restore.intact /\ restore'.outcome = restore.outcome
    <3> DEFINE back == restore.at - 1
    <3>1. back \in Nat
      BY <1>1
    <3>2. restore' = [restore EXCEPT !.pc = "undo", !.at = back]
      BY <1>6
    <3> HIDE DEF back
    <3>3. /\ restore' \in RestoreState /\ restore'.pc = "undo" /\ restore'.plan = restore.plan
          /\ restore'.made = restore.made /\ restore'.had = restore.had /\ restore'.at = back
          /\ restore'.intact = restore.intact /\ restore'.outcome = restore.outcome
      BY <1>1, <3>1, <3>2 DEF RestoreState, Pcs
    <3> QED
      BY <3>3 DEF back
  <2>2. PlannedFiles' = PlannedFiles
    BY <2>1 DEF PlannedFiles
  <2>3. \A n : InHand(n)' <=> InHand(n)
    BY <1>1, <2>1, <2>2, HandGrows
  <2>4. RestoreTyped' /\ Positions' /\ Staged' /\ PlacedSoFar'
    BY <1>1, <1>2, <1>3, <2>1, <2>2 DEF RestoreTyped, Positions, Staged, PlacedSoFar, RestoreAt, Early
  <2> QED
    BY <1>1, <1>3, <2>1, <2>3, <2>4, QuietKeeps DEF Pcs
<1> QED
  BY <1>4, <1>5, <1>6 DEF Look

LEMMA MoveAsideKeeps == ASSUME RestoreInv, MoveAside PROVE RestoreInv'
<1>1. /\ RestoreTyped /\ PlanKnown /\ restore \in RestoreState /\ restore.pc = "aside"
      /\ restore.at > 0 /\ restore.at \in Nat /\ restore.intact /\ restore.outcome = "none"
  BY DEF RestoreInv, RestoreTyped, RestoreState, MoveAside, Positions, Forward, Ended, RestoreAt
<1>2. /\ restore.at \in 1..Len(PlannedFiles) /\ Current \in RestoreNames /\ DOMAIN PlannedFiles = 1..Len(PlannedFiles)
      /\ Len(PlannedFiles) \in Nat /\ restore.at \in DOMAIN PlannedFiles /\ Current = PlannedFiles[restore.at].name
      /\ \A i \in DOMAIN PlannedFiles : PlannedFiles[i].name = Current => i = restore.at
      /\ \A i \in DOMAIN PlannedFiles : PlannedFiles[i].name \in RestoreNames
  BY <1>1, CurrentKnown
<1>3. UNCHANGED <<stage, archive, backup, before, touched>>
  BY DEF MoveAside, env
<1>4. CASE /\ Exists(Current)
           /\ aside' = Put(aside, Current, files[Current]) /\ files' = Put(files, Current, Absent)
           /\ restore' = [restore EXCEPT !.pc = "place", !.had = restore.had \cup {Current}]
  <2>1. /\ restore' \in RestoreState /\ restore'.pc = "place" /\ restore'.plan = restore.plan
        /\ restore'.made = restore.made /\ restore'.had = restore.had \cup {Current}
        /\ restore'.at = restore.at
        /\ restore'.intact = restore.intact /\ restore'.outcome = restore.outcome
    BY <1>1, <1>2, <1>4 DEF RestoreState, Pcs
  <2>2. PlannedFiles' = PlannedFiles /\ \A n : (Made(n)' <=> Made(n)) /\ Orig(n)' = Orig(n)
    BY <1>3, <2>1, SameInHand
  <2>3. ~InHand(Current) /\ \A n : InHand(n)' <=> (InHand(n) \/ n = Current)
    BY <1>1, <2>1, <2>2, HandGrows
  <2>4. /\ files' \in [RestoreNames -> Standing] /\ files'[Current] = Absent
        /\ aside' \in [RestoreNames -> Standing] /\ aside'[Current] = files[Current]
        /\ \A n \in RestoreNames \ {Current} : files'[n] = files[n] /\ aside'[n] = aside[n]
    BY <1>1, <1>2, <1>4 DEF Put, RestoreTyped, Standing
  <2>5. RestoreTyped' /\ Positions' /\ Staged' /\ Forward'
    BY <1>1, <1>2, <1>3, <2>1, <2>2, <2>3, <2>4
    DEF RestoreInv, RestoreTyped, Positions, Staged, Forward, RestoreAt, Early
  <2>6. PlacedSoFar'
    <3> SUFFICES ASSUME NEW i \in DOMAIN PlannedFiles, i < restore.at
                 PROVE  PlannedFiles[i].name \in touched \/ files'[PlannedFiles[i].name] = PlannedFiles[i].content
      BY <1>3, <2>1, <2>2 DEF PlacedSoFar, RestoreAt
    <3>1. PlannedFiles[i].name \in touched \/ files[PlannedFiles[i].name] = PlannedFiles[i].content
      BY <1>1 DEF RestoreInv, PlacedSoFar
    <3>2. PlannedFiles[i].name # Current
      BY <1>1, <1>2
    <3> QED
      BY <1>2, <2>4, <3>1, <3>2
  <2>7. ASSUME NEW n \in RestoreNames \ touched PROVE KeptName(n)'
    <3>1. KeptName(n) /\ (n \in restore.had => InHand(n))
      BY <1>1 DEF RestoreInv, Kept, Forward
    <3>2. CASE n = Current
      <4>1. files[n] = Orig(n)
        BY <1>1, <2>3, <3>1, <3>2 DEF KeptName, RestoreAt
      <4>2. Saved(n)'
        BY <1>3, <2>3, <2>4, <3>1, <3>2, <1>1, RestoreAssumption DEF KeptName, Saved
      <4> QED
        BY <1>1, <1>3, <2>1, <2>2, <2>3, <2>4, <3>2, <4>1, <4>2 DEF KeptName, RestoreAt
    <3>3. CASE n # Current
      BY <1>1, <1>3, <2>1, <2>2, <2>3, <2>4, <3>1, <3>3 DEF KeptName, Saved, RestoreAt
    <3> QED
      BY <3>2, <3>3
  <2> QED
    BY <1>1, <1>3, <2>1, <2>5, <2>6, <2>7, MovingKeeps
<1>5. CASE /\ restore' = [restore EXCEPT !.pc = "undo", !.at = restore.at - 1]
           /\ UNCHANGED <<files, aside>>
  <2>1. /\ restore' \in RestoreState /\ restore'.pc = "undo" /\ restore'.plan = restore.plan
        /\ restore'.made = restore.made /\ restore'.had = restore.had
        /\ restore'.at = restore.at - 1
        /\ restore'.intact = restore.intact /\ restore'.outcome = restore.outcome
    <3> DEFINE back == restore.at - 1
    <3>1. back \in Nat
      BY <1>1
    <3>2. restore' = [restore EXCEPT !.pc = "undo", !.at = back]
      BY <1>5
    <3> HIDE DEF back
    <3>3. /\ restore' \in RestoreState /\ restore'.pc = "undo" /\ restore'.plan = restore.plan
          /\ restore'.made = restore.made /\ restore'.had = restore.had /\ restore'.at = back
          /\ restore'.intact = restore.intact /\ restore'.outcome = restore.outcome
      BY <1>1, <3>1, <3>2 DEF RestoreState, Pcs
    <3> QED
      BY <3>3 DEF back
  <2>2. PlannedFiles' = PlannedFiles
    BY <2>1 DEF PlannedFiles
  <2>3. \A n : InHand(n)' <=> InHand(n)
    BY <1>1, <2>1, <2>2, HandGrows
  <2>4. RestoreTyped' /\ Positions' /\ Staged' /\ PlacedSoFar'
    BY <1>1, <1>2, <1>3, <1>5, <2>1, <2>2 DEF RestoreTyped, Positions, Staged, PlacedSoFar, RestoreAt, Early
  <2> QED
    BY <1>1, <1>3, <1>5, <2>1, <2>3, <2>4, QuietKeeps DEF Pcs
<1> QED
  BY <1>4, <1>5 DEF MoveAside

(* The next file is looked for, or all are in place.                       *)
LEMMA PlaceKeeps == ASSUME RestoreInv, Place PROVE RestoreInv'
<1>1. /\ RestoreTyped /\ PlanKnown /\ restore \in RestoreState /\ restore.pc = "place"
      /\ restore.at > 0 /\ restore.at \in Nat /\ restore.intact /\ restore.outcome = "none"
  BY DEF RestoreInv, RestoreTyped, RestoreState, Place, Positions, Forward, Ended, RestoreAt
<1>2. /\ restore.at \in 1..Len(PlannedFiles) /\ Current \in RestoreNames /\ DOMAIN PlannedFiles = 1..Len(PlannedFiles)
      /\ Len(PlannedFiles) \in Nat /\ restore.at \in DOMAIN PlannedFiles /\ Current = PlannedFiles[restore.at].name
      /\ \A i \in DOMAIN PlannedFiles : PlannedFiles[i].name = Current => i = restore.at
      /\ \A i \in DOMAIN PlannedFiles : PlannedFiles[i].name \in RestoreNames
  BY <1>1, CurrentKnown
<1>3. UNCHANGED <<aside, archive, backup, before, touched>>
  BY DEF Place, env
<1>4. InHand(Current)
  BY <1>1, HandGrows
<1>5. CASE /\ files' = Put(files, Current, stage[Current])
           /\ stage' = Put(stage, Current, Absent)
           /\ restore' = NextFile(restore.at)
  <2>1. /\ files' \in [RestoreNames -> Standing] /\ files'[Current] = stage[Current]
        /\ stage' \in [RestoreNames -> Standing]
        /\ \A n \in RestoreNames \ {Current} : files'[n] = files[n] /\ stage'[n] = stage[n]
    BY <1>1, <1>2, <1>5 DEF Put, RestoreTyped, Standing
  <2>2. stage[Current] = PlannedFiles[restore.at].content
    BY <1>1, <1>2 DEF RestoreInv, Staged
  <2>3. \A i \in DOMAIN PlannedFiles : i <= restore.at =>
           PlannedFiles[i].name \in touched \/ files'[PlannedFiles[i].name] = PlannedFiles[i].content
    <3> SUFFICES ASSUME NEW i \in DOMAIN PlannedFiles, i <= restore.at
                 PROVE  PlannedFiles[i].name \in touched \/ files'[PlannedFiles[i].name] = PlannedFiles[i].content
      OBVIOUS
    <3>1. CASE i = restore.at
      BY <1>2, <2>1, <2>2, <3>1
    <3>2. CASE i # restore.at
      <4>1. i < restore.at /\ PlannedFiles[i].name # Current
        BY <1>1, <1>2, <3>2
      <4>2. PlannedFiles[i].name \in touched \/ files[PlannedFiles[i].name] = PlannedFiles[i].content
        BY <1>1, <4>1 DEF RestoreInv, PlacedSoFar
      <4> QED
        BY <1>2, <2>1, <4>1, <4>2
    <3> QED
      BY <3>1, <3>2
  <2>4. CASE restore.at < Len(PlannedFiles)
    <3>1. restore' = [restore EXCEPT !.pc = "look", !.at = restore.at + 1]
      BY <1>5, <2>4 DEF NextFile
    <3>2. /\ restore' \in RestoreState /\ restore'.pc = "look" /\ restore'.plan = restore.plan
          /\ restore'.made = restore.made /\ restore'.had = restore.had
          /\ restore'.at = restore.at + 1
          /\ restore'.intact = restore.intact /\ restore'.outcome = restore.outcome
      <4> DEFINE on == restore.at + 1
      <4>1. on \in Nat
        BY <1>1
      <4>2. restore' = [restore EXCEPT !.pc = "look", !.at = on]
        BY <3>1
      <4> HIDE DEF on
      <4>3. /\ restore' \in RestoreState /\ restore'.pc = "look" /\ restore'.plan = restore.plan
            /\ restore'.made = restore.made /\ restore'.had = restore.had /\ restore'.at = on
            /\ restore'.intact = restore.intact /\ restore'.outcome = restore.outcome
        BY <1>1, <4>1, <4>2 DEF RestoreState, Pcs
      <4> QED
        BY <4>3 DEF on
    <3>3. PlannedFiles' = PlannedFiles /\ \A n : (Made(n)' <=> Made(n)) /\ Orig(n)' = Orig(n)
      BY <1>3, <3>2, SameInHand
    <3>4. \A n : InHand(n)' <=> InHand(n)
      BY <1>1, <3>2, <3>3, HandGrows
    <3>5. RestoreTyped' /\ Positions' /\ Forward'
      BY <1>1, <1>2, <1>3, <2>1, <2>4, <3>2, <3>3, <3>4
      DEF RestoreInv, RestoreTyped, Positions, Forward, RestoreAt, Early
    <3>6. Staged'
      <4> SUFFICES ASSUME NEW i \in DOMAIN PlannedFiles, i >= restore.at + 1
                   PROVE  stage'[PlannedFiles[i].name] = PlannedFiles[i].content
        BY <3>2, <3>3 DEF Staged
      <4>1. i >= restore.at /\ PlannedFiles[i].name # Current
        BY <1>1, <1>2
      <4> QED
        BY <1>1, <1>2, <2>1, <4>1 DEF RestoreInv, Staged
    <3>7. PlacedSoFar'
      BY <1>1, <1>2, <1>3, <2>3, <3>2, <3>3 DEF PlacedSoFar, RestoreAt
    <3>8. ASSUME NEW n \in RestoreNames \ touched PROVE KeptName(n)'
      <4>1. KeptName(n)
        BY <1>1 DEF RestoreInv, Kept
      <4>2. CASE n = Current
        <5>1. before[n] \in Content => aside[n] = before[n]
          BY <1>1, <1>4, <4>2, HandSaves
        <5> QED
          BY <1>1, <1>3, <1>4, <3>2, <3>3, <3>4, <4>1, <4>2, <5>1 DEF KeptName, Saved, RestoreAt
      <4>3. CASE n # Current
        BY <1>1, <1>3, <2>1, <3>2, <3>3, <3>4, <4>1, <4>3 DEF KeptName, Saved, RestoreAt
      <4> QED
        BY <4>2, <4>3
    <3> QED
      BY <1>1, <1>3, <3>2, <3>5, <3>6, <3>7, <3>8, MovingKeeps
  <2>5. CASE ~(restore.at < Len(PlannedFiles))
    <3>1. restore' = [restore EXCEPT !.pc = "forget"]
      BY <1>5, <2>5 DEF NextFile
    <3>2. /\ restore' \in RestoreState /\ restore'.pc = "forget" /\ restore'.plan = restore.plan
          /\ restore'.made = restore.made /\ restore'.had = restore.had /\ restore'.at = restore.at
          /\ restore'.intact = restore.intact /\ restore'.outcome = restore.outcome
      BY <1>1, <3>1 DEF RestoreState, Pcs
    <3>3. PlannedFiles' = PlannedFiles /\ \A n : Made(n)' <=> Made(n)
      BY <1>3, <3>2, SameInHand
    <3>4. AllPlaced'
      BY <1>1, <1>2, <1>3, <2>3, <2>5, <3>3 DEF AllPlaced
    <3>5. RestoreTyped' /\ PlanKnown' /\ Positions' /\ Staged' /\ PlacedSoFar'
      BY <1>1, <1>2, <1>3, <2>1, <3>2, <3>3, <3>4
      DEF RestoreTyped, PlanKnown, Positions, Staged, PlacedSoFar, RestoreAt, Early
    <3>6. MadeInOrder' /\ MadeNew' /\ Forward' /\ Kept' /\ Ended' /\ BeforeRooted' /\ AllOrNothing'
      BY <1>1, <1>3, <3>2, <3>3
      DEF RestoreInv, MadeInOrder, MadeNew, Forward, Kept, Ended, BeforeRooted, AllOrNothing, RestoreAt, Early
    <3> QED
      BY <3>5, <3>6 DEF RestoreInv
  <2> QED
    BY <2>4, <2>5
<1>6. CASE RestoreGoes("undo") /\ UNCHANGED <<files, stage>>
  <2>1. /\ restore' \in RestoreState /\ restore'.pc = "undo" /\ restore'.plan = restore.plan
        /\ restore'.made = restore.made /\ restore'.had = restore.had /\ restore'.at = restore.at
        /\ restore'.intact = restore.intact /\ restore'.outcome = restore.outcome
    BY <1>1, <1>6 DEF RestoreGoes, RestoreState, Pcs
  <2>2. PlannedFiles' = PlannedFiles /\ \A n : (Made(n)' <=> Made(n)) /\ Orig(n)' = Orig(n)
    BY <1>3, <2>1, SameInHand
  <2>3. \A n : InHand(n)' <=> InHand(n)
    BY <1>1, <2>1, <2>2, HandGrows
  <2>4. RestoreTyped' /\ Positions' /\ Staged' /\ PlacedSoFar' /\ Forward'
    BY <1>1, <1>2, <1>3, <1>6, <2>1, <2>2
    DEF RestoreTyped, Positions, Staged, PlacedSoFar, Forward, RestoreAt, Early
  <2>5. ASSUME NEW n \in RestoreNames \ touched PROVE KeptName(n)'
    <3>1. KeptName(n)
      BY <1>1 DEF RestoreInv, Kept
    <3> QED
      BY <1>1, <1>3, <1>6, <2>1, <2>2, <2>3, <3>1 DEF KeptName, Saved, RestoreAt
  <2> QED
    BY <1>1, <1>3, <2>1, <2>4, <2>5, MovingKeeps
<1> QED
  BY <1>5, <1>6 DEF Place

LEMMA UndoRemoveKeeps == ASSUME RestoreInv, UndoRemove PROVE RestoreInv'
<1>1. /\ RestoreTyped /\ PlanKnown /\ restore \in RestoreState /\ restore.pc = "undo"
      /\ restore.at > 0 /\ restore.at \in Nat
  BY DEF RestoreInv, RestoreTyped, RestoreState, UndoRemove, RestoreAt
<1>2. /\ restore.at \in 1..Len(PlannedFiles) /\ Current \in RestoreNames /\ Current = PlannedFiles[restore.at].name
      /\ Len(PlannedFiles) \in Nat /\ InHand(Current)
  BY <1>1, CurrentKnown, HandGrows
<1>3. UNCHANGED <<stage, aside, archive, backup, before, touched>>
  BY DEF UndoRemove, env
<1>4. CASE files' = Put(files, Current, Absent) /\ RestoreGoes("return")
  <2>1. /\ restore' \in RestoreState /\ restore'.pc = "return" /\ restore'.plan = restore.plan
        /\ restore'.made = restore.made /\ restore'.had = restore.had /\ restore'.at = restore.at
        /\ restore'.intact = restore.intact /\ restore'.outcome = restore.outcome
    BY <1>1, <1>4 DEF RestoreGoes, RestoreState, Pcs
  <2>2. PlannedFiles' = PlannedFiles /\ \A n : (Made(n)' <=> Made(n)) /\ Orig(n)' = Orig(n)
    BY <1>3, <2>1, SameInHand
  <2>3. (\A n : InHand(n)' <=> InHand(n)) /\ Current' = Current
    BY <1>1, <2>1, <2>2, HandGrows DEF Current
  <2>4. /\ files' \in [RestoreNames -> Standing] /\ files'[Current] = Absent
        /\ \A n \in RestoreNames \ {Current} : files'[n] = files[n]
    BY <1>1, <1>2, <1>4 DEF Put, RestoreTyped, Standing
  <2>5. RestoreTyped' /\ Positions' /\ Staged' /\ PlacedSoFar' /\ Forward'
    BY <1>1, <1>2, <1>3, <2>1, <2>2, <2>4
    DEF RestoreTyped, Positions, Staged, PlacedSoFar, Forward, RestoreAt, Early
  <2>6. ASSUME NEW n \in RestoreNames \ touched PROVE KeptName(n)'
    <3>1. KeptName(n)
      BY <1>1 DEF RestoreInv, Kept
    <3>2. CASE n = Current
      <4>1. before[n] \in Content => aside[n] = before[n]
        BY <1>1, <1>2, <3>2, HandSaves
      <4> QED
        BY <1>2, <1>3, <2>1, <2>2, <2>3, <2>4, <3>1, <3>2, <4>1 DEF KeptName, Saved, RestoreAt
    <3>3. CASE n # Current
      BY <1>1, <1>3, <2>1, <2>2, <2>3, <2>4, <3>1, <3>3 DEF KeptName, Saved, RestoreAt
    <3> QED
      BY <3>2, <3>3
  <2> QED
    BY <1>1, <1>3, <2>1, <2>5, <2>6, MovingKeeps
<1>5. CASE UNCHANGED files /\ restore' = [restore EXCEPT !.pc = "return", !.intact = FALSE]
  <2>1. /\ restore' \in RestoreState /\ restore'.pc = "return" /\ restore'.plan = restore.plan
        /\ restore'.made = restore.made /\ restore'.had = restore.had /\ restore'.at = restore.at
        /\ ~restore'.intact /\ restore'.outcome = restore.outcome
    BY <1>1, <1>5 DEF RestoreState, Pcs
  <2>2. PlannedFiles' = PlannedFiles /\ \A n : (Made(n)' <=> Made(n)) /\ Orig(n)' = Orig(n)
    BY <1>3, <2>1, SameInHand
  <2>3. \A n : InHand(n)' <=> InHand(n)
    BY <1>1, <2>1, <2>2, HandGrows
  <2>4. RestoreTyped' /\ Positions' /\ Staged' /\ PlacedSoFar' /\ Forward'
    BY <1>1, <1>2, <1>3, <1>5, <2>1, <2>2
    DEF RestoreTyped, Positions, Staged, PlacedSoFar, Forward, RestoreAt, Early
  <2>5. ASSUME NEW n \in RestoreNames \ touched PROVE KeptName(n)'
    <3>1. KeptName(n)
      BY <1>1 DEF RestoreInv, Kept
    <3> QED
      BY <1>3, <1>5, <2>1, <2>2, <2>3, <3>1 DEF KeptName, Saved, RestoreAt
  <2> QED
    BY <1>1, <1>3, <2>1, <2>4, <2>5, MovingKeeps
<1> QED
  BY <1>4, <1>5 DEF UndoRemove

(* What was moved aside is what was there, so returning it undoes the      *)
(* move.                                                                   *)
LEMMA UndoReturnKeeps == ASSUME RestoreInv, UndoReturn PROVE RestoreInv'
<1> DEFINE back == restore.at - 1
           next == [restore EXCEPT !.pc = "undo", !.at = back]
<1>1. /\ RestoreTyped /\ PlanKnown /\ restore \in RestoreState /\ restore.pc = "return"
      /\ restore.at > 0 /\ restore.at \in Nat /\ back \in Nat
  BY DEF RestoreInv, RestoreTyped, RestoreState, UndoReturn, RestoreAt, Positions
<1>2. /\ restore.at \in 1..Len(PlannedFiles) /\ Current \in RestoreNames /\ Len(PlannedFiles) \in Nat /\ InHand(Current)
  BY <1>1, CurrentKnown, HandGrows
<1>3. UNCHANGED <<stage, archive, backup, before, touched>>
  BY DEF UndoReturn, env
<1>4. \/ Current \notin restore.had /\ restore' = next /\ UNCHANGED <<files, aside>>
      \/ /\ Current \in restore.had /\ restore' = next
         /\ files' = Put(files, Current, aside[Current]) /\ aside' = Put(aside, Current, Absent)
      \/ restore' = [next EXCEPT !.intact = FALSE] /\ UNCHANGED <<files, aside>>
  BY DEF UndoReturn
<1>5. /\ restore' \in RestoreState /\ restore'.pc = "undo" /\ restore'.plan = restore.plan
      /\ restore'.made = restore.made /\ restore'.had = restore.had /\ restore'.at = back
      /\ restore'.outcome = restore.outcome
  <2> HIDE DEF back
  <2> QED
    BY <1>1, <1>4, ZenonT(40) DEF RestoreState, Pcs
<1>6. \/ /\ Current \notin restore.had /\ restore'.intact = restore.intact
         /\ UNCHANGED <<files, aside>>
      \/ /\ Current \in restore.had /\ restore'.intact = restore.intact
         /\ files' = Put(files, Current, aside[Current]) /\ aside' = Put(aside, Current, Absent)
      \/ ~restore'.intact /\ UNCHANGED <<files, aside>>
  <2> HIDE DEF back
  <2> QED
    BY <1>1, <1>4 DEF RestoreState
<1> HIDE DEF next
<1>7. PlannedFiles' = PlannedFiles /\ \A n : (Made(n)' <=> Made(n)) /\ Orig(n)' = Orig(n)
  BY <1>3, <1>5, SameInHand
<1>8. \A n : InHand(n)' <=> (InHand(n) /\ n # Current)
  BY <1>1, <1>5, <1>7, HandGrows
<1>9. files' \in [RestoreNames -> Standing] /\ aside' \in [RestoreNames -> Standing]
  BY <1>1, <1>2, <1>6 DEF Put, RestoreTyped, Standing
<1>10. RestoreTyped' /\ Positions' /\ Staged' /\ PlacedSoFar' /\ Forward'
  BY <1>1, <1>2, <1>3, <1>5, <1>7, <1>9
  DEF RestoreTyped, Positions, Staged, PlacedSoFar, Forward, RestoreAt, Early
<1>11. ASSUME NEW n \in RestoreNames \ touched PROVE KeptName(n)'
  <2>1. KeptName(n)
    BY <1>1 DEF RestoreInv, Kept
  <2>2. CASE /\ (Current \notin restore.had /\ restore'.intact = restore.intact) \/ ~restore'.intact
             /\ UNCHANGED <<files, aside>>
    <3>1. CASE n = Current
      BY <1>1, <1>2, <1>3, <1>5, <1>6, <1>7, <1>8, <2>1, <2>2, <3>1 DEF KeptName, Saved, RestoreAt
    <3>2. CASE n # Current
      BY <1>1, <1>3, <1>5, <1>6, <1>7, <1>8, <2>1, <2>2, <3>2 DEF KeptName, Saved, RestoreAt
    <3> QED
      BY <3>1, <3>2
  <2>3. CASE /\ Current \in restore.had /\ restore'.intact = restore.intact
             /\ files' = Put(files, Current, aside[Current]) /\ aside' = Put(aside, Current, Absent)
    <3>1. /\ files'[Current] = aside[Current] /\ aside'[Current] = Absent
          /\ \A m \in RestoreNames \ {Current} : files'[m] = files[m] /\ aside'[m] = aside[m]
      BY <1>1, <1>2, <2>3 DEF Put, RestoreTyped
    <3>2. CASE n = Current
      <4>1. before[n] \in Content => aside[n] = before[n]
        BY <1>1, <1>2, <3>2, HandSaves
      <4>2. files'[n] = Orig(n)
        BY <1>2, <2>1, <2>3, <3>1, <3>2 DEF KeptName
      <4> QED
        BY <1>3, <1>5, <1>7, <1>8, <3>1, <3>2, <4>1, <4>2 DEF KeptName, Saved, RestoreAt
    <3>3. CASE n # Current
      BY <1>1, <1>3, <1>5, <1>7, <1>8, <2>1, <2>3, <3>1, <3>3 DEF KeptName, Saved, RestoreAt
    <3> QED
      BY <3>2, <3>3
  <2> QED
    BY <1>6, <2>2, <2>3
<1> QED
  BY <1>1, <1>3, <1>5, <1>10, <1>11, MovingKeeps

LEMMA UndoneKeeps == ASSUME RestoreInv, Undone PROVE RestoreInv'
<1>1. RestoreTyped /\ restore \in RestoreState /\ restore.pc = "undo" /\ restore.at = 0
  BY DEF RestoreInv, RestoreTyped, Undone, RestoreAt
<1>2. /\ restore' \in RestoreState /\ restore'.pc = "unmake" /\ restore'.plan = restore.plan
      /\ restore'.made = restore.made /\ restore'.had = restore.had /\ restore'.at = restore.at
      /\ restore'.intact = restore.intact /\ restore'.outcome = restore.outcome
  BY <1>1 DEF Undone, RestoreGoes, RestoreState, Pcs
<1>3. UNCHANGED <<files, stage, aside, archive, backup, before, touched>>
  BY DEF Undone, env
<1>4. PlannedFiles' = PlannedFiles /\ \A n : ~InHand(n) /\ ~InHand(n)'
  BY <1>1, <1>2 DEF PlannedFiles, InHand, Handled
<1>5. RestoreTyped' /\ Positions' /\ Staged' /\ PlacedSoFar'
  BY <1>1, <1>2, <1>3, <1>4 DEF RestoreInv, RestoreTyped, Positions, Staged, PlacedSoFar, RestoreAt, Early
<1> QED
  BY <1>1, <1>2, <1>3, <1>4, <1>5, QuietKeeps DEF Pcs

(* A directory that was made and is not empty when it is to be removed has *)
(* something in it that another program wrote.                             *)
LEMMA NotEmptyLeft ==
  ASSUME RestoreInv, restore.pc = "unmake", restore.intact, NEW n \in Nat,
         DOMAIN restore.made = 1..n, n > 0, restore.made[n] \in RestoreNames \ touched,
         ~Empty(restore.made[n])
  PROVE  LeftFor(restore.made[n])
<1> DEFINE d == restore.made[n]
<1>1. PICK m \in RestoreNames : d \in Above[m] /\ (files[m] # Absent \/ aside[m] # Absent)
  BY DEF Empty, Exists
<1>2. Made(d) /\ before[d] = Absent
  BY DEF RestoreInv, MadeNew, Made
<1>3. CASE m \in touched
  BY <1>1, <1>2, <1>3 DEF LeftFor
<1>4. CASE m \notin touched
  <2>1. ~InHand(m)
    BY DEF RestoreInv, Positions, Early, InHand, Handled
  <2>2. files[m] # Absent /\ (files[m] = Orig(m) \/ LeftFor(m))
    BY <1>1, <1>4, <2>1 DEF RestoreInv, Kept, KeptName
  <2>3. CASE LeftFor(m)
    <3>1. PICK f \in touched : m \in Above[f]
      BY <2>3 DEF LeftFor
    <3>2. d \in Above[f]
      <4>1. f \in RestoreNames
        BY <3>1 DEF RestoreInv, RestoreTyped
      <4> QED
        BY <1>1, <3>1, <4>1, RestoreAssumption
    <3> QED
      BY <1>2, <3>1, <3>2 DEF LeftFor
  <2>4. CASE Orig(m) # Absent
    <3>1. CASE Made(m)
      <4>1. PICK i \in 1..n : restore.made[i] = m
        BY <3>1 DEF Made
      <4>2. i = n
        BY <1>1, <4>1 DEF RestoreInv, MadeInOrder
      <4> QED
        BY <1>1, <4>1, <4>2, RestoreAssumption
    <3>2. CASE ~Made(m)
      BY <1>1, <1>2, <2>4, <3>2 DEF Orig, RestoreInv, BeforeRooted, Rooted
    <3> QED
      BY <3>1, <3>2
  <2> QED
    BY <2>2, <2>3, <2>4
<1> QED
  BY <1>3, <1>4

LEMMA RemoveDirectoryKeeps == ASSUME RestoreInv, RemoveDirectory PROVE RestoreInv'
<1>1. /\ RestoreTyped /\ PlanKnown /\ restore \in RestoreState /\ restore.pc = "unmake"
      /\ restore.made \in Seq(RestoreNames) /\ restore.made # <<>> /\ restore.at = 0
      /\ restore.outcome = "none"
  BY DEF RestoreInv, RestoreTyped, RestoreState, RemoveDirectory, RestoreAt, Positions, Ended, Early
<1>2. PICK n \in Nat : /\ n > 0 /\ DOMAIN restore.made = 1..n /\ Len(restore.made) = n
                      /\ Front(restore.made) \in Seq(RestoreNames)
                      /\ DOMAIN Front(restore.made) = 1..(n - 1)
                      /\ \A i \in 1..(n - 1) : Front(restore.made)[i] = restore.made[i]
  <2>1. /\ Len(restore.made) \in Nat /\ DOMAIN restore.made = 1..Len(restore.made)
        /\ Len(restore.made) # 0
    BY <1>1, LenProperties, EmptySeq
  <2>2. /\ Front(restore.made) \in Seq(RestoreNames)
        /\ Len(Front(restore.made)) = Len(restore.made) - 1
        /\ \A i \in 1..(Len(restore.made) - 1) : Front(restore.made)[i] = restore.made[i]
    BY <1>1, <2>1, SubSeqProperties DEF Front
  <2>3. DOMAIN Front(restore.made) = 1..Len(Front(restore.made))
    BY <2>2, LenProperties
  <2> QED
    BY <2>1, <2>2, <2>3
<1> DEFINE d == restore.made[n]
<1>3. d \in RestoreNames /\ Last(restore.made) = d
  BY <1>1, <1>2, ElementOfSeq DEF Last
<1>4. UNCHANGED <<stage, aside, archive, backup, before, touched>>
  BY DEF RemoveDirectory, env
<1>5. files' = IF Empty(d) THEN Put(files, d, Absent) ELSE files
  BY <1>3 DEF RemoveDirectory
<1>6. restore' = [restore EXCEPT !.made = Front(restore.made)]
  BY DEF RemoveDirectory
<1>7. /\ restore' \in RestoreState /\ restore'.pc = "unmake" /\ restore'.plan = restore.plan
      /\ restore'.made = Front(restore.made) /\ restore'.had = restore.had /\ restore'.at = 0
      /\ restore'.intact = restore.intact /\ restore'.outcome = "none"
  BY <1>1, <1>2, <1>6 DEF RestoreState
<1>8. PlannedFiles' = PlannedFiles /\ \A m : ~InHand(m) /\ ~InHand(m)'
  BY <1>1, <1>7 DEF PlannedFiles, InHand, Handled
<1>9. \A m : Made(m)' <=> Made(m) /\ m # d
  <2>1. \A i \in 1..(n - 1) : restore.made[i] # d
    BY <1>2 DEF RestoreInv, MadeInOrder
  <2>2. \A i \in 1..n : i = n \/ i \in 1..(n - 1)
    OBVIOUS
  <2> QED
    BY <1>2, <1>7, <2>1, <2>2 DEF Made
<1>10. /\ files' \in [RestoreNames -> Standing]
       /\ \A m \in RestoreNames \ {d} : files'[m] = files[m]
       /\ Empty(d) => files'[d] = Absent
       /\ ~Empty(d) => files'[d] = files[d]
  BY <1>1, <1>3, <1>5 DEF Put, RestoreTyped, Standing
<1>11. RestoreTyped' /\ PlanKnown' /\ Positions' /\ Staged' /\ PlacedSoFar'
  BY <1>1, <1>4, <1>7, <1>8, <1>10
  DEF RestoreInv, RestoreTyped, PlanKnown, Positions, Staged, PlacedSoFar, RestoreAt, Early
<1>12. MadeInOrder' /\ MadeNew'
  <2>1. MadeNew'
    BY <1>4, <1>9 DEF RestoreInv, MadeNew
  <2>2. \A i \in 1..(n - 1) : i \in DOMAIN restore.made
    BY <1>2
  <2>3. \A i, j \in 1..(n - 1) : i < j => /\ restore.made[i] # restore.made[j]
                                          /\ restore.made[j] \notin Above[restore.made[i]]
    BY <2>2 DEF RestoreInv, MadeInOrder
  <2>4. \A i, j \in 1..(n - 1) : i < j => /\ restore'.made[i] # restore'.made[j]
                                          /\ restore'.made[j] \notin Above[restore'.made[i]]
    BY <1>2, <1>7, <2>3, SMTT(30)
  <2> QED
    BY <1>2, <1>7, <2>1, <2>4 DEF MadeInOrder, Early, RestoreAt
<1>13. Kept'
  <2> SUFFICES ASSUME NEW m \in RestoreNames \ touched PROVE KeptName(m)'
    BY <1>4 DEF Kept
  <2>1. KeptName(m)
    BY <1>1 DEF RestoreInv, Kept
  <2>2. CASE m = d
    <3>1. before[m] = Absent /\ ~Made(m)'
      BY <1>2, <1>3, <1>9, <2>2 DEF RestoreInv, MadeNew, Made
    <3>2. restore.intact /\ ~Empty(d) => LeftFor(d)
      BY <1>1, <1>2, <1>3, <2>2, NotEmptyLeft
    <3>3. LeftFor(m)' <=> LeftFor(m)
      BY <1>4 DEF LeftFor
    <3> QED
      BY <1>4, <1>7, <1>8, <1>10, <2>1, <2>2, <3>1, <3>2, <3>3, RestoreAssumption
      DEF KeptName, Saved, Orig, RestoreAt
  <2>3. CASE m # d
    <3>1. Orig(m)' = Orig(m) /\ (LeftFor(m)' <=> LeftFor(m))
      BY <1>4, <1>9, <2>3 DEF Orig, LeftFor
    <3> QED
      BY <1>1, <1>4, <1>7, <1>8, <1>10, <2>1, <2>3, <3>1 DEF KeptName, Saved, RestoreAt
  <2> QED
    BY <2>2, <2>3
<1>14. Forward' /\ Ended' /\ BeforeRooted' /\ AllOrNothing'
  BY <1>4, <1>7 DEF RestoreInv, Forward, Ended, BeforeRooted, AllOrNothing, RestoreAt, Early
<1> QED
  BY <1>11, <1>12, <1>13, <1>14 DEF RestoreInv

LEMMA RolledBackKeeps == ASSUME RestoreInv, RolledBack PROVE RestoreInv'
<1> DEFINE outcome == IF restore.intact THEN "failed" ELSE "incomplete"
<1>1. /\ RestoreTyped /\ restore.pc = "unmake" /\ restore.made = <<>> /\ restore.at = 0
  BY DEF RestoreInv, RolledBack, RestoreAt, Positions, Early
<1>2. \A n : ~InHand(n) /\ ~Made(n)
  BY <1>1, NothingDistinct DEF InHand, Handled, Made
<1>3. restore.intact =>
        \A n \in RestoreNames \ touched : files[n] = before[n] \/ \E f \in touched : n \in Above[f]
  BY <1>1, <1>2 DEF RestoreInv, Kept, KeptName, Orig, LeftFor
<1>4. /\ restore' = [restore EXCEPT !.pc = "ended", !.outcome = outcome]
      /\ UNCHANGED <<files, aside, before, touched, archive, backup>> /\ ~RestoreAt("ended")
      /\ outcome \in Outcomes \ {"none"} /\ outcome # "restored" /\ outcome # "refused"
      /\ outcome = "failed" => restore.intact
  BY <1>1 DEF RolledBack, EndRestore, env, RestoreAt, Outcomes
<1>5. stage' \in [RestoreNames -> Standing]
  BY DEF RolledBack, NoStage, Standing
<1> HIDE DEF outcome
<1> QED
  BY <1>3, <1>4, <1>5, EndKeeps

LEMMA ForgetKeeps == ASSUME RestoreInv, Forget PROVE RestoreInv'
<1> DEFINE n == CHOOSE x \in restore.had : TRUE
<1>1. /\ RestoreTyped /\ restore \in RestoreState /\ restore.pc = "forget" /\ n \in RestoreNames
      /\ restore.outcome = "none"
  BY DEF RestoreInv, RestoreTyped, RestoreState, Forget, RestoreAt, Ended
<1>2. /\ restore' = [restore EXCEPT !.had = restore.had \ {n}]
      /\ aside' = Put(aside, n, Absent) \/ UNCHANGED aside
      /\ UNCHANGED <<files, stage, archive, backup, before, touched>>
  BY DEF Forget, env
<1> HIDE DEF n
<1>3. /\ restore' \in RestoreState /\ restore'.pc = "forget" /\ restore'.plan = restore.plan
      /\ restore'.made = restore.made /\ restore'.at = restore.at
      /\ restore'.intact = restore.intact /\ restore'.outcome = "none"
  BY <1>1, <1>2 DEF RestoreState
<1>4. aside' \in [RestoreNames -> Standing]
  BY <1>1, <1>2 DEF Put, RestoreTyped, Standing
<1>5. PlannedFiles' = PlannedFiles /\ \A m : Made(m)' <=> Made(m)
  BY <1>2, <1>3, SameInHand
<1>6. AllPlaced' <=> AllPlaced
  BY <1>2, <1>5 DEF AllPlaced
<1>7. RestoreTyped' /\ PlanKnown' /\ Positions' /\ Staged' /\ PlacedSoFar'
  BY <1>1, <1>2, <1>3, <1>4, <1>5, <1>6
  DEF RestoreInv, RestoreTyped, PlanKnown, Positions, Staged, PlacedSoFar, RestoreAt, Early
<1>8. MadeInOrder' /\ MadeNew' /\ Forward' /\ Kept' /\ Ended' /\ BeforeRooted' /\ AllOrNothing'
  BY <1>1, <1>2, <1>3, <1>5
  DEF RestoreInv, MadeInOrder, MadeNew, Forward, Kept, Ended, BeforeRooted, AllOrNothing, RestoreAt, Early
<1> QED
  BY <1>7, <1>8 DEF RestoreInv

LEMMA RestoredKeeps == ASSUME RestoreInv, Restored PROVE RestoreInv'
<1>1. /\ restore' = [restore EXCEPT !.pc = "ended", !.outcome = "restored"]
      /\ UNCHANGED <<files, aside, before, touched, archive, backup>> /\ ~RestoreAt("ended") /\ RestoreAt("forget")
      /\ "restored" \in Outcomes \ {"none"}
  BY DEF Restored, EndRestore, env, RestoreAt, Outcomes
<1>2. stage' \in [RestoreNames -> Standing]
  BY DEF Restored, NoStage, Standing
<1> QED
  BY <1>1, <1>2, EndKeeps

LEMMA DieRestoringKeeps == ASSUME RestoreInv, DieRestoring PROVE RestoreInv'
<1>1. /\ restore' = [restore EXCEPT !.pc = "ended", !.outcome = "died"]
      /\ UNCHANGED <<files, aside, before, touched, archive, backup>> /\ ~RestoreAt("ended")
      /\ "died" \in Outcomes \ {"none"}
  BY DEF DieRestoring, EndRestore, env, RestoreAt, Outcomes
<1>2. stage' \in [RestoreNames -> Standing]
  BY DEF DieRestoring, RestoreInv, RestoreTyped
<1> QED
  BY <1>1, <1>2, EndKeeps

-------------------------------------------------------------------------------
(* The backup, the other programs and every step.                          *)

LEMMA PartIn ==
  ASSUME NEW S, NEW T, NEW s \in Seq(S), NEW chosen \in SUBSET DOMAIN s,
         \A k \in chosen : s[k] \in T
  PROVE  /\ Part(s, chosen) \in Seq(T) /\ DOMAIN Part(s, chosen) = 1..Len(Part(s, chosen))
         /\ Len(Part(s, chosen)) \in Nat
         /\ \A i \in DOMAIN Part(s, chosen) : \E k \in chosen : Part(s, chosen)[i] = s[k]
<1>1. /\ Part(s, chosen) \in Seq(S) /\ DOMAIN Part(s, chosen) = 1..Cardinality(chosen)
      /\ \E at : PartOf(s, chosen, at)
  BY PartIsPart
<1>2. PICK at : PartOf(s, chosen, at)
  BY <1>1
<1>3. \A i \in 1..Cardinality(chosen) : at[i] \in chosen /\ Part(s, chosen)[i] = s[at[i]]
  BY <1>2 DEF PartOf
<1>4. Len(Part(s, chosen)) \in Nat /\ DOMAIN Part(s, chosen) = 1..Len(Part(s, chosen))
  BY <1>1, LenProperties
<1>5. Part(s, chosen) \in [1..Len(Part(s, chosen)) -> T]
  <2>1. Part(s, chosen) = [i \in DOMAIN Part(s, chosen) |-> Part(s, chosen)[i]]
    BY <1>1, LenProperties, <1>4
  <2>2. \A i \in DOMAIN Part(s, chosen) : Part(s, chosen)[i] \in T
    BY <1>1, <1>3
  <2> QED
    BY <1>4, <2>1, <2>2
<1>6. Part(s, chosen) \in UNION {[1..m -> T] : m \in Nat}
  BY <1>4, <1>5
<1> QED
  BY <1>1, <1>3, <1>4, <1>6, SeqDef

LEMMA BackupKeeps ==
  ASSUME RestoreInv, UNCHANGED backupVars, archive' \in Archive, backup' \in BackupState
  PROVE  RestoreInv'
<1>1. UNCHANGED <<files, stage, aside, restore, before, touched>>
  BY DEF backupVars
<1>2. PlannedFiles' = PlannedFiles /\ \A n : (Made(n)' <=> Made(n)) /\ Orig(n)' = Orig(n)
  BY <1>1, SameInHand
<1>3. (\A n : InHand(n)' <=> InHand(n)) /\ Current' = Current
  BY <1>1, <1>2 DEF InHand, Handled, Current
<1>4. RestoreTyped' /\ PlanKnown' /\ Positions' /\ Staged' /\ PlacedSoFar' /\ MadeInOrder' /\ MadeNew'
  BY <1>1, <1>2
  DEF RestoreInv, RestoreTyped, PlanKnown, Positions, Staged, PlacedSoFar, MadeInOrder, MadeNew,
      AllPlaced, RestoreAt
<1>5. Forward' /\ Kept' /\ Ended' /\ BeforeRooted' /\ AllOrNothing'
  BY <1>1, <1>2, <1>3
  DEF RestoreInv, Forward, Kept, KeptName, LeftFor, Saved, Ended, BeforeRooted, Rooted, AllOrNothing,
      AllPlaced, RestoreAt
<1> QED
  BY <1>4, <1>5 DEF RestoreInv

LEMMA BeginBackupKeeps == ASSUME RestoreInv, NEW secrets \in Secrets, BeginBackup(secrets) PROVE RestoreInv'
<1> DEFINE chosen == {i \in DOMAIN Order : Order[i] \in Project}
           unread == <<"config.yaml", "ai.env">> \o (IF HasProject THEN Part(Order, chosen) ELSE <<>>)
<1>1. Part(Order, chosen) \in Seq(RestoreNames)
  <2>1. Order \in Seq(RestoreNames \cup {Manifest}) /\ chosen \in SUBSET DOMAIN Order
    BY RestoreAssumption
  <2>2. \A k \in chosen : Order[k] \in RestoreNames
    BY DEF RestoreNames
  <2> HIDE DEF chosen
  <2> QED
    BY <2>1, <2>2, PartIn
<1>2. <<"config.yaml", "ai.env">> \in Seq(RestoreNames)
  BY DEF RestoreNames, LabFiles
<1>3. unread \in Seq(RestoreNames)
  <2>1. (IF HasProject THEN Part(Order, chosen) ELSE <<>>) \in Seq(RestoreNames)
    BY <1>1, EmptySeq
  <2> QED
    BY <1>2, <2>1, ConcatProperties
<1>4. backup' = [pc |-> "read", secrets |-> secrets, got |-> {}, unread |-> unread]
  BY DEF BeginBackup
<1> HIDE DEF unread
<1>5. backup' \in BackupState
  BY <1>3, <1>4, RestoreAssumption DEF BackupState
<1> QED
  BY <1>5, BackupKeeps DEF BeginBackup, RestoreInv, RestoreTyped

LEMMA ReadFileKeeps == ASSUME RestoreInv, ReadFile PROVE RestoreInv'
<1> DEFINE n == Head(backup.unread)
           next == [backup EXCEPT !.unread = Tail(backup.unread)]
           data == IF files[n] = "link" THEN "old" ELSE files[n]
           kept == IF n = "ai.env" /\ ~backup.secrets THEN <<"ai.keys.json", "keys">> ELSE <<n, data>>
<1>1. RestoreTyped /\ backup \in BackupState /\ backup.unread \in Seq(RestoreNames) /\ backup.unread # <<>>
      /\ backup.got \in SUBSET (RestoreNames \X Content)
  BY DEF RestoreInv, RestoreTyped, BackupState, ReadFile
<1>2. n \in RestoreNames /\ Tail(backup.unread) \in Seq(RestoreNames)
  BY <1>1, HeadTailProperties
<1>3. /\ next \in BackupState
      /\ [next EXCEPT !.pc = "ended", !.got = {}] \in BackupState
  BY <1>1, <1>2 DEF BackupState
<1>4. ASSUME files[n] \in Content \/ files[n] = "link"
      PROVE  [next EXCEPT !.got = next.got \cup {kept}] \in BackupState
  <2>1. kept \in RestoreNames \X Content
    BY <1>2, <1>4 DEF RestoreNames, LabFiles, Content
  <2>2. next.got \cup {kept} \in SUBSET (RestoreNames \X Content)
    BY <1>3, <2>1 DEF BackupState
  <2> HIDE DEF kept, next
  <2> QED
    BY <1>3, <2>2 DEF BackupState
<1>5. \/ backup' = next
      \/ (files[n] \in Content \/ files[n] = "link") /\ backup' = [next EXCEPT !.got = next.got \cup {kept}]
      \/ backup' = [next EXCEPT !.pc = "ended", !.got = {}]
  BY Zenon DEF ReadFile
<1> HIDE DEF next, kept
<1>6. backup' \in BackupState
  BY <1>3, <1>4, <1>5
<1> QED
  BY <1>6, BackupKeeps DEF ReadFile, RestoreInv, RestoreTyped

(* What a backup writes is an archive.                                     *)
LEMMA NewArchiveKnown ==
  ASSUME NEW got \in SUBSET (RestoreNames \X Content) PROVE NewArchive(got) \in Archive
<1> DEFINE named(n) == {f \in got : f[1] = n}
           chosen == {i \in DOMAIN Order : Order[i] = Manifest \/ named(Order[i]) # {}}
           held == Part(Order, chosen)
           content(i) == IF held[i] = Manifest THEN "keys" ELSE (CHOOSE f \in named(held[i]) : TRUE)[2]
           entries == [i \in DOMAIN held |->
                         [name |-> held[i], type |-> "file", size |-> 1, content |-> content(i)]]
           listed == Part(held, {i \in DOMAIN held : held[i] # Manifest})
<1>1. Order \in Seq(RestoreNames \cup {Manifest}) /\ chosen \in SUBSET DOMAIN Order
  BY RestoreAssumption
<1>2. \A k \in chosen : Order[k] \in RestoreNames \cup {Manifest}
  <2>1. \A k \in DOMAIN Order : Order[k] \in RestoreNames \cup {Manifest}
    BY <1>1, ElementOfSeq, LenProperties
  <2> QED
    BY <1>1, <2>1
<1>3. /\ held \in Seq(RestoreNames \cup {Manifest}) /\ DOMAIN held = 1..Len(held) /\ Len(held) \in Nat
      /\ \A i \in DOMAIN held : \E k \in chosen : held[i] = Order[k]
  <2> HIDE DEF chosen
  <2> QED
    BY <1>1, <1>2, PartIn
<1>4. \A i \in DOMAIN held : held[i] \in RestoreNames \cup {Manifest} /\ content(i) \in Content
  <2> SUFFICES ASSUME NEW i \in DOMAIN held
               PROVE  held[i] \in RestoreNames \cup {Manifest} /\ content(i) \in Content
    OBVIOUS
  <2>1. PICK k \in chosen : held[i] = Order[k]
    BY <1>3
  <2>2. held[i] \in RestoreNames \cup {Manifest}
    BY <1>2, <2>1
  <2>3. held[i] = Manifest \/ named(held[i]) # {}
    BY <2>1
  <2>4. \A f \in named(held[i]) : f[2] \in Content
    OBVIOUS
  <2> HIDE DEF held, named
  <2> QED
    BY <2>2, <2>3, <2>4 DEF Content
<1>5. entries \in Seq(ArchiveEntry)
  <2> DEFINE entry(i) == [name |-> held[i], type |-> "file", size |-> 1, content |-> content(i)]
  <2>1. \A i \in DOMAIN held : entry(i) \in ArchiveEntry
    <3> HIDE DEF held, content
    <3> QED
      BY <1>4 DEF ArchiveEntry, EntryName
  <2>2. entries = [i \in 1..Len(held) |-> entry(i)]
    BY <1>3
  <2> HIDE DEF entry, entries, held
  <2>3. entries \in [1..Len(held) -> ArchiveEntry]
    BY <1>3, <2>1, <2>2
  <2>4. entries \in UNION {[1..m -> ArchiveEntry] : m \in Nat}
    BY <1>3, <2>3
  <2> QED
    BY <2>4, SeqDef
<1>6. listed \in Seq(EntryName)
  <2> HIDE DEF held
  <2>1. \A k \in DOMAIN held : held[k] \in EntryName
    BY <1>4 DEF EntryName
  <2>2. {i \in DOMAIN held : held[i] # Manifest} \in SUBSET DOMAIN held
    OBVIOUS
  <2> QED
    BY <1>3, <2>1, <2>2, PartIn
<1>7. NewArchive(got) = [entries |-> entries, listed |-> listed, version |-> 1, sound |-> TRUE]
  BY Zenon DEF NewArchive
<1> HIDE DEF entries, listed
<1> QED
  BY <1>5, <1>6, <1>7 DEF Archive

LEMMA WriteBackupKeeps == ASSUME RestoreInv, writeBackupArchive PROVE RestoreInv'
<1>1. backup \in BackupState /\ archive \in Archive /\ backup.got \in SUBSET (RestoreNames \X Content)
  BY DEF RestoreInv, RestoreTyped, BackupState
<1>2. NewArchive(backup.got) \in Archive
  BY <1>1, NewArchiveKnown
<1>3. archive' \in Archive
  BY <1>1, <1>2 DEF writeBackupArchive
<1>4. \/ backup' = [backup EXCEPT !.pc = "written", !.got = {}]
      \/ backup' = [backup EXCEPT !.pc = "ended", !.got = {}]
  BY DEF writeBackupArchive
<1>5. backup' \in BackupState
  BY <1>1, <1>4 DEF BackupState
<1> QED
  BY <1>3, <1>5, BackupKeeps DEF writeBackupArchive

LEMMA EditKeeps == ASSUME RestoreInv, NEW n \in RestoreNames, Edit(n) PROVE RestoreInv'
<1>1. /\ RestoreTyped
      /\ UNCHANGED <<stage, aside, archive, restore, backup, before>>
      /\ touched' = touched \cup {n} /\ files' = Put(files, n, "edited")
      /\ \A d \in Above[n] : files[d] = "dir"
  BY DEF RestoreInv, Edit
<1>2. /\ files' \in [RestoreNames -> Standing] /\ files'[n] = "edited"
      /\ \A m \in RestoreNames \ {n} : files'[m] = files[m]
  BY <1>1 DEF Put, RestoreTyped, Standing, Content
<1>3. PlannedFiles' = PlannedFiles /\ \A m : (Made(m)' <=> Made(m)) /\ Orig(m)' = Orig(m)
  BY <1>1, SameInHand
<1>4. (\A m : InHand(m)' <=> InHand(m)) /\ Current' = Current
  BY <1>1, <1>3 DEF InHand, Handled, Current
<1>5. \A i \in DOMAIN PlannedFiles : PlannedFiles[i].name \in RestoreNames
  BY FilesKnown DEF RestoreInv
<1>6. \A i \in DOMAIN PlannedFiles :
        (PlannedFiles[i].name \in touched \/ files[PlannedFiles[i].name] = PlannedFiles[i].content) =>
          (PlannedFiles[i].name \in touched' \/ files'[PlannedFiles[i].name] = PlannedFiles[i].content)
  BY <1>1, <1>2, <1>5
<1>7. AllPlaced => AllPlaced'
  BY <1>3, <1>6 DEF AllPlaced
<1>8. RestoreTyped' /\ PlanKnown' /\ Positions' /\ Staged' /\ MadeInOrder' /\ MadeNew' /\ Forward'
  BY <1>1, <1>2, <1>3, <1>4
  DEF RestoreInv, RestoreTyped, PlanKnown, Positions, Staged, MadeInOrder, MadeNew, Forward, RestoreAt
<1>9. PlacedSoFar'
  BY <1>1, <1>3, <1>6, <1>7 DEF RestoreInv, PlacedSoFar, RestoreAt
<1>10. ASSUME NEW m \in RestoreNames \ touched'
       PROVE  m \in RestoreNames \ touched /\ files'[m] = files[m] /\ (LeftFor(m) => LeftFor(m)')
  BY <1>1, <1>2, <1>10 DEF LeftFor
<1>11. Kept'
  <2> SUFFICES ASSUME restore.pc \notin {"forget", "ended"}, NEW m \in RestoreNames \ touched'
               PROVE  KeptName(m)'
    BY <1>1 DEF Kept
  <2>1. m \in RestoreNames \ touched /\ files'[m] = files[m] /\ (LeftFor(m) => LeftFor(m)')
    BY <1>10
  <2>2. KeptName(m)
    BY <2>1 DEF RestoreInv, Kept
  <2> QED
    BY <1>1, <1>3, <1>4, <2>1, <2>2 DEF KeptName, Saved, RestoreAt
<1>12. Ended'
  <2>1. (\A m \in RestoreNames \ touched : Saved(m)) => \A m \in RestoreNames \ touched' : Saved(m)'
    BY <1>1, <1>10 DEF Saved
  <2> QED
    BY <1>1, <1>7, <2>1 DEF RestoreInv, Ended, RestoreAt
<1>13. BeforeRooted'
  <2>1. Rooted(before)'
    BY <1>1 DEF RestoreInv, BeforeRooted, Rooted
  <2>2. Rooted(files) => Rooted(files)'
    <3>1. \A m \in RestoreNames : Above[m] \in SUBSET RestoreNames
      BY RestoreAssumption DEF RestoreNames
    <3>2. \A d \in Above[n] : files[d] # Absent
      BY <1>1, RestoreAssumption
    <3>3. "edited" # Absent
      BY RestoreAssumption DEF Content
    <3> QED
      BY <1>2, <3>1, <3>2, <3>3 DEF Rooted
  <2> QED
    BY <1>1, <2>1, <2>2 DEF RestoreInv, BeforeRooted, RestoreAt
<1>14. AllOrNothing'
  <2>1. restore'.outcome = "restored" => AllPlaced'
    BY <1>1, <1>7 DEF RestoreInv, AllOrNothing
  <2>2. ASSUME restore'.outcome \in {"refused", "failed"}, NEW m \in RestoreNames
        PROVE  m \in touched' \/ files'[m] = before'[m] \/ \E f \in touched' : m \in Above[f]
    <3>1. m \in touched \/ files[m] = before[m] \/ \E f \in touched : m \in Above[f]
      BY <1>1, <2>2 DEF RestoreInv, AllOrNothing
    <3> QED
      BY <1>1, <1>2, <3>1
  <2> QED
    BY <2>1, <2>2 DEF AllOrNothing
<1> QED
  BY <1>8, <1>9, <1>11, <1>12, <1>13, <1>14 DEF RestoreInv

LEMMA RewriteKeeps == ASSUME RestoreInv, Rewrite PROVE RestoreInv'
<1>1. /\ RestoreTyped /\ PlanKnown /\ restore \in RestoreState /\ restore.pc = "extract"
      /\ archive' \in Archive
  BY RestoreAssumption DEF RestoreInv, RestoreTyped, Rewrite, RestoreAt
<1>2. /\ restore' \in RestoreState /\ restore'.pc = "extract" /\ restore'.plan = restore.plan
      /\ restore'.opened = archive' /\ restore'.entries = restore.entries
      /\ restore'.made = restore.made /\ restore'.had = restore.had /\ restore'.at = restore.at
      /\ restore'.intact = restore.intact /\ restore'.outcome = restore.outcome
  BY <1>1 DEF Rewrite, RestoreState
<1>3. RestoreTyped' /\ PlanKnown' /\ Staged'
  BY <1>1, <1>2 DEF Rewrite, RestoreTyped, PlanKnown, Staged, RestoreAt
<1> QED
  BY <1>1, <1>2, <1>3, EarlyKeeps DEF Rewrite, Early

LEMMA RestoreStepKeeps == RestoreInv /\ [RestoreNext]_restoreVars => RestoreInv'
<1> SUFFICES ASSUME RestoreInv, [RestoreNext]_restoreVars PROVE RestoreInv'
  OBVIOUS
<1>1. CASE RestoreStep
  <2>1. CASE \E force \in BOOLEAN : BeginRestore(force)
    BY <2>1, BeginRestoreKeeps
  <2>2. CASE CheckLab \/ Validate \/ Extract \/ Preflight \/ MakeDirectory \/ DirectoriesMade
    BY <2>2, CheckLabKeeps, ValidateKeeps, ExtractKeeps, PreflightKeeps, MakeDirectoryKeeps,
       DirectoriesMadeKeeps
  <2>3. CASE Look \/ MoveAside \/ Place
    BY <2>3, LookKeeps, MoveAsideKeeps, PlaceKeeps
  <2>4. CASE UndoRemove \/ UndoReturn \/ Undone \/ RemoveDirectory \/ RolledBack
    BY <2>4, UndoRemoveKeeps, UndoReturnKeeps, UndoneKeeps, RemoveDirectoryKeeps, RolledBackKeeps
  <2>5. CASE Forget \/ Restored \/ DieRestoring
    BY <2>5, ForgetKeeps, RestoredKeeps, DieRestoringKeeps
  <2> QED
    BY <1>1, <2>1, <2>2, <2>3, <2>4, <2>5 DEF RestoreStep
<1>2. CASE BackupStep
  BY <1>2, BeginBackupKeeps, ReadFileKeeps, WriteBackupKeeps DEF BackupStep
<1>3. CASE OthersStep
  BY <1>3, EditKeeps, RewriteKeeps DEF OthersStep, RestoreNames
<1>4. CASE UNCHANGED restoreVars
  BY <1>4, BackupKeeps DEF restoreVars, backupVars, RestoreInv, RestoreTyped
<1> QED
  BY <1>1, <1>2, <1>3, <1>4 DEF RestoreNext

LEMMA RestoreInvariant == RestoreSpec => []RestoreInv
<1> QED
  BY RestoreInitInv, RestoreStepKeeps, PTL DEF RestoreSpec

LEMMA InvKeepsOriginals == RestoreInv => OriginalsKept
<1> SUFFICES ASSUME RestoreInv, NEW n \in RestoreNames, before[n] \in Content, n \notin touched
             PROVE  files[n] = before[n] \/ aside[n] = before[n] \/ AllPlaced
  BY DEF OriginalsKept
<1>1. CASE RestoreAt("forget")
  BY <1>1 DEF RestoreInv, PlacedSoFar
<1>2. CASE RestoreAt("ended")
  BY <1>2 DEF RestoreInv, Ended, Saved
<1>3. CASE ~RestoreAt("forget") /\ ~RestoreAt("ended")
  BY <1>3 DEF RestoreInv, Kept, KeptName, Saved, RestoreAt
<1> QED
  BY <1>1, <1>2, <1>3

(* A restore loses no file: until every file of the archive is in place,   *)
(* what the lab or the project had is at its place or in the backup file   *)
(* beside it, whichever step of commitStaged or of its rollback fails and  *)
(* wherever the process dies.                                              *)
THEOREM RestoreLosesNothing == RestoreSpec => []OriginalsKept
<1> QED
  BY RestoreInvariant, InvKeepsOriginals, PTL

(* What a restore reports is so: "restored" after all files were put in    *)
(* place, "refused" or "failed" when nothing was changed or all of it was  *)
(* undone, whatever other programs wrote meanwhile.                        *)
THEOREM RestoreSaysWhatItDid == RestoreSpec => []AllOrNothing
<1>1. RestoreInv => AllOrNothing
  BY DEF RestoreInv
<1> QED
  BY <1>1, RestoreInvariant, PTL
-------------------------------------------------------------------------------
(* A backup that was written can be restored.                              *)

(* A set of natural numbers that is not empty has a least element.         *)
LEMMA LeastOf ==
  ASSUME NEW S, S \subseteq Nat, S # {}
  PROVE  \E m \in S : \A n \in S : m <= n
<1>1. PICK m \in S : \A n \in S : <<n, m>> \notin OpToRel(<, Nat)
  BY NatLessThanWellFounded, WFMin
<1>2. \A n \in S : ~ (n < m)
  BY <1>1 DEF OpToRel
<1> QED
  BY <1>2

(* The function that TotalBytes applies: the bytes of a set of entries.    *)
Bytes(s) ==
  CHOOSE bytes :
    bytes = [T \in SUBSET DOMAIN s |->
               IF T = {} THEN 0
               ELSE LET i == CHOOSE x \in T : TRUE IN s[i].size + bytes[T \ {i}]]

LEMMA TotalUnfolds ==
  ASSUME NEW a PROVE TotalBytes(a) = Bytes(a.entries)[DOMAIN a.entries]
  BY DEF TotalBytes, FoldSeq, FoldFunction, FoldFunctionOnSet, MapThenFoldSet, Bytes

(* Entries of one byte have as many bytes as there are.                    *)
LEMMA OneByteEach ==
  ASSUME NEW s, NEW n \in Nat, DOMAIN s = 1..n, \A i \in 1..n : s[i].size = 1
  PROVE  Bytes(s)[1..n] = n
<1> DEFINE one(T) == CHOOSE x \in T : TRUE
           eqn(r) == r = [T \in SUBSET (1..n) |->
                            IF T = {} THEN 0 ELSE s[one(T)].size + r[T \ {one(T)}]]
           g == [T \in SUBSET (1..n) |-> Cardinality(T)]
           r == Bytes(s)
           bad == {T \in SUBSET (1..n) : r[T] # Cardinality(T)}
           sizes == {Cardinality(T) : T \in bad}
<1>1. ASSUME NEW T \in SUBSET (1..n), T # {}
      PROVE  /\ one(T) \in 1..n /\ T \ {one(T)} \in SUBSET (1..n)
             /\ Cardinality(T) \in Nat /\ Cardinality(T \ {one(T)}) \in Nat
             /\ Cardinality(T) = 1 + Cardinality(T \ {one(T)})
  <2>1. one(T) \in T
    BY <1>1
  <2> HIDE DEF one
  <2>2. IsFiniteSet(T) /\ Cardinality(T) \in Nat
    BY FiniteChosen
  <2>3. T \ {one(T)} \in SUBSET (1..n)
    OBVIOUS
  <2>4. Cardinality(T \ {one(T)}) \in Nat
    BY <2>3, FiniteChosen
  <2>5. Cardinality(T \ {one(T)}) = Cardinality(T) - 1
    BY <2>1, <2>2, FS_RemoveElement
  <2>6. one(T) \in 1..n
    BY <2>1
  <2>7. Cardinality(T) = 1 + Cardinality(T \ {one(T)})
    BY <2>2, <2>4, <2>5
  <2> QED
    BY <2>2, <2>3, <2>4, <2>6, <2>7
<1>2. eqn(g)
  <2>1. ASSUME NEW T \in SUBSET (1..n)
        PROVE  Cardinality(T) = IF T = {} THEN 0 ELSE s[one(T)].size + g[T \ {one(T)}]
    <3>1. CASE T = {}
      BY <3>1, FS_EmptySet
    <3>2. CASE T # {}
      <4>1. g[T \ {one(T)}] = Cardinality(T \ {one(T)}) /\ s[one(T)].size = 1
        BY <1>1, <3>2
      <4> HIDE DEF g, one
      <4> QED
        BY <1>1, <3>2, <4>1
    <3> QED
      BY <3>1, <3>2
  <2> QED
    BY <2>1
<1>3. eqn(r)
  <2>1. r = CHOOSE x : eqn(x)
    BY Zenon DEF Bytes
  <2> HIDE DEF eqn, r, g
  <2> QED
    BY <1>2, <2>1
<1>4. ASSUME bad # {} PROVE FALSE
  <2>1. sizes \subseteq Nat /\ sizes # {}
    <3>1. \A T \in bad : Cardinality(T) \in Nat
      BY FiniteChosen
    <3> HIDE DEF bad
    <3> QED
      BY <1>4, <3>1
  <2>2. PICK m \in sizes : \A k \in sizes : m <= k
    <3> HIDE DEF sizes
    <3> QED
      BY <2>1, LeastOf
  <2>3. PICK T \in bad : m = Cardinality(T)
    BY <2>2
  <2>4. T \in SUBSET (1..n) /\ r[T] # Cardinality(T)
    BY <2>3
  <2>5. r[T] = IF T = {} THEN 0 ELSE s[one(T)].size + r[T \ {one(T)}]
    <3> HIDE DEF r, one
    <3> QED
      BY <1>3, <2>4
  <2>6. T # {}
    BY <2>4, <2>5, FS_EmptySet
  <2>7. r[T] = 1 + r[T \ {one(T)}]
    BY <1>1, <2>4, <2>5, <2>6
  <2> DEFINE U == T \ {one(T)}
  <2>8. U \in SUBSET (1..n) /\ Cardinality(T) = 1 + Cardinality(U) /\ Cardinality(U) \in Nat
    BY <1>1, <2>4, <2>6
  <2> HIDE DEF U, r
  <2>9. U \in bad
    BY <2>4, <2>7, <2>8 DEF U
  <2>10. Cardinality(U) \in sizes
    BY <2>9
  <2>11. m <= Cardinality(U)
    BY <2>2, <2>10
  <2> QED
    BY <2>3, <2>8, <2>11
<1>5. 1..n \in SUBSET (1..n) /\ Cardinality(1..n) = n
  BY FS_Interval
<1>6. 1..n \notin bad
  BY <1>4
<1>7. r[1..n] = Cardinality(1..n)
  <2> HIDE DEF r
  <2> QED
    BY <1>5, <1>6
<1> QED
  BY <1>5, <1>7

(* Without a name twice there are as many names as entries.                *)
LEMMA AsManyNames ==
  ASSUME NEW s, NEW n \in Nat, DOMAIN s = 1..n, Distinct(s)
  PROVE  Cardinality(NamesIn(s)) = n
<1> DEFINE name == [i \in 1..n |-> s[i].name]
<1>1. name \in Bijection(1..n, NamesIn(s))
  <2>1. name \in [1..n -> NamesIn(s)]
    BY DEF NamesIn
  <2>2. \A i, j \in 1..n : name[i] = name[j] => i = j
    BY DEF Distinct
  <2>3. \A x \in NamesIn(s) : \E i \in 1..n : name[i] = x
    BY DEF NamesIn
  <2> HIDE DEF name
  <2> QED
    BY <2>1, <2>2, <2>3 DEF Bijection, Injection, Surjection, IsInjective
<1>2. IsFiniteSet(1..n) /\ Cardinality(1..n) = n
  BY FS_Interval
<1>3. ExistsBijection(1..n, NamesIn(s))
  BY <1>1 DEF ExistsBijection
<1> QED
  BY <1>2, <1>3, FS_Bijection

(* The files fit the limits of a restore: Create looks at none of them.    *)
WithinLimits == Len(Order) <= MaxEntries /\ Len(Order) <= MaxTotalBytes

(* The names in their order that are chosen: none twice, no more than      *)
(* there are, and each of those that are chosen.                           *)
LEMMA HeldNames ==
  ASSUME NEW chosen \in SUBSET DOMAIN Order
  PROVE  LET held == Part(Order, chosen) IN
         /\ DOMAIN held = 1..Len(held) /\ Len(held) \in Nat /\ Len(held) <= Len(Order)
         /\ \A i \in DOMAIN held : held[i] \in RestoreNames \cup {Manifest}
         /\ \A i, j \in DOMAIN held : held[i] = held[j] => i = j
         /\ \A k \in chosen : \E i \in DOMAIN held : held[i] = Order[k]
<1> DEFINE held == Part(Order, chosen)
<1>1. /\ Order \in Seq(RestoreNames \cup {Manifest}) /\ DOMAIN Order = 1..Len(Order) /\ Len(Order) \in Nat
      /\ \A i \in DOMAIN Order : Order[i] \in RestoreNames \cup {Manifest}
      /\ \A i, j \in DOMAIN Order : Order[i] = Order[j] => i = j
  BY RestoreAssumption, LenProperties, ElementOfSeq
<1>2. /\ held \in Seq(RestoreNames \cup {Manifest}) /\ DOMAIN held = 1..Cardinality(chosen)
      /\ \E at : PartOf(Order, chosen, at)
  BY <1>1, PartIsPart
<1>3. PICK at : PartOf(Order, chosen, at)
  BY <1>2
<1>4. DOMAIN held = 1..Len(held) /\ Len(held) \in Nat /\ Cardinality(chosen) \in Nat
  BY <1>1, <1>2, LenProperties, FiniteChosen
<1>5. Len(held) = Cardinality(chosen)
  <2> HIDE DEF held
  <2> QED
    BY <1>2, <1>4
<1>6. Len(held) <= Len(Order)
  <2>1. IsFiniteSet(DOMAIN Order) /\ Cardinality(DOMAIN Order) = Len(Order)
    <3>1. PICK l \in Nat : l = Len(Order) /\ DOMAIN Order = 1..l
      BY <1>1
    <3>2. IsFiniteSet(1..l) /\ Cardinality(1..l) = l
      BY FS_Interval
    <3> QED
      BY <3>1, <3>2
  <2>2. Cardinality(chosen) <= Cardinality(DOMAIN Order)
    BY <2>1, FS_Subset
  <2> QED
    BY <1>5, <2>1, <2>2
<1>7. \A i \in DOMAIN held : at[i] \in chosen /\ held[i] = Order[at[i]]
  BY <1>2, <1>3 DEF PartOf
<1>8. \A i, j \in DOMAIN held : held[i] = held[j] => i = j
  <2>1. \A i, j \in DOMAIN held : at[i] = at[j] => i = j
    BY <1>2, <1>3 DEF PartOf
  <2> HIDE DEF held
  <2> QED
    BY <1>1, <1>7, <2>1
<1>9. ASSUME NEW k \in chosen PROVE \E i \in DOMAIN held : held[i] = Order[k]
  <2> DEFINE i == Rank(chosen, k)
  <2>1. i \in 1..Cardinality(chosen) /\ \A l \in chosen : Rank(chosen, l) = i => l = k
    <3>1. \A l \in chosen : Rank(chosen, l) \in Int
      <4>1. ASSUME NEW l \in chosen PROVE Rank(chosen, l) \in 1..Cardinality(chosen)
        BY <1>1, RankGrows
      <4> QED
        BY <4>1
    <3>2. \A l \in chosen : l < k => Rank(chosen, l) < Rank(chosen, k)
      BY <1>1, RankGrows
    <3>3. \A l \in chosen : k < l => Rank(chosen, k) < Rank(chosen, l)
      BY <1>1, RankGrows
    <3>4. \A l \in chosen : l \in Nat
      BY <1>1
    <3>5. i \in 1..Cardinality(chosen)
      BY <1>1, RankGrows
    <3> QED
      BY <3>1, <3>2, <3>3, <3>4, <3>5
  <2>2. held[i] = Order[CHOOSE l \in chosen : Rank(chosen, l) = i]
    BY <2>1 DEF Part, Rank
  <2>3. (CHOOSE l \in chosen : Rank(chosen, l) = i) = k
    <3> HIDE DEF i
    <3>1. Rank(chosen, k) = i
      BY DEF i
    <3> QED
      BY <2>1, <3>1
  <2> QED
    BY <1>2, <2>1, <2>2, <2>3
<1> HIDE DEF held
<1>10. /\ DOMAIN held = 1..Len(held) /\ Len(held) \in Nat /\ Len(held) <= Len(Order)
       /\ \A i \in DOMAIN held : held[i] \in RestoreNames \cup {Manifest}
       /\ \A i, j \in DOMAIN held : held[i] = held[j] => i = j
       /\ \A k \in chosen : \E i \in DOMAIN held : held[i] = Order[k]
  BY <1>1, <1>4, <1>6, <1>7, <1>8, <1>9
<1> QED
  BY <1>10 DEF held

(* What a backup writes is valid.                                          *)
LEMMA NewArchiveValid ==
  ASSUME WithinLimits, NEW got \in SUBSET (RestoreNames \X Content)
  PROVE  validateArchive(NewArchive(got))
<1> DEFINE named(n) == {f \in got : f[1] = n}
           chosen == {i \in DOMAIN Order : Order[i] = Manifest \/ named(Order[i]) # {}}
           held == Part(Order, chosen)
           content(i) == IF held[i] = Manifest THEN "keys" ELSE (CHOOSE f \in named(held[i]) : TRUE)[2]
           entries == [i \in DOMAIN held |->
                         [name |-> held[i], type |-> "file", size |-> 1, content |-> content(i)]]
           others == {i \in DOMAIN held : held[i] # Manifest}
           listed == Part(held, others)
           a == NewArchive(got)
<1>1. a = [entries |-> entries, listed |-> listed, version |-> 1, sound |-> TRUE]
  BY Zenon DEF NewArchive
<1>2. a.entries = entries /\ a.listed = listed /\ a.version = 1 /\ a.sound = TRUE
  <2> HIDE DEF a, entries, listed
  <2> QED
    BY <1>1
<1>3. /\ DOMAIN held = 1..Len(held) /\ Len(held) \in Nat /\ Len(held) <= Len(Order)
      /\ \A i \in DOMAIN held : held[i] \in RestoreNames \cup {Manifest}
      /\ \A i, j \in DOMAIN held : held[i] = held[j] => i = j
      /\ \A k \in chosen : \E i \in DOMAIN held : held[i] = Order[k]
  <2>1. chosen \in SUBSET DOMAIN Order
    OBVIOUS
  <2> HIDE DEF chosen
  <2> QED
    BY <2>1, HeldNames
<1>4. PICK first \in DOMAIN held : held[first] = Manifest
  <2>1. PICK k \in DOMAIN Order : Order[k] = Manifest
    BY RestoreAssumption
  <2>2. k \in chosen
    BY <2>1
  <2> HIDE DEF chosen, held
  <2> QED
    BY <1>3, <2>1, <2>2
<1>5. /\ DOMAIN entries = DOMAIN held
      /\ \A i \in DOMAIN held :
           entries[i].name = held[i] /\ entries[i].type = "file" /\ entries[i].size = 1
  <2> HIDE DEF held, content
  <2> QED
    OBVIOUS
<1>6. Len(entries) = Len(held)
  <2>1. entries \in Seq(ArchiveEntry)
    BY <1>2, NewArchiveKnown DEF Archive
  <2>2. DOMAIN entries = 1..Len(entries) /\ Len(entries) \in Nat
    BY <2>1, LenProperties
  <2> HIDE DEF entries, held
  <2> QED
    BY <1>3, <1>5, <2>2
<1> HIDE DEF held, content, entries, a
<1>7. \A i \in DOMAIN entries : validateEntry(entries[i])
  <2>1. \A i \in DOMAIN held : held[i] # "../unsafe"
    BY <1>3, RestoreAssumption DEF RestoreNames, LabFiles, Manifest
  <2>2. MaxFileBytes \in Nat /\ 1 <= MaxFileBytes
    BY RestoreAssumption
  <2> QED
    BY <1>5, <2>1, <2>2 DEF validateEntry
<1>8. Cardinality(NamesIn(entries)) = Len(entries)
  <2>1. Distinct(entries)
    BY <1>3, <1>5 DEF Distinct
  <2> QED
    BY <1>3, <1>5, <1>6, <2>1, AsManyNames
<1>9. TotalBytes(a) = Len(entries)
  <2>1. Bytes(entries)[1..Len(entries)] = Len(entries)
    BY <1>3, <1>5, <1>6, OneByteEach
  <2> QED
    BY <1>2, <1>3, <1>5, <1>6, <2>1, TotalUnfolds
<1>10. Len(entries) <= MaxEntries /\ Len(entries) <= MaxTotalBytes
  <2>1. MaxEntries \in Nat /\ MaxTotalBytes \in Nat
    BY RestoreAssumption
  <2>2. Len(Order) \in Nat
    BY RestoreAssumption, LenProperties
  <2> QED
    BY <1>3, <1>6, <2>1, <2>2 DEF WithinLimits
<1>11. Payload(a) = Part(entries, others)
  <2>1. {i \in DOMAIN entries : entries[i].name # Manifest} = others
    BY <1>5
  <2> QED
    BY <1>2, <2>1 DEF Payload
<1>12. /\ DOMAIN Payload(a) = DOMAIN listed
       /\ \A i \in DOMAIN listed : Payload(a)[i].name = listed[i] /\ listed[i] \in RestoreNames
  <2> DEFINE size == Cardinality(others)
             at(i) == CHOOSE k \in others : Cardinality({j \in others : j <= k}) = i
  <2>1. others \in SUBSET (1..Len(held))
    BY <1>3
  <2>2. \A i \in 1..size : at(i) \in others
    <3> HIDE DEF others
    <3> QED
      BY <1>3, <2>1, RankTaken DEF Rank
  <2>3. Payload(a) = [i \in 1..size |-> entries[at(i)]] /\ listed = [i \in 1..size |-> held[at(i)]]
    BY <1>11, Zenon DEF Part
  <2>4. \A k \in others : k \in DOMAIN held /\ entries[k].name = held[k] /\ held[k] \in RestoreNames
    BY <1>3, <1>5
  <2> HIDE DEF at, size, others, listed
  <2> QED
    BY <2>2, <2>3, <2>4
<1> HIDE DEF listed, others
<1>13. a.listed = [i \in DOMAIN Payload(a) |-> Payload(a)[i].name]
  <2>1. listed = [i \in DOMAIN listed |-> listed[i]]
    BY DEF listed, Part
  <2> QED
    BY <1>2, <1>12, <2>1
<1>14. \A i \in DOMAIN Payload(a) : mapDestination(Payload(a)[i].name) # "unsupported"
  <2>1. \A n \in RestoreNames : mapDestination(n) # "unsupported"
    BY DEF mapDestination, RestoreNames
  <2> QED
    BY <1>12, <2>1
<1>15. \E i \in DOMAIN entries : entries[i].name = Manifest /\ entries[i].type = "file"
  BY <1>4, <1>5
<1>16. validateArchive(a)
  BY <1>2, <1>7, <1>8, <1>9, <1>10, <1>13, <1>14, <1>15 DEF validateArchive
<1> QED
  BY <1>16 DEF a

LEMMA RestorableStays ==
  ASSUME WithinLimits
  PROVE  RestoreInv /\ BackupRestorable /\ [RestoreNext]_restoreVars => BackupRestorable'
<1> SUFFICES ASSUME RestoreInv, BackupRestorable, [RestoreNext]_restoreVars, backup'.pc = "written"
             PROVE  validateArchive(archive')
  BY DEF BackupRestorable
<1>1. backup \in BackupState
  BY DEF RestoreInv, RestoreTyped
<1>2. CASE UNCHANGED <<archive, backup>>
  BY <1>2 DEF BackupRestorable
<1>3. CASE Rewrite
  BY <1>3 DEF Rewrite
<1>4. CASE writeBackupArchive
  <2>1. archive' = NewArchive(backup.got)
    BY <1>1, <1>4 DEF writeBackupArchive, BackupState
  <2>2. backup.got \in SUBSET (RestoreNames \X Content)
    BY <1>1 DEF BackupState
  <2> QED
    BY <2>1, <2>2, NewArchiveValid
<1>5. CASE \E secrets \in Secrets : BeginBackup(secrets)
  BY <1>5 DEF BeginBackup
<1>6. CASE ReadFile
  <2>1. backup'.pc \in {"read", "ended"}
    BY <1>1, <1>6 DEF ReadFile, BackupState
  <2> QED
    BY <2>1
<1>7. CASE RestoreStep
  <2>1. UNCHANGED <<archive, backup>>
    BY <1>7
    DEF RestoreStep, BeginRestore, CheckLab, Validate, Extract, Preflight, MakeDirectory,
        DirectoriesMade, Look, MoveAside, Place, UndoRemove, UndoReturn, Undone, RemoveDirectory,
        RolledBack, Forget, Restored, DieRestoring, env
  <2> QED
    BY <1>2, <2>1
<1>8. CASE \E n \in Project \cup LabFiles : Edit(n)
  BY <1>2, <1>8 DEF Edit
<1>9. CASE UNCHANGED restoreVars
  BY <1>2, <1>9 DEF restoreVars
<1> QED
  BY <1>3, <1>4, <1>5, <1>6, <1>7, <1>8, <1>9 DEF RestoreNext, BackupStep, OthersStep

(* A backup that was written passes all that validateArchive asks, though  *)
(* its files were read one after the other while others changed them, if   *)
(* their number and size are within the limits, of which Create knows      *)
(* nothing.                                                                *)
THEOREM BackupsAreRestorable == WithinLimits => (RestoreSpec => []BackupRestorable)
<1> SUFFICES ASSUME WithinLimits PROVE RestoreSpec => []BackupRestorable
  OBVIOUS
<1>1. RestoreInit => BackupRestorable
  BY DEF RestoreInit, BackupRestorable
<1>2. RestoreInv /\ BackupRestorable /\ [RestoreNext]_restoreVars => BackupRestorable'
  BY RestorableStays
<1> QED
  BY <1>1, <1>2, RestoreInvariant, PTL DEF RestoreSpec
=============================================================================
