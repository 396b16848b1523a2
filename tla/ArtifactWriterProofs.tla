------------------------- MODULE ArtifactWriterProofs -------------------------
(***************************************************************************)
(* The writer of generated tests publishes all or nothing, keeps what it   *)
(* replaces until then and says where it is, for any number of artifacts.  *)
(***************************************************************************)
EXTENDS ArtifactWriter, TLAPS

-------------------------------------------------------------------------------
(* The inductive invariant.  A file that no other program has changed is   *)
(* at its place or was moved to the staging directory, while artifacts are *)
(* put in place and while the rollback undoes them, the last first.        *)

Forward == {"prepare", "check", "backup", "publish", "verify"}
Rollback == {"remove", "restore"}
Pcs == Forward \cup Rollback \cup {"cleanup", "anchor", "relocate", "close", "ended"}
Outcomes == {"none", "ok", "error", "recovery", "died"}

WriterState ==
  [pc : Pcs, force : BOOLEAN, at : Nat, stage : BOOLEAN, created : SUBSET Dir, items : Nat,
   found : [Item -> File], backupMoved : SUBSET Item, published : SUBSET Item,
   verified : BOOLEAN, retained : SUBSET Item, anchor : {"root", "above"}, paths : SUBSET Item,
   unnamed : SUBSET Item, keepStage : BOOLEAN, reported : SUBSET Item, outcome : Outcomes]

WriterTyped ==
  /\ dest \in [Item -> File] /\ first \in [Item -> File \ {"artifact"}]
  /\ saved \in [Item -> File \ {"artifact"}] /\ recovery \in [Item -> File]
  /\ staged \in SUBSET Item /\ robbed \in SUBSET Item
  /\ dirs \in SUBSET Dir /\ moved \in SUBSET Dir
  /\ writer \in WriterState

(* How far the writer is.                                                  *)
Progress ==
  /\ In("prepare") => writer.at \in 1..(Items + 1) /\ writer.items = writer.at - 1
  /\ In("prepare") /\ ~writer.stage => writer.at = 1
  /\ writer.pc \in {"check", "backup", "publish"} => writer.at \in 1..Items
  /\ writer.pc \in {"check", "backup", "publish", "verify"} => writer.items = Items
  /\ In("cleanup") => writer.at \in 1..(Items + 1)
  /\ In("remove") => writer.at <= writer.items
  /\ In("restore") => writer.at \in 1..writer.items
  /\ writer.items <= Items

(* What is noted while artifacts are put in place.                         *)
Noted ==
  /\ In("prepare") => writer.published = {} /\ writer.backupMoved = {}
  /\ writer.pc \in {"check", "backup", "publish"} => writer.published = 1..(writer.at - 1)
  /\ writer.pc \in {"check", "backup"} => writer.backupMoved \subseteq 1..(writer.at - 1)
  /\ In("publish") =>
       /\ writer.backupMoved \subseteq 1..writer.at
       /\ writer.at \notin writer.backupMoved => writer.found[writer.at] = NoOutput
  /\ writer.pc \in Forward => writer.retained = {} /\ writer.reported = {}
  /\ writer.pc \in Forward \cup Rollback => ~writer.verified
  /\ In("cleanup") => writer.verified

(* What the staging directory has of the destinations.                     *)
Held ==
  /\ writer.pc \notin {"relocate", "close", "ended"} =>
       \A i \in Item : saved[i] # NoOutput <=> i \in writer.backupMoved
  /\ In("cleanup") =>
       \A i \in Item : i \in writer.retained <=> i < writer.at /\ i \in writer.backupMoved
  /\ In("anchor") => writer.retained = writer.backupMoved

(* An item that the rollback has not come to, and one whose artifact is    *)
(* removed.                                                                *)
Pending(i) == \/ writer.pc \in Forward
              \/ In("remove") /\ i <= writer.at
              \/ In("restore") /\ i < writer.at
Removed(i) == \/ In("remove") /\ i > writer.at
              \/ In("restore") /\ i >= writer.at
Undone(i) == writer.pc \in Rollback /\ i > writer.at

KeptItem(i) ==
  /\ writer.found[i] = first[i]
  /\ writer.pc \in Forward \cup Rollback /\ i \in writer.backupMoved => saved[i] = first[i]
  /\ Pending(i) /\ i \notin writer.backupMoved =>
       IF i \in writer.published THEN first[i] = NoOutput ELSE dest[i] = first[i]
  /\ Removed(i) /\ i \notin writer.backupMoved =>
       dest[i] = first[i] \/ (first[i] = NoOutput /\ i \in writer.reported)

ItemKnown(i) ==
  /\ dest[i] = "artifact" => i \in writer.published
  /\ Pending(i) /\ i \in writer.published \ writer.backupMoved => writer.found[i] = NoOutput
  /\ Removed(i) /\ dest[i] = "artifact" => i \in writer.reported
  /\ Undone(i) => (i \in writer.backupMoved <=> i \in writer.retained)
  /\ writer.pc \in Forward \cup Rollback /\ ~Undone(i) => i \notin writer.retained
  /\ i \in writer.retained /\ writer.pc \in Rollback => i \in writer.reported

Returned ==
  /\ writer.pc \notin {"prepare", "close", "ended"} => writer.stage
  /\ writer.pc \in Forward \cup Rollback \cup {"cleanup", "anchor"} => writer.outcome = "none"
  /\ In("relocate") => writer.outcome = "recovery"
  /\ writer.pc \notin {"relocate", "close", "ended"} =>
       writer.paths = {} /\ \A i \in Item : recovery[i] = NoOutput
  /\ In("relocate") =>
       \A i \in Item :
         /\ i \in writer.retained => saved[i] # NoOutput /\ recovery[i] = NoOutput
         /\ saved[i] # NoOutput => i \in writer.retained \/ writer.keepStage
  /\ In("close") =>
       \A i \in Item : saved[i] # NoOutput => writer.outcome = "recovery" /\ writer.keepStage /\ writer.stage
  /\ writer.pc \in {"relocate", "close"} =>
       \A i \in Item : /\ recovery[i] # NoOutput => /\ writer.outcome = "recovery"
                                               /\ i \in writer.paths \cup writer.unnamed
                       /\ i \in writer.paths => recovery[i] # NoOutput

Late == writer.pc \in {"anchor", "relocate", "close", "ended"} => OriginalsSaved

WriterInv ==
  /\ WriterTyped /\ Progress /\ Noted /\ Held /\ Returned /\ Late
  /\ \A i \in Item : ItemKnown(i)
  /\ \A i \in Item \ robbed : KeptItem(i)
  /\ PublishedTogether /\ RecoveryReported

LEMMA WriterInitInv == WriterInit => WriterInv
<1> SUFFICES ASSUME WriterInit PROVE WriterInv
  OBVIOUS
<1>1. /\ dest \in [Item -> {"original", "special", NoOutput}] /\ first = dest
      /\ saved = [i \in Item |-> NoOutput] /\ recovery = [i \in Item |-> NoOutput]
      /\ staged = {} /\ robbed = {} /\ dirs \in SUBSET Dir /\ moved = {}
  BY WriterAssumption DEF WriterInit, Dir
<1>2. PICK force \in Forcing :
       writer = [pc |-> "prepare", force |-> force, at |-> 1, stage |-> FALSE,
                 created |-> {}, items |-> 0, found |-> first, backupMoved |-> {},
                 published |-> {}, verified |-> FALSE, retained |-> {},
                 anchor |-> "root", paths |-> {}, unnamed |-> {},
                 keepStage |-> FALSE, reported |-> {}, outcome |-> "none"]
  BY DEF WriterInit
<1>3. first \in [Item -> File] /\ force \in BOOLEAN
  <2>1. force \in BOOLEAN
    BY WriterAssumption
  <2>2. {"original", "special", NoOutput} \subseteq File
    BY DEF File
  <2> QED
    BY <1>1, <2>1, <2>2
<1>4. writer \in WriterState
  BY <1>2, <1>3 DEF WriterState, Pcs, Forward, Outcomes
<1>5. WriterTyped
  BY <1>1, <1>4, WriterAssumption DEF WriterTyped, File
<1>6. /\ writer.pc = "prepare" /\ writer.at = 1 /\ writer.items = 0 /\ writer.found = first
      /\ writer.backupMoved = {} /\ writer.published = {} /\ ~writer.verified
      /\ writer.retained = {} /\ writer.reported = {} /\ writer.paths = {}
      /\ writer.outcome = "none"
  BY <1>2
<1>7. Progress /\ Noted /\ Held /\ Returned /\ Late /\ PublishedTogether /\ RecoveryReported
  BY <1>1, <1>6, WriterAssumption
  DEF Progress, Noted, Held, Returned, Late, PublishedTogether, RecoveryReported, In, Forward,
      Rollback, Item
<1>8. ASSUME NEW i \in Item PROVE ItemKnown(i) /\ KeptItem(i)
  <2>1. dest[i] # "artifact" /\ dest[i] = first[i]
    BY <1>1, WriterAssumption
  <2> QED
    BY <1>6, <2>1 DEF ItemKnown, KeptItem, Pending, Removed, Undone, In, Forward, Rollback
<1> QED
  BY <1>5, <1>7, <1>8 DEF WriterInv

-------------------------------------------------------------------------------
(* Putting the artifacts in place.                                         *)

(* To the rollback: nothing is undone yet.                                 *)
LEMMA AbortKeeps ==
  ASSUME WriterInv, writer.pc \in Forward, writer.stage, WriterTyped',
         UNCHANGED <<dest, saved, recovery, first, robbed>>,
         writer'.pc = "remove", writer'.at = writer.items, writer'.items = writer.items,
         \A i \in Item \ robbed : writer'.found[i] = first[i],
         \A i \in writer.published : writer'.found[i] = writer.found[i],
         writer'.backupMoved = writer.backupMoved, writer'.published = writer.published,
         writer'.retained = writer.retained, writer'.reported = writer.reported,
         writer'.paths = writer.paths, writer'.stage, ~writer'.verified,
         writer'.outcome = "none"
  PROVE  WriterInv'
<1>1. /\ \A i \in Item : ItemKnown(i)
      /\ \A i \in Item \ robbed : KeptItem(i)
      /\ Noted /\ Held /\ Returned /\ Progress /\ WriterTyped
  BY DEF WriterInv
<1>2. \A i \in Item : i > writer.items => i \notin writer.published /\ i \notin writer.backupMoved
  BY <1>1 DEF Noted, Progress, Forward, In, Item, WriterTyped, WriterState
<1>3. \A i \in Item : i \in Nat /\ (Pending(i)' <=> i <= writer.items)
                      /\ (Removed(i)' <=> i > writer.items) /\ Pending(i)
  BY DEF Pending, Removed, In, Item, Forward
<1>4. Progress' /\ Noted' /\ Held' /\ Returned' /\ Late' /\ PublishedTogether' /\ RecoveryReported'
  BY <1>1
  DEF Progress, Noted, Held, Returned, Late, PublishedTogether, RecoveryReported, In, Forward, Rollback
<1>5. ASSUME NEW i \in Item PROVE ItemKnown(i)'
  BY <1>1, <1>2, <1>3 DEF ItemKnown, Undone, Rollback, Noted
<1>6. ASSUME NEW i \in Item \ robbed PROVE KeptItem(i)'
  BY <1>1, <1>2, <1>3 DEF KeptItem, Rollback
<1> QED
  BY <1>4, <1>5, <1>6 DEF WriterInv


LEMMA OpenStageKeeps == ASSUME WriterInv, OpenStage PROVE WriterInv'
<1>1. /\ \A i \in Item : ItemKnown(i)
      /\ \A i \in Item \ robbed : KeptItem(i)
      /\ Noted /\ Held /\ Returned /\ Progress /\ WriterTyped
      /\ writer \in WriterState /\ writer.pc = "prepare"
  BY DEF WriterInv, WriterTyped, OpenStage, In
<1>2. UNCHANGED <<dest, staged, saved, recovery, moved, first, robbed>>
  BY DEF OpenStage, others
<1>3. CASE /\ dirs' = dirs \cup {"root"}
           /\ writer' = [writer EXCEPT !.stage = TRUE, !.created = {"root"} \ dirs]
  <2>1. /\ writer' \in WriterState /\ writer'.pc = "prepare" /\ writer'.at = writer.at
      /\ writer'.stage /\ writer'.items = writer.items /\ writer'.found = writer.found
      /\ writer'.backupMoved = writer.backupMoved /\ writer'.published = writer.published
      /\ writer'.retained = writer.retained /\ writer'.reported = writer.reported
      /\ writer'.paths = writer.paths /\ writer'.unnamed = writer.unnamed
      /\ writer'.keepStage = writer.keepStage /\ writer'.verified = writer.verified
      /\ writer'.anchor = writer.anchor /\ writer'.outcome = writer.outcome
    BY <1>1, <1>3 DEF WriterState, Dir
  <2>2. WriterTyped'
    BY <1>1, <1>2, <1>3, <2>1 DEF WriterTyped, Dir
  <2>3. Progress' /\ Noted' /\ Held' /\ Returned' /\ Late' /\ PublishedTogether' /\ RecoveryReported'
    BY <1>1, <1>2, <2>1
    DEF Progress, Noted, Held, Returned, Late, PublishedTogether, RecoveryReported, In, Forward, Rollback
  <2>4. \A i \in Item : ItemKnown(i)'
    BY <1>1, <1>2, <2>1 DEF ItemKnown, Pending, Removed, Undone, In, Forward, Rollback
  <2>5. \A i \in Item \ robbed : KeptItem(i)'
    BY <1>1, <1>2, <2>1 DEF KeptItem, Pending, Removed, In, Forward, Rollback
  <2> QED
    BY <1>2, <2>2, <2>3, <2>4, <2>5 DEF WriterInv
<1>4. CASE UNCHANGED dirs /\ writer' = [writer EXCEPT !.pc = "close", !.outcome = "error"]
  <2>1. /\ writer' \in WriterState /\ writer'.pc = "close" /\ writer'.at = writer.at
      /\ writer'.stage = writer.stage /\ writer'.items = writer.items
      /\ writer'.found = writer.found /\ writer'.backupMoved = writer.backupMoved
      /\ writer'.published = writer.published /\ writer'.retained = writer.retained
      /\ writer'.reported = writer.reported /\ writer'.paths = writer.paths
      /\ writer'.unnamed = writer.unnamed /\ writer'.keepStage = writer.keepStage
      /\ writer'.verified = writer.verified /\ writer'.anchor = writer.anchor
      /\ writer'.outcome = "error"
    BY <1>1, <1>4 DEF WriterState, Pcs, Outcomes
  <2>2. WriterTyped'
    BY <1>1, <1>2, <1>4, <2>1 DEF WriterTyped
  <2>3. \A i \in Item : /\ saved[i] = NoOutput /\ recovery[i] = NoOutput /\ dest[i] # "artifact"
                        /\ i \notin robbed => dest[i] = first[i]
    BY <1>1 DEF Held, Noted, Returned, ItemKnown, KeptItem, Pending, Forward, In
  <2>4. Progress' /\ Noted' /\ Held' /\ Returned' /\ Late' /\ PublishedTogether' /\ RecoveryReported'
    BY <1>1, <1>2, <2>1, <2>3
    DEF Progress, Noted, Held, Returned, Late, OriginalsSaved, PublishedTogether, RecoveryReported,
        In, Forward, Rollback
  <2>5. \A i \in Item : ItemKnown(i)'
    BY <1>1, <1>2, <2>1, <2>3 DEF ItemKnown, Pending, Removed, Undone, In, Forward, Rollback
  <2>6. \A i \in Item \ robbed : KeptItem(i)'
    BY <1>1, <1>2, <2>1 DEF KeptItem, Pending, Removed, In, Forward, Rollback
  <2> QED
    BY <1>2, <2>2, <2>4, <2>5, <2>6 DEF WriterInv
<1> QED
  BY <1>3, <1>4 DEF OpenStage

LEMMA PrepareKeeps == ASSUME WriterInv, Prepare PROVE WriterInv'
<1> DEFINE i == writer.at
           look == [writer.found EXCEPT ![i] = dest[i]]
           more == writer.created \cup ({ParentOf(i)} \ dirs)
<1>1. /\ \A j \in Item : ItemKnown(j)
      /\ \A j \in Item \ robbed : KeptItem(j)
      /\ Noted /\ Held /\ Returned /\ Progress /\ WriterTyped
      /\ writer \in WriterState /\ writer.pc = "prepare" /\ writer.stage
  BY DEF WriterInv, WriterTyped, Prepare, In
<1>2. UNCHANGED <<dest, saved, recovery, moved, first, robbed>> /\ dirs' \in SUBSET Dir
  BY <1>1 DEF Prepare, others, WriterTyped, ParentOf, Dir
<1>3. i \in Item /\ i \in Nat /\ i + 1 \in Nat /\ writer.items = i - 1 /\ Items \in Nat
  BY <1>1, WriterAssumption DEF Prepare, Progress, In, Item
<1>4. /\ look \in [Item -> File] /\ \A j \in Item \ robbed : look[j] = first[j]
      /\ more \in SUBSET Dir
  <2>1. writer.found \in [Item -> File] /\ dest \in [Item -> File]
    BY <1>1 DEF WriterState, WriterTyped
  <2>2. \A j \in Item \ robbed : writer.found[j] = first[j] /\ dest[j] = first[j]
    BY <1>1 DEF KeptItem, Pending, Noted, In, Forward
  <2> QED
    BY <1>1, <1>3, <2>1, <2>2 DEF WriterState, ParentOf, Dir
<1>5. writer.published = {} /\ writer.outcome = "none" /\ ~writer.verified
  BY <1>1 DEF Noted, Returned, In, Forward
<1>6. \/ /\ writer' = [writer EXCEPT !.created = more, !.found = look, !.at = i + 1, !.items = i]
         /\ staged' = staged \cup {i}
      \/ /\ writer' = [writer EXCEPT !.created = more, !.found = look, !.pc = "remove", !.at = writer.items]
         /\ staged' \in {staged, staged \cup {i}}
      \/ writer' = [writer EXCEPT !.pc = "remove", !.at = writer.items] /\ UNCHANGED staged
  BY <1>1, <1>3 DEF Prepare, Abort, WriterState
<1>7. staged' \in SUBSET Item
  BY <1>1, <1>3, <1>6 DEF WriterTyped
<1> HIDE DEF i, look, more
<1>8. CASE writer' = [writer EXCEPT !.created = more, !.found = look, !.at = i + 1, !.items = i]
  <2>1. /\ writer' \in WriterState /\ writer'.pc = "prepare" /\ writer'.at = i + 1
      /\ writer'.stage = writer.stage /\ writer'.items = i /\ writer'.found = look
      /\ writer'.backupMoved = writer.backupMoved /\ writer'.published = writer.published
      /\ writer'.retained = writer.retained /\ writer'.reported = writer.reported
      /\ writer'.paths = writer.paths /\ writer'.unnamed = writer.unnamed
      /\ writer'.keepStage = writer.keepStage /\ writer'.verified = writer.verified
      /\ writer'.anchor = writer.anchor /\ writer'.outcome = writer.outcome
    BY <1>1, <1>3, <1>4, <1>8 DEF WriterState
  <2>2. WriterTyped'
    BY <1>1, <1>2, <1>7, <2>1 DEF WriterTyped
  <2>3. Progress' /\ Noted' /\ Held' /\ Returned' /\ Late' /\ PublishedTogether' /\ RecoveryReported'
    BY <1>1, <1>2, <1>3, <2>1
    DEF Progress, Noted, Held, Returned, Late, PublishedTogether, RecoveryReported, In, Forward,
        Rollback, Item, i
  <2>4. \A j \in Item : ItemKnown(j)'
    BY <1>1, <1>2, <1>5, <2>1 DEF ItemKnown, Pending, Removed, Undone, In, Forward, Rollback
  <2>5. \A j \in Item \ robbed : KeptItem(j)'
    BY <1>1, <1>2, <1>4, <2>1 DEF KeptItem, Pending, Removed, In, Forward, Rollback
  <2> QED
    BY <1>2, <2>2, <2>3, <2>4, <2>5 DEF WriterInv
<1>9. CASE writer' = [writer EXCEPT !.created = more, !.found = look, !.pc = "remove", !.at = writer.items]
  <2>1. /\ writer' \in WriterState /\ writer'.pc = "remove" /\ writer'.at = writer.items
      /\ writer'.stage = writer.stage /\ writer'.items = writer.items /\ writer'.found = look
      /\ writer'.backupMoved = writer.backupMoved /\ writer'.published = writer.published
      /\ writer'.retained = writer.retained /\ writer'.reported = writer.reported
      /\ writer'.paths = writer.paths /\ writer'.unnamed = writer.unnamed
      /\ writer'.keepStage = writer.keepStage /\ writer'.verified = writer.verified
      /\ writer'.anchor = writer.anchor /\ writer'.outcome = writer.outcome
    BY <1>1, <1>4, <1>9 DEF WriterState, Pcs, Rollback
  <2>2. WriterTyped'
    BY <1>1, <1>2, <1>7, <2>1 DEF WriterTyped
  <2> QED
    BY <1>1, <1>2, <1>4, <1>5, <2>1, <2>2, AbortKeeps DEF Forward
<1>10. CASE writer' = [writer EXCEPT !.pc = "remove", !.at = writer.items]
  <2>1. /\ writer' \in WriterState /\ writer'.pc = "remove" /\ writer'.at = writer.items
      /\ writer'.stage = writer.stage /\ writer'.items = writer.items
      /\ writer'.found = writer.found /\ writer'.backupMoved = writer.backupMoved
      /\ writer'.published = writer.published /\ writer'.retained = writer.retained
      /\ writer'.reported = writer.reported /\ writer'.paths = writer.paths
      /\ writer'.unnamed = writer.unnamed /\ writer'.keepStage = writer.keepStage
      /\ writer'.verified = writer.verified /\ writer'.anchor = writer.anchor
      /\ writer'.outcome = writer.outcome
    BY <1>1, <1>10 DEF WriterState, Pcs, Rollback
  <2>2. WriterTyped'
    BY <1>1, <1>2, <1>7, <2>1 DEF WriterTyped
  <2>3. \A j \in Item \ robbed : writer.found[j] = first[j]
    BY <1>1 DEF KeptItem
  <2> QED
    BY <1>1, <1>2, <1>5, <2>1, <2>2, <2>3, AbortKeeps DEF Forward
<1> QED
  BY <1>6, <1>8, <1>9, <1>10

LEMMA PreparedKeeps == ASSUME WriterInv, Prepared PROVE WriterInv'
<1>1. /\ \A i \in Item : ItemKnown(i)
      /\ \A i \in Item \ robbed : KeptItem(i)
      /\ Noted /\ Held /\ Returned /\ Progress /\ WriterTyped
      /\ writer \in WriterState /\ writer.pc = "prepare" /\ writer.at > Items /\ Items \in Nat \ {0}
  BY WriterAssumption DEF WriterInv, WriterTyped, Prepared, In
<1>2. UNCHANGED <<dest, dirs, staged, saved, recovery, moved, first, robbed>>
      /\ writer' = [writer EXCEPT !.pc = "check", !.at = 1]
  BY DEF Prepared, places, others
<1>3. /\ writer' \in WriterState /\ writer'.pc = "check" /\ writer'.at = 1
      /\ writer'.stage = writer.stage /\ writer'.items = writer.items
      /\ writer'.found = writer.found /\ writer'.backupMoved = writer.backupMoved
      /\ writer'.published = writer.published /\ writer'.retained = writer.retained
      /\ writer'.reported = writer.reported /\ writer'.paths = writer.paths
      /\ writer'.unnamed = writer.unnamed /\ writer'.keepStage = writer.keepStage
      /\ writer'.verified = writer.verified /\ writer'.anchor = writer.anchor
      /\ writer'.outcome = writer.outcome
  BY <1>1, <1>2 DEF WriterState, Pcs, Forward
<1>4. writer.items = Items /\ writer.stage /\ writer.published = {} /\ writer.backupMoved = {}
  <2>1. writer.items = Items
    BY <1>1 DEF Progress, In
  <2> QED
    BY <1>1, <2>1 DEF Noted, In, Progress
<1>5. WriterTyped'
  BY <1>1, <1>2, <1>3 DEF WriterTyped
<1>6. Progress' /\ Noted' /\ Held' /\ Returned' /\ Late' /\ PublishedTogether' /\ RecoveryReported'
  BY <1>1, <1>2, <1>3, <1>4
  DEF Progress, Noted, Held, Returned, Late, PublishedTogether, RecoveryReported, In, Forward, Rollback
<1>7. \A i \in Item : ItemKnown(i)'
  BY <1>1, <1>2, <1>3 DEF ItemKnown, Pending, Removed, Undone, In, Forward, Rollback
<1>8. \A i \in Item \ robbed : KeptItem(i)'
  BY <1>1, <1>2, <1>3 DEF KeptItem, Pending, Removed, In, Forward, Rollback
<1> QED
  BY <1>2, <1>5, <1>6, <1>7, <1>8 DEF WriterInv

(* To the rollback from where all is prepared.                             *)
LEMMA GiveUpKeeps ==
  ASSUME WriterInv, writer.pc \in Forward \ {"prepare"}, writer' = Abort(writer),
         UNCHANGED <<dest, dirs, staged, saved, recovery, moved, first, robbed>>
  PROVE  WriterInv'
<1>1. /\ Noted /\ Returned /\ WriterTyped /\ writer \in WriterState
      /\ writer.outcome = "none" /\ writer.stage /\ ~writer.verified
  BY DEF WriterInv, WriterTyped, Noted, Returned, Forward
<1>2. writer' = [writer EXCEPT !.pc = "remove", !.at = writer.items]
  BY DEF Abort
<1>3. /\ writer' \in WriterState /\ writer'.pc = "remove" /\ writer'.at = writer.items
      /\ writer'.stage = writer.stage /\ writer'.items = writer.items
      /\ writer'.found = writer.found /\ writer'.backupMoved = writer.backupMoved
      /\ writer'.published = writer.published /\ writer'.retained = writer.retained
      /\ writer'.reported = writer.reported /\ writer'.paths = writer.paths
      /\ writer'.unnamed = writer.unnamed /\ writer'.keepStage = writer.keepStage
      /\ writer'.verified = writer.verified /\ writer'.anchor = writer.anchor
      /\ writer'.outcome = writer.outcome
  BY <1>1, <1>2 DEF WriterState, Pcs, Rollback
<1>4. WriterTyped'
  BY <1>1, <1>3 DEF WriterTyped
<1>5. \A i \in Item \ robbed : writer.found[i] = first[i]
  BY DEF WriterInv, KeptItem
<1> QED
  BY <1>1, <1>3, <1>4, <1>5, AbortKeeps

LEMMA CheckKeeps == ASSUME WriterInv, CheckDestination PROVE WriterInv'
<1> DEFINE pc == IF writer.found[writer.at] = NoOutput THEN "publish" ELSE "backup"
<1>1. /\ \A i \in Item : ItemKnown(i)
      /\ \A i \in Item \ robbed : KeptItem(i)
      /\ Noted /\ Held /\ Returned /\ Progress /\ WriterTyped
      /\ writer \in WriterState /\ writer.pc = "check" /\ Items \in Nat \ {0}
  BY WriterAssumption DEF WriterInv, WriterTyped, CheckDestination, In
<1>2. UNCHANGED <<dest, dirs, staged, saved, recovery, moved, first, robbed>>
  BY DEF CheckDestination, places, others
<1>3. CASE writer' = Abort(writer)
  BY <1>1, <1>2, <1>3, GiveUpKeeps DEF Forward
<1>4. CASE writer' = [writer EXCEPT !.pc = pc]
  <2>1. pc \in {"publish", "backup"} /\ (pc = "publish" => writer.found[writer.at] = NoOutput)
    OBVIOUS
  <2> HIDE DEF pc
  <2>2. /\ writer' \in WriterState /\ writer'.pc = pc /\ writer'.at = writer.at
        /\ writer'.stage = writer.stage /\ writer'.items = writer.items
        /\ writer'.found = writer.found /\ writer'.backupMoved = writer.backupMoved
        /\ writer'.published = writer.published /\ writer'.retained = writer.retained
        /\ writer'.reported = writer.reported /\ writer'.paths = writer.paths
        /\ writer'.unnamed = writer.unnamed /\ writer'.keepStage = writer.keepStage
        /\ writer'.verified = writer.verified /\ writer'.anchor = writer.anchor
        /\ writer'.outcome = writer.outcome
    BY <1>1, <1>4, <2>1 DEF WriterState, Pcs, Forward
  <2>3. WriterTyped'
    BY <1>1, <1>2, <2>2 DEF WriterTyped
  <2>4. writer.backupMoved \subseteq 1..writer.at
    BY <1>1 DEF Noted, Progress, In
  <2>5. Progress' /\ Noted' /\ Held' /\ Returned' /\ Late' /\ PublishedTogether' /\ RecoveryReported'
    BY <1>1, <1>2, <2>1, <2>2, <2>4
    DEF Progress, Noted, Held, Returned, Late, PublishedTogether, RecoveryReported, In, Forward,
        Rollback
  <2>6. \A i \in Item : ItemKnown(i)'
    BY <1>1, <1>2, <2>1, <2>2 DEF ItemKnown, Pending, Removed, Undone, In, Forward, Rollback
  <2>7. \A i \in Item \ robbed : KeptItem(i)'
    BY <1>1, <1>2, <2>1, <2>2 DEF KeptItem, Pending, Removed, In, Forward, Rollback
  <2> QED
    BY <1>2, <2>3, <2>5, <2>6, <2>7 DEF WriterInv
<1> QED
  BY <1>3, <1>4 DEF CheckDestination

LEMMA BackupFileKeeps == ASSUME WriterInv, Backup PROVE WriterInv'
<1> DEFINE i == writer.at
           file == dest[i]
           more == writer.backupMoved \cup {i}
<1>1. /\ \A j \in Item : ItemKnown(j)
      /\ \A j \in Item \ robbed : KeptItem(j)
      /\ Noted /\ Held /\ Returned /\ Progress /\ WriterTyped
      /\ writer \in WriterState /\ writer.pc = "backup" /\ Items \in Nat \ {0}
  BY WriterAssumption DEF WriterInv, WriterTyped, Backup, In
<1>2. UNCHANGED <<dirs, staged, recovery, moved, first, robbed>>
  BY DEF Backup, others
<1>3. CASE writer' = Abort(writer) /\ UNCHANGED <<dest, saved>>
  BY <1>1, <1>2, <1>3, GiveUpKeeps DEF Forward
<1>4. CASE /\ file # NoOutput
           /\ saved' = [saved EXCEPT ![i] = file] /\ dest' = [dest EXCEPT ![i] = NoOutput]
           /\ writer' = [writer EXCEPT !.pc = "publish", !.backupMoved = more]
  <2>1. i \in Item /\ i \in Nat /\ i \notin writer.published /\ i \notin writer.backupMoved
    BY <1>1 DEF Progress, Noted, In, Item
  <2>2. more \in SUBSET Item
    BY <1>1, <2>1 DEF WriterState
  <2>3. file \in File \ {"artifact", NoOutput}
    BY <1>1, <1>4, <2>1 DEF WriterTyped, ItemKnown
  <2> HIDE DEF file, more, i
  <2>4. /\ writer' \in WriterState /\ writer'.pc = "publish" /\ writer'.at = writer.at
        /\ writer'.stage = writer.stage /\ writer'.items = writer.items
        /\ writer'.found = writer.found /\ writer'.backupMoved = more
        /\ writer'.published = writer.published /\ writer'.retained = writer.retained
        /\ writer'.reported = writer.reported /\ writer'.paths = writer.paths
        /\ writer'.unnamed = writer.unnamed /\ writer'.keepStage = writer.keepStage
        /\ writer'.verified = writer.verified /\ writer'.anchor = writer.anchor
        /\ writer'.outcome = writer.outcome
    BY <1>1, <1>4, <2>2 DEF WriterState, Pcs, Forward
  <2>5. /\ saved' \in [Item -> File \ {"artifact"}] /\ saved'[i] = file
        /\ dest' \in [Item -> File] /\ dest'[i] = NoOutput
        /\ \A j \in Item \ {i} : saved'[j] = saved[j] /\ dest'[j] = dest[j]
    <3>1. NoOutput \in File
      BY DEF File
    <3> QED
      BY <1>1, <1>4, <2>1, <2>3, <3>1 DEF WriterTyped
  <2>6. WriterTyped'
    BY <1>1, <1>2, <2>4, <2>5 DEF WriterTyped
  <2>7. Noted'
    <3>1. writer.published = 1..(i - 1) /\ writer.backupMoved \subseteq 1..(i - 1)
      BY <1>1 DEF Noted, i
    <3>2. more \subseteq 1..i /\ i \in more
      BY <1>1, <2>1, <3>1 DEF more, Item
    <3> QED
      BY <1>1, <2>4, <3>1, <3>2 DEF Noted, In, Forward, Rollback, i
  <2>8. Held'
    BY <1>1, <2>1, <2>3, <2>4, <2>5 DEF Held, In, more
  <2>9. Progress' /\ Returned' /\ Late' /\ PublishedTogether' /\ RecoveryReported'
    BY <1>1, <1>2, <2>4
    DEF Progress, Returned, Late, PublishedTogether, RecoveryReported, In, Forward, Rollback
  <2>10. ASSUME NEW j \in Item PROVE ItemKnown(j)'
    <3>1. dest'[j] = "artifact" => dest[j] = "artifact"
      BY <2>1, <2>5, WriterAssumption
    <3> QED
      BY <1>1, <2>4, <3>1 DEF ItemKnown, Pending, Removed, Undone, In, Forward, Rollback, more
  <2>11. ASSUME NEW j \in Item \ robbed PROVE KeptItem(j)'
    <3>1. CASE j = i
      <4>1. dest[i] = first[i]
        BY <1>1, <2>1, <3>1 DEF KeptItem, Pending, Forward
      <4> QED
        BY <1>1, <1>2, <2>1, <2>4, <2>5, <3>1, <4>1
        DEF KeptItem, Pending, Removed, In, Forward, Rollback, more, file
    <3>2. CASE j # i
      BY <1>1, <1>2, <2>4, <2>5, <3>2 DEF KeptItem, Pending, Removed, In, Forward, Rollback, more
    <3> QED
      BY <3>1, <3>2
  <2> QED
    BY <1>2, <2>6, <2>7, <2>8, <2>9, <2>10, <2>11 DEF WriterInv
<1> QED
  BY <1>3, <1>4 DEF Backup

LEMMA PublishKeeps == ASSUME WriterInv, Publish PROVE WriterInv'
<1> DEFINE i == writer.at
           next == i + 1
           more == writer.published \cup {i}
           pc == IF i < Items THEN "check" ELSE "verify"
<1>1. /\ \A j \in Item : ItemKnown(j)
      /\ \A j \in Item \ robbed : KeptItem(j)
      /\ Noted /\ Held /\ Returned /\ Progress /\ WriterTyped
      /\ writer \in WriterState /\ writer.pc = "publish" /\ Items \in Nat \ {0}
  BY WriterAssumption DEF WriterInv, WriterTyped, Publish, In
<1>2. UNCHANGED <<dirs, saved, recovery, moved, first, robbed>>
  BY DEF Publish, others
<1>3. CASE writer' = Abort(writer) /\ UNCHANGED <<dest, staged>>
  BY <1>1, <1>2, <1>3, GiveUpKeeps DEF Forward
<1>4. CASE /\ dest' = [dest EXCEPT ![i] = "artifact"] /\ staged' = staged \ {i}
           /\ writer' = [writer EXCEPT !.published = more, !.at = next, !.pc = pc]
  <2>1. i \in Item /\ i \in Nat /\ writer.published = 1..(i - 1) /\ writer.backupMoved \subseteq 1..i
        /\ next \in Nat /\ next = i + 1 /\ more \in SUBSET Item /\ more = 1..i
        /\ pc \in {"check", "verify"} /\ (pc = "check" => next \in 1..Items)
        /\ (i \notin writer.backupMoved => writer.found[i] = NoOutput)
    <3>1. i \in Item /\ i \in Nat /\ writer.published = 1..(i - 1) /\ writer.backupMoved \subseteq 1..i
          /\ (i \notin writer.backupMoved => writer.found[i] = NoOutput)
      BY <1>1 DEF Progress, Noted, In, Item
    <3> QED
      BY <1>1, <3>1 DEF Item
  <2> HIDE DEF i, next, more, pc
  <2>2. /\ writer' \in WriterState /\ writer'.pc = pc /\ writer'.at = next
        /\ writer'.stage = writer.stage /\ writer'.items = writer.items
        /\ writer'.found = writer.found /\ writer'.backupMoved = writer.backupMoved
        /\ writer'.published = more /\ writer'.retained = writer.retained
        /\ writer'.reported = writer.reported /\ writer'.paths = writer.paths
        /\ writer'.unnamed = writer.unnamed /\ writer'.keepStage = writer.keepStage
        /\ writer'.verified = writer.verified /\ writer'.anchor = writer.anchor
        /\ writer'.outcome = writer.outcome
    BY <1>1, <1>4, <2>1 DEF WriterState, Pcs, Forward
  <2>3. /\ dest' \in [Item -> File] /\ dest'[i] = "artifact"
        /\ \A j \in Item \ {i} : dest'[j] = dest[j]
    BY <1>1, <1>4, <2>1 DEF WriterTyped, File
  <2>4. WriterTyped'
    BY <1>1, <1>2, <1>4, <2>2, <2>3 DEF WriterTyped
  <2>5. next - 1 = i
    BY <2>1
  <2>6. Noted'
    BY <1>1, <2>1, <2>2, <2>5 DEF Noted, In, Forward, Rollback
  <2>7. Progress' /\ Held' /\ Returned' /\ Late' /\ PublishedTogether' /\ RecoveryReported'
    BY <1>1, <1>2, <2>1, <2>2
    DEF Progress, Held, Returned, Late, PublishedTogether, RecoveryReported, In, Forward, Rollback
  <2>8. \A j \in Item : j \in more <=> (j \in writer.published \/ j = i)
    BY <2>1 DEF more
  <2>9. ASSUME NEW j \in Item PROVE ItemKnown(j)'
    BY <1>1, <2>1, <2>2, <2>3, <2>8 DEF ItemKnown, Pending, Removed, Undone, In, Forward, Rollback
  <2>10. ASSUME NEW j \in Item \ robbed PROVE KeptItem(j)'
    <3>1. CASE j = i
      BY <1>1, <1>2, <2>1, <2>2, <2>8, <3>1 DEF KeptItem, Pending, Removed, In, Forward, Rollback
    <3>2. CASE j # i
      BY <1>1, <1>2, <2>1, <2>2, <2>3, <2>8, <3>2
      DEF KeptItem, Pending, Removed, In, Forward, Rollback
    <3> QED
      BY <3>1, <3>2
  <2> QED
    BY <1>2, <2>4, <2>6, <2>7, <2>9, <2>10 DEF WriterInv
<1> QED
  BY <1>3, <1>4 DEF Publish

LEMMA VerifyKeeps == ASSUME WriterInv, verifyPublished PROVE WriterInv'
<1>1. /\ \A i \in Item : ItemKnown(i)
      /\ \A i \in Item \ robbed : KeptItem(i)
      /\ Noted /\ Held /\ Returned /\ Progress /\ WriterTyped
      /\ writer \in WriterState /\ writer.pc = "verify"
  BY DEF WriterInv, WriterTyped, verifyPublished, In
<1>2. UNCHANGED <<dest, dirs, staged, saved, recovery, moved, first, robbed>>
  BY DEF verifyPublished, places, others
<1>3. CASE writer' = Abort(writer)
  BY <1>1, <1>2, <1>3, GiveUpKeeps DEF Forward
<1>4. CASE writer' = [writer EXCEPT !.pc = "cleanup", !.at = 1, !.verified = TRUE]
  <2>1. /\ writer' \in WriterState /\ writer'.pc = "cleanup" /\ writer'.at = 1
        /\ writer'.stage = writer.stage /\ writer'.items = writer.items
        /\ writer'.found = writer.found /\ writer'.backupMoved = writer.backupMoved
        /\ writer'.published = writer.published /\ writer'.retained = writer.retained
        /\ writer'.reported = writer.reported /\ writer'.paths = writer.paths
        /\ writer'.unnamed = writer.unnamed /\ writer'.keepStage = writer.keepStage
        /\ writer'.verified /\ writer'.anchor = writer.anchor /\ writer'.outcome = writer.outcome
    BY <1>1, <1>4 DEF WriterState, Pcs
  <2>2. WriterTyped'
    BY <1>1, <1>2, <2>1 DEF WriterTyped
  <2>3. Progress' /\ Noted' /\ Held' /\ Returned' /\ Late' /\ PublishedTogether' /\ RecoveryReported'
    BY <1>1, <1>2, <2>1, WriterAssumption
    DEF Progress, Noted, Held, Returned, Late, PublishedTogether, RecoveryReported, In, Forward,
        Rollback, Item
  <2>4. \A i \in Item : ItemKnown(i)'
    BY <1>1, <1>2, <2>1 DEF ItemKnown, Pending, Removed, Undone, In, Forward, Rollback
  <2>5. \A i \in Item \ robbed : KeptItem(i)'
    BY <1>1, <1>2, <2>1 DEF KeptItem, Pending, Removed, In, Forward, Rollback
  <2> QED
    BY <1>2, <2>2, <2>3, <2>4, <2>5 DEF WriterInv
<1> QED
  BY <1>3, <1>4 DEF verifyPublished

LEMMA CleanupKeeps == ASSUME WriterInv, Cleanup PROVE WriterInv'
<1> DEFINE i == writer.at
           next == i + 1
           fewer == writer.backupMoved \ {i}
           more == writer.retained \cup {i}
<1>1. /\ \A j \in Item : ItemKnown(j)
      /\ \A j \in Item \ robbed : KeptItem(j)
      /\ Noted /\ Held /\ Returned /\ Progress /\ WriterTyped
      /\ writer \in WriterState /\ writer.pc = "cleanup" /\ Items \in Nat \ {0}
  BY WriterAssumption DEF WriterInv, WriterTyped, Cleanup, In
<1>2. UNCHANGED <<dest, dirs, staged, recovery, moved, first, robbed>>
  BY DEF Cleanup, others
<1>3. /\ i \in Item /\ next \in Nat /\ next \in 1..(Items + 1) /\ writer.verified
      /\ \A j \in Item : (j < next <=> (j < i \/ j = i)) /\ ~(i < i)
      /\ fewer \in SUBSET Item /\ more \in SUBSET Item
  <2>1. i \in Item /\ writer.verified
    BY <1>1 DEF Cleanup, Progress, Noted, In, Item
  <2> QED
    BY <1>1, <2>1 DEF Item, WriterState
<1>4. \/ /\ saved' = [saved EXCEPT ![i] = NoOutput]
         /\ writer' = [writer EXCEPT !.at = next, !.backupMoved = fewer]
      \/ /\ i \in writer.backupMoved /\ UNCHANGED saved
         /\ writer' = [writer EXCEPT !.at = next, !.retained = more]
  BY DEF Cleanup
<1>5. saved' \in [Item -> File \ {"artifact"}]
  BY <1>1, <1>3, <1>4, WriterAssumption DEF WriterTyped, File
<1> HIDE DEF i, next, fewer, more
<1>6. CASE /\ saved' = [saved EXCEPT ![i] = NoOutput]
           /\ writer' = [writer EXCEPT !.at = next, !.backupMoved = fewer]
  <2>1. /\ writer' \in WriterState /\ writer'.pc = "cleanup" /\ writer'.at = next
        /\ writer'.stage = writer.stage /\ writer'.items = writer.items
        /\ writer'.found = writer.found /\ writer'.backupMoved = fewer
        /\ writer'.published = writer.published /\ writer'.retained = writer.retained
        /\ writer'.reported = writer.reported /\ writer'.paths = writer.paths
        /\ writer'.unnamed = writer.unnamed /\ writer'.keepStage = writer.keepStage
        /\ writer'.verified = writer.verified /\ writer'.anchor = writer.anchor
        /\ writer'.outcome = writer.outcome
    BY <1>1, <1>3, <1>6 DEF WriterState
  <2>2. WriterTyped'
    BY <1>1, <1>2, <1>5, <2>1 DEF WriterTyped
  <2>3. saved'[i] = NoOutput /\ \A j \in Item \ {i} : saved'[j] = saved[j]
    BY <1>1, <1>3, <1>6 DEF WriterTyped
  <2>4. Held'
    <3>1. \A j \in Item : j \in fewer <=> (j \in writer.backupMoved /\ j # i)
      BY DEF fewer
    <3>2. \A j \in Item : j \in writer.retained <=> (j < i /\ j \in writer.backupMoved)
      BY <1>1 DEF Held, In, i
    <3> QED
      BY <1>1, <1>3, <2>1, <2>3, <3>1, <3>2 DEF Held, In
  <2>5. Progress' /\ Noted' /\ Returned' /\ Late' /\ PublishedTogether' /\ RecoveryReported'
    BY <1>1, <1>2, <1>3, <2>1
    DEF Progress, Noted, Returned, Late, PublishedTogether, RecoveryReported, In, Forward, Rollback
  <2>6. (\A j \in Item : ItemKnown(j)') /\ \A j \in Item \ robbed : KeptItem(j)'
    BY <1>1, <1>2, <2>1 DEF ItemKnown, KeptItem, Pending, Removed, Undone, In, Forward, Rollback
  <2> QED
    BY <1>2, <2>2, <2>4, <2>5, <2>6 DEF WriterInv
<1>7. CASE /\ i \in writer.backupMoved /\ UNCHANGED saved
           /\ writer' = [writer EXCEPT !.at = next, !.retained = more]
  <2>1. /\ writer' \in WriterState /\ writer'.pc = "cleanup" /\ writer'.at = next
        /\ writer'.stage = writer.stage /\ writer'.items = writer.items
        /\ writer'.found = writer.found /\ writer'.backupMoved = writer.backupMoved
        /\ writer'.published = writer.published /\ writer'.retained = more
        /\ writer'.reported = writer.reported /\ writer'.paths = writer.paths
        /\ writer'.unnamed = writer.unnamed /\ writer'.keepStage = writer.keepStage
        /\ writer'.verified = writer.verified /\ writer'.anchor = writer.anchor
        /\ writer'.outcome = writer.outcome
    BY <1>1, <1>3, <1>7 DEF WriterState
  <2>2. WriterTyped'
    BY <1>1, <1>2, <1>5, <2>1 DEF WriterTyped
  <2>3. Held'
    <3>1. \A j \in Item : j \in more <=> (j \in writer.retained \/ j = i)
      BY <1>3 DEF more
    <3>2. \A j \in Item : j \in writer.retained <=> (j < i /\ j \in writer.backupMoved)
      BY <1>1 DEF Held, In, i
    <3> QED
      BY <1>1, <1>3, <1>7, <2>1, <3>1, <3>2 DEF Held, In
  <2>4. Progress' /\ Noted' /\ Returned' /\ Late' /\ PublishedTogether' /\ RecoveryReported'
    BY <1>1, <1>2, <1>3, <2>1
    DEF Progress, Noted, Returned, Late, PublishedTogether, RecoveryReported, In, Forward, Rollback
  <2>5. (\A j \in Item : ItemKnown(j)') /\ \A j \in Item \ robbed : KeptItem(j)'
    BY <1>1, <1>2, <2>1 DEF ItemKnown, KeptItem, Pending, Removed, Undone, In, Forward, Rollback
  <2> QED
    BY <1>2, <2>2, <2>3, <2>4, <2>5 DEF WriterInv
<1> QED
  BY <1>4, <1>6, <1>7

LEMMA CleanedKeeps == ASSUME WriterInv, Cleaned PROVE WriterInv'
<1>1. /\ \A i \in Item : ItemKnown(i)
      /\ \A i \in Item \ robbed : KeptItem(i)
      /\ Noted /\ Held /\ Returned /\ Progress /\ WriterTyped
      /\ writer \in WriterState /\ writer.pc = "cleanup" /\ Items \in Nat \ {0} /\ writer.at > Items
      /\ writer.verified
  BY WriterAssumption DEF WriterInv, WriterTyped, Cleaned, Noted, In
<1>2. UNCHANGED <<dest, dirs, staged, saved, recovery, moved, first, robbed>>
  BY DEF Cleaned, places, others
<1>3. writer.retained = writer.backupMoved
  <2>1. \A i \in Item : i < writer.at
    BY <1>1 DEF Item, WriterState
  <2>2. \A i \in Item : i \in writer.retained <=> i \in writer.backupMoved
    BY <1>1, <2>1 DEF Held, In
  <2> QED
    BY <1>1, <2>2 DEF WriterState
<1>4. CASE writer.retained = {} /\ writer' = [writer EXCEPT !.pc = "close", !.outcome = "ok"]
  <2>1. /\ writer' \in WriterState /\ writer'.pc = "close" /\ writer'.at = writer.at
        /\ writer'.stage = writer.stage /\ writer'.items = writer.items
        /\ writer'.found = writer.found /\ writer'.backupMoved = writer.backupMoved
        /\ writer'.published = writer.published /\ writer'.retained = writer.retained
        /\ writer'.reported = writer.reported /\ writer'.paths = writer.paths
        /\ writer'.unnamed = writer.unnamed /\ writer'.keepStage = writer.keepStage
        /\ writer'.verified = writer.verified /\ writer'.anchor = writer.anchor
        /\ writer'.outcome = "ok"
    BY <1>1, <1>4 DEF WriterState, Pcs, Outcomes
  <2>2. WriterTyped'
    BY <1>1, <1>2, <2>1 DEF WriterTyped
  <2>3. \A i \in Item : saved[i] = NoOutput
    BY <1>1, <1>3, <1>4 DEF Held
  <2>4. Progress' /\ Noted' /\ Held' /\ Returned' /\ Late' /\ PublishedTogether' /\ RecoveryReported'
    BY <1>1, <1>2, <2>1, <2>3
    DEF Progress, Noted, Held, Returned, Late, OriginalsSaved, PublishedTogether, RecoveryReported,
        In, Forward, Rollback
  <2>5. (\A j \in Item : ItemKnown(j)') /\ \A j \in Item \ robbed : KeptItem(j)'
    BY <1>1, <1>2, <2>1 DEF ItemKnown, KeptItem, Pending, Removed, Undone, In, Forward, Rollback
  <2> QED
    BY <1>2, <2>2, <2>4, <2>5 DEF WriterInv
<1>5. CASE writer' = [writer EXCEPT !.pc = "anchor"]
  <2>1. /\ writer' \in WriterState /\ writer'.pc = "anchor" /\ writer'.at = writer.at
        /\ writer'.stage = writer.stage /\ writer'.items = writer.items
        /\ writer'.found = writer.found /\ writer'.backupMoved = writer.backupMoved
        /\ writer'.published = writer.published /\ writer'.retained = writer.retained
        /\ writer'.reported = writer.reported /\ writer'.paths = writer.paths
        /\ writer'.unnamed = writer.unnamed /\ writer'.keepStage = writer.keepStage
        /\ writer'.verified = writer.verified /\ writer'.anchor = writer.anchor
        /\ writer'.outcome = writer.outcome
    BY <1>1, <1>5 DEF WriterState, Pcs
  <2>2. WriterTyped'
    BY <1>1, <1>2, <2>1 DEF WriterTyped
  <2>3. Progress' /\ Noted' /\ Held' /\ Returned' /\ Late' /\ PublishedTogether' /\ RecoveryReported'
    BY <1>1, <1>2, <1>3, <2>1
    DEF Progress, Noted, Held, Returned, Late, OriginalsSaved, PublishedTogether, RecoveryReported,
        In, Forward, Rollback
  <2>4. (\A j \in Item : ItemKnown(j)') /\ \A j \in Item \ robbed : KeptItem(j)'
    BY <1>1, <1>2, <2>1 DEF ItemKnown, KeptItem, Pending, Removed, Undone, In, Forward, Rollback
  <2> QED
    BY <1>2, <2>2, <2>3, <2>4 DEF WriterInv
<1> QED
  BY <1>4, <1>5 DEF Cleaned

-------------------------------------------------------------------------------
(* Undoing it.                                                             *)

LEMMA RemoveArtifactKeeps == ASSUME WriterInv, RemoveArtifact PROVE WriterInv'
<1> DEFINE i == writer.at
           more == writer.reported \cup {i}
<1>1. /\ \A j \in Item : ItemKnown(j)
      /\ \A j \in Item \ robbed : KeptItem(j)
      /\ Noted /\ Held /\ Returned /\ Progress /\ WriterTyped
      /\ writer \in WriterState /\ writer.pc = "remove" /\ Items \in Nat \ {0}
  BY WriterAssumption DEF WriterInv, WriterTyped, RemoveArtifact, In
<1>2. UNCHANGED <<dirs, staged, saved, recovery, moved, first, robbed>>
  BY DEF RemoveArtifact, others
<1>3. i \in Item /\ i \in Nat /\ i \in 1..writer.items /\ more \in SUBSET Item
  <2>1. i \in Item /\ i \in Nat /\ i \in 1..writer.items
    BY <1>1 DEF RemoveArtifact, Progress, In, Item, WriterState
  <2> QED
    BY <1>1, <2>1 DEF WriterState
<1>4. \/ /\ i \notin writer.published /\ writer' = [writer EXCEPT !.pc = "restore"]
         /\ UNCHANGED dest
      \/ /\ i \in writer.published /\ writer' = [writer EXCEPT !.pc = "restore"]
         /\ dest' = [dest EXCEPT ![i] = NoOutput]
      \/ /\ i \in writer.published /\ UNCHANGED dest
         /\ writer' = [writer EXCEPT !.pc = "restore", !.reported = more]
  BY <1>1 DEF RemoveArtifact, WriterState
<1> HIDE DEF i, more
<1>5. /\ writer' \in WriterState /\ writer'.pc = "restore" /\ writer'.at = writer.at
      /\ writer'.stage = writer.stage /\ writer'.items = writer.items
      /\ writer'.found = writer.found /\ writer'.backupMoved = writer.backupMoved
      /\ writer'.published = writer.published /\ writer'.retained = writer.retained
      /\ writer'.paths = writer.paths /\ writer'.unnamed = writer.unnamed
      /\ writer'.keepStage = writer.keepStage /\ writer'.verified = writer.verified
      /\ writer'.anchor = writer.anchor /\ writer'.outcome = writer.outcome
      /\ writer'.reported \in {writer.reported, more}
      /\ writer'.reported # more => i \notin writer.published \/ dest'[i] = NoOutput
  <2>1. i \in writer.published /\ dest' = [dest EXCEPT ![i] = NoOutput] => dest'[i] = NoOutput
    BY <1>1, <1>3 DEF WriterTyped
  <2>2. CASE writer' = [writer EXCEPT !.pc = "restore"]
    BY <1>1, <1>4, <2>1, <2>2 DEF WriterState, Pcs, Rollback
  <2>3. CASE writer' = [writer EXCEPT !.pc = "restore", !.reported = more]
    BY <1>1, <1>3, <2>3 DEF WriterState, Pcs, Rollback
  <2> QED
    BY <1>4, <2>2, <2>3
<1>6. /\ dest' \in [Item -> File] /\ \A j \in Item \ {i} : dest'[j] = dest[j]
      /\ dest'[i] \in {dest[i], NoOutput}
      /\ i \notin writer.published => dest'[i] = dest[i]
  BY <1>1, <1>3, <1>4 DEF WriterTyped, File
<1>7. WriterTyped'
  BY <1>1, <1>2, <1>5, <1>6 DEF WriterTyped
<1>8. Progress' /\ Noted' /\ Held' /\ Returned' /\ Late' /\ PublishedTogether' /\ RecoveryReported'
  BY <1>1, <1>2, <1>3, <1>5
  DEF Progress, Noted, Held, Returned, Late, PublishedTogether, RecoveryReported, In, Forward,
      Rollback, i
<1>9. \A j \in Item : /\ j \in Nat /\ (Pending(j) <=> j <= i) /\ (Pending(j)' <=> j < i)
                      /\ (Removed(j) <=> j > i) /\ (Removed(j)' <=> j >= i)
                      /\ (Undone(j) <=> j > i) /\ (Undone(j)' <=> j > i)
                      /\ (j \in more <=> j \in writer.reported \/ j = i)
  BY <1>1, <1>3, <1>5 DEF Pending, Removed, Undone, In, Item, Forward, Rollback, i, more
<1>10. ASSUME NEW j \in Item PROVE ItemKnown(j)'
  <2>1. CASE j = i
    BY <1>1, <1>3, <1>5, <1>6, <1>9, <2>1, WriterAssumption DEF ItemKnown, Rollback, Forward
  <2>2. CASE j # i
    BY <1>1, <1>3, <1>5, <1>6, <1>9, <2>2 DEF ItemKnown, Rollback, Forward
  <2> QED
    BY <2>1, <2>2
<1>11. ASSUME NEW j \in Item \ robbed PROVE KeptItem(j)'
  <2>1. CASE j = i
    BY <1>1, <1>2, <1>3, <1>5, <1>6, <1>9, <2>1 DEF KeptItem, Rollback, Forward
  <2>2. CASE j # i
    BY <1>1, <1>2, <1>3, <1>5, <1>6, <1>9, <2>2 DEF KeptItem, Rollback, Forward
  <2> QED
    BY <2>1, <2>2
<1> QED
  BY <1>2, <1>7, <1>8, <1>10, <1>11 DEF WriterInv

LEMMA RestoreBackupKeeps == ASSUME WriterInv, RestoreBackup PROVE WriterInv'
<1> DEFINE i == writer.at
           back == i - 1
           fewer == writer.backupMoved \ {i}
           kept == writer.retained \cup {i}
           more == writer.reported \cup {i}
<1>1. /\ \A j \in Item : ItemKnown(j)
      /\ \A j \in Item \ robbed : KeptItem(j)
      /\ Noted /\ Held /\ Returned /\ Progress /\ Late /\ WriterTyped
      /\ writer \in WriterState /\ writer.pc = "restore" /\ Items \in Nat \ {0}
  BY WriterAssumption DEF WriterInv, WriterTyped, RestoreBackup, In
<1>2. UNCHANGED <<dirs, staged, recovery, moved, first, robbed>>
  BY DEF RestoreBackup, others
<1>3. /\ i \in Item /\ i \in Nat /\ i \in 1..writer.items /\ back \in Nat /\ writer.items \in Nat
      /\ back <= writer.items
      /\ fewer \in SUBSET Item /\ kept \in SUBSET Item /\ more \in SUBSET Item
  <2>1. i \in 1..writer.items /\ writer.items <= Items /\ writer.items \in Nat
    BY <1>1 DEF Progress, In, WriterState
  <2>2. i \in Item /\ i \in Nat /\ back \in Nat /\ back <= writer.items
    BY <1>1, <2>1 DEF Item
  <2> HIDE DEF i
  <2> QED
    BY <1>1, <2>1, <2>2 DEF WriterState
<1>4. \/ /\ i \notin writer.backupMoved /\ UNCHANGED <<dest, saved>>
         /\ writer' = [writer EXCEPT !.pc = "remove", !.at = back]
      \/ /\ i \in writer.backupMoved
         /\ dest' = [dest EXCEPT ![i] = saved[i]] /\ saved' = [saved EXCEPT ![i] = NoOutput]
         /\ writer' = [writer EXCEPT !.pc = "remove", !.at = back, !.backupMoved = fewer]
      \/ /\ i \in writer.backupMoved /\ UNCHANGED <<dest, saved>>
         /\ writer' = [writer EXCEPT !.pc = "remove", !.at = back, !.retained = kept, !.reported = more]
  BY <1>1 DEF RestoreBackup, WriterState
<1>5. \A j \in Item : /\ j \in Nat /\ (j <= back <=> j < i) /\ (j > back <=> j >= i) /\ (j >= i <=> j > i \/ j = i)
  BY <1>3 DEF Item
<1> HIDE DEF i, back, fewer, kept, more
<1>6. /\ writer' \in WriterState /\ writer'.pc = "remove" /\ writer'.at = back
      /\ writer'.stage = writer.stage /\ writer'.items = writer.items
      /\ writer'.found = writer.found /\ writer'.published = writer.published
      /\ writer'.paths = writer.paths /\ writer'.verified = writer.verified
      /\ writer'.outcome = writer.outcome
      /\ writer'.backupMoved \in {writer.backupMoved, fewer}
      /\ writer'.retained \in {writer.retained, kept}
      /\ writer'.reported \in {writer.reported, more}
  <2>1. CASE writer' = [writer EXCEPT !.pc = "remove", !.at = back]
    BY <1>1, <1>3, <2>1 DEF WriterState, Pcs, Rollback
  <2>2. CASE writer' = [writer EXCEPT !.pc = "remove", !.at = back, !.backupMoved = fewer]
    BY <1>1, <1>3, <2>2 DEF WriterState, Pcs, Rollback
  <2>3. CASE writer' = [writer EXCEPT !.pc = "remove", !.at = back, !.retained = kept, !.reported = more]
    BY <1>1, <1>3, <2>3 DEF WriterState, Pcs, Rollback
  <2> QED
    BY <1>4, <2>1, <2>2, <2>3
<1>7. \/ /\ i \notin writer.backupMoved /\ UNCHANGED <<dest, saved>>
         /\ writer'.backupMoved = writer.backupMoved /\ writer'.retained = writer.retained
         /\ writer'.reported = writer.reported
      \/ /\ i \in writer.backupMoved
         /\ dest' = [dest EXCEPT ![i] = saved[i]] /\ saved' = [saved EXCEPT ![i] = NoOutput]
         /\ writer'.backupMoved = fewer /\ writer'.retained = writer.retained
         /\ writer'.reported = writer.reported
      \/ /\ i \in writer.backupMoved /\ UNCHANGED <<dest, saved>>
         /\ writer'.backupMoved = writer.backupMoved /\ writer'.retained = kept
         /\ writer'.reported = more
  BY <1>1, <1>4 DEF WriterState
<1>8. /\ dest' \in [Item -> File] /\ saved' \in [Item -> File \ {"artifact"}]
      /\ \A j \in Item \ {i} : dest'[j] = dest[j] /\ saved'[j] = saved[j]
      /\ i \in fewer <=> FALSE
      /\ writer'.backupMoved = fewer /\ i \in writer.backupMoved => dest'[i] = saved[i] /\ saved'[i] = NoOutput
      /\ saved[i] # "artifact"
  BY <1>1, <1>3, <1>7, WriterAssumption DEF WriterTyped, File, fewer
<1>9. WriterTyped'
  BY <1>1, <1>2, <1>6, <1>8 DEF WriterTyped
<1>10. \A j \in Item : /\ j \in fewer <=> (j \in writer.backupMoved /\ j # i)
                       /\ j \in kept <=> (j \in writer.retained \/ j = i)
                       /\ j \in more <=> (j \in writer.reported \/ j = i)
  BY <1>3 DEF fewer, kept, more
<1>11. Held'
  <2>1. \A j \in Item : saved[j] # NoOutput <=> j \in writer.backupMoved
    BY <1>1 DEF Held
  <2>2. \A j \in Item : saved'[j] # NoOutput <=> j \in writer'.backupMoved
    BY <1>7, <1>8, <1>10, <2>1
  <2> QED
    BY <1>6, <2>2 DEF Held, In
<1>12. Progress' /\ Noted' /\ Returned' /\ Late' /\ PublishedTogether' /\ RecoveryReported'
  BY <1>1, <1>2, <1>3, <1>6
  DEF Progress, Noted, Returned, Late, PublishedTogether, RecoveryReported, In, Forward, Rollback
<1>13. \A j \in Item : /\ (Pending(j) <=> j < i) /\ (Pending(j)' <=> j < i)
                       /\ (Removed(j) <=> j >= i) /\ (Removed(j)' <=> j >= i)
                       /\ (Undone(j) <=> j > i) /\ (Undone(j)' <=> j >= i)
  BY <1>1, <1>3, <1>5, <1>6 DEF Pending, Removed, Undone, In, Forward, Rollback, i
<1>14. ASSUME NEW j \in Item PROVE ItemKnown(j)'
  <2>1. CASE j = i
    BY <1>1, <1>3, <1>5, <1>6, <1>7, <1>8, <1>10, <1>13, <2>1 DEF ItemKnown, Rollback, Forward
  <2>2. CASE j # i
    BY <1>1, <1>3, <1>5, <1>6, <1>7, <1>8, <1>10, <1>13, <2>2 DEF ItemKnown, Rollback, Forward
  <2> QED
    BY <2>1, <2>2
<1>15. ASSUME NEW j \in Item \ robbed PROVE KeptItem(j)'
  <2>1. CASE j = i
    BY <1>1, <1>2, <1>3, <1>5, <1>6, <1>7, <1>8, <1>10, <1>13, <2>1 DEF KeptItem, Rollback, Forward
  <2>2. CASE j # i
    BY <1>1, <1>2, <1>3, <1>5, <1>6, <1>7, <1>8, <1>10, <1>13, <2>2 DEF KeptItem, Rollback, Forward
  <2> QED
    BY <2>1, <2>2
<1> QED
  BY <1>2, <1>9, <1>11, <1>12, <1>14, <1>15 DEF WriterInv

(* What is kept of the staging directory is all it has of the destinations.*)
LEMMA CleanStageKeeps == ASSUME WriterInv, cleanStage PROVE WriterInv'
<1>1. /\ \A j \in Item : ItemKnown(j)
      /\ \A j \in Item \ robbed : KeptItem(j)
      /\ Noted /\ Held /\ Returned /\ Progress /\ Late /\ WriterTyped
      /\ writer \in WriterState /\ writer.pc = "remove" /\ Items \in Nat \ {0}
  BY WriterAssumption DEF WriterInv, WriterTyped, cleanStage, In
<1>2. writer.at = 0 /\ ~writer.verified /\ writer.outcome = "none"
  BY <1>1 DEF cleanStage, Noted, Returned, Rollback
<1>3. \A i \in Item : Undone(i) /\ Removed(i)
  BY <1>1, <1>2 DEF Undone, Removed, Rollback, In, Item
<1>4. /\ \A i \in Item : i \in writer.backupMoved <=> i \in writer.retained
      /\ \A i \in Item : saved[i] # NoOutput <=> i \in writer.retained
      /\ writer.retained = writer.backupMoved
  BY <1>1, <1>3 DEF ItemKnown, Held, WriterState
<1>5. saved' = saved
  <2>1. saved' = [i \in Item |-> IF i \in writer.retained THEN saved[i] ELSE NoOutput]
    BY DEF cleanStage
  <2> QED
    BY <1>1, <1>4, <2>1 DEF WriterTyped
<1>6. UNCHANGED <<dest, dirs, recovery, moved, first, robbed>> /\ staged' \in SUBSET Item
  BY <1>1 DEF cleanStage, others, WriterTyped
<1>7. OriginalsSaved
  <2> SUFFICES ASSUME NEW i \in Item, first[i] = "original", i \notin robbed
               PROVE  "original" \in {dest[i], saved[i], recovery[i]}
    BY DEF OriginalsSaved
  <2> QED
    BY <1>1, <1>3, WriterAssumption DEF KeptItem, Rollback
<1>8. CASE writer.retained = {} /\ writer' = [writer EXCEPT !.pc = "close", !.outcome = "error"]
  <2>1. /\ writer' \in WriterState /\ writer'.pc = "close" /\ writer'.at = writer.at
        /\ writer'.stage = writer.stage /\ writer'.items = writer.items
        /\ writer'.found = writer.found /\ writer'.backupMoved = writer.backupMoved
        /\ writer'.published = writer.published /\ writer'.retained = writer.retained
        /\ writer'.reported = writer.reported /\ writer'.paths = writer.paths
        /\ writer'.unnamed = writer.unnamed /\ writer'.keepStage = writer.keepStage
        /\ writer'.verified = writer.verified /\ writer'.anchor = writer.anchor
        /\ writer'.outcome = "error"
    BY <1>1, <1>8 DEF WriterState, Pcs, Outcomes
  <2>2. WriterTyped'
    BY <1>1, <1>5, <1>6, <2>1 DEF WriterTyped
  <2>3. \A i \in Item : /\ saved[i] = NoOutput
                        /\ dest[i] = "artifact" => i \in writer.reported
                        /\ i \notin robbed => dest[i] = first[i] \/ i \in writer.reported
    BY <1>1, <1>3, <1>4, <1>8 DEF ItemKnown, KeptItem
  <2>4. Progress' /\ Noted' /\ Held' /\ Returned' /\ Late' /\ PublishedTogether' /\ RecoveryReported'
    BY <1>1, <1>5, <1>6, <1>7, <2>1, <2>3
    DEF Progress, Noted, Held, Returned, Late, OriginalsSaved, PublishedTogether, RecoveryReported,
        In, Forward, Rollback
  <2>5. (\A j \in Item : ItemKnown(j)') /\ \A j \in Item \ robbed : KeptItem(j)'
    BY <1>1, <1>6, <2>1 DEF ItemKnown, KeptItem, Pending, Removed, Undone, In, Forward, Rollback
  <2> QED
    BY <1>6, <2>2, <2>4, <2>5 DEF WriterInv
<1>9. CASE writer' = [writer EXCEPT !.pc = "anchor"]
  <2>1. /\ writer' \in WriterState /\ writer'.pc = "anchor" /\ writer'.at = writer.at
        /\ writer'.stage = writer.stage /\ writer'.items = writer.items
        /\ writer'.found = writer.found /\ writer'.backupMoved = writer.backupMoved
        /\ writer'.published = writer.published /\ writer'.retained = writer.retained
        /\ writer'.reported = writer.reported /\ writer'.paths = writer.paths
        /\ writer'.unnamed = writer.unnamed /\ writer'.keepStage = writer.keepStage
        /\ writer'.verified = writer.verified /\ writer'.anchor = writer.anchor
        /\ writer'.outcome = writer.outcome
    BY <1>1, <1>9 DEF WriterState, Pcs
  <2>2. WriterTyped'
    BY <1>1, <1>5, <1>6, <2>1 DEF WriterTyped
  <2>3. Progress' /\ Noted' /\ Held' /\ Returned' /\ Late' /\ PublishedTogether' /\ RecoveryReported'
    BY <1>1, <1>2, <1>4, <1>5, <1>6, <1>7, <2>1
    DEF Progress, Noted, Held, Returned, Late, OriginalsSaved, PublishedTogether, RecoveryReported,
        In, Forward, Rollback
  <2>4. (\A j \in Item : ItemKnown(j)') /\ \A j \in Item \ robbed : KeptItem(j)'
    BY <1>1, <1>6, <2>1 DEF ItemKnown, KeptItem, Pending, Removed, Undone, In, Forward, Rollback
  <2> QED
    BY <1>6, <2>2, <2>3, <2>4 DEF WriterInv
<1> QED
  BY <1>8, <1>9 DEF cleanStage

LEMMA OpenRecoveryKeeps == ASSUME WriterInv, OpenRecovery PROVE WriterInv'
<1>1. /\ \A j \in Item : ItemKnown(j)
      /\ \A j \in Item \ robbed : KeptItem(j)
      /\ Noted /\ Held /\ Returned /\ Progress /\ Late /\ WriterTyped
      /\ writer \in WriterState /\ writer.pc = "anchor" /\ Items \in Nat \ {0}
  BY WriterAssumption DEF WriterInv, WriterTyped, OpenRecovery, In
<1>2. UNCHANGED <<dest, dirs, staged, saved, recovery, moved, first, robbed>>
  BY DEF OpenRecovery, places, others
<1>3. CASE writer' = [writer EXCEPT !.pc = "relocate", !.outcome = "recovery",
                                    !.anchor = deepestVerifiedAnchor]
  <2>1. deepestVerifiedAnchor \in {"root", "above"}
    BY DEF deepestVerifiedAnchor
  <2>2. /\ writer' \in WriterState /\ writer'.pc = "relocate" /\ writer'.at = writer.at
        /\ writer'.stage = writer.stage /\ writer'.items = writer.items
        /\ writer'.found = writer.found /\ writer'.backupMoved = writer.backupMoved
        /\ writer'.published = writer.published /\ writer'.retained = writer.retained
        /\ writer'.reported = writer.reported /\ writer'.paths = writer.paths
        /\ writer'.unnamed = writer.unnamed /\ writer'.keepStage = writer.keepStage
        /\ writer'.verified = writer.verified /\ writer'.anchor = deepestVerifiedAnchor
        /\ writer'.outcome = "recovery"
    BY <1>1, <1>3, <2>1 DEF WriterState, Pcs, Outcomes
  <2>3. WriterTyped'
    BY <1>1, <1>2, <2>2 DEF WriterTyped
  <2>4. Progress' /\ Noted' /\ Held' /\ Returned' /\ Late' /\ PublishedTogether' /\ RecoveryReported'
    BY <1>1, <1>2, <2>2
    DEF Progress, Noted, Held, Returned, Late, OriginalsSaved, PublishedTogether, RecoveryReported,
        In, Forward, Rollback
  <2>5. (\A j \in Item : ItemKnown(j)') /\ \A j \in Item \ robbed : KeptItem(j)'
    BY <1>1, <1>2, <2>2 DEF ItemKnown, KeptItem, Pending, Removed, Undone, In, Forward, Rollback
  <2> QED
    BY <1>2, <2>3, <2>4, <2>5 DEF WriterInv
<1>4. CASE writer' = [writer EXCEPT !.pc = "close", !.outcome = "recovery", !.keepStage = TRUE]
  <2>1. /\ writer' \in WriterState /\ writer'.pc = "close" /\ writer'.at = writer.at
        /\ writer'.stage = writer.stage /\ writer'.items = writer.items
        /\ writer'.found = writer.found /\ writer'.backupMoved = writer.backupMoved
        /\ writer'.published = writer.published /\ writer'.retained = writer.retained
        /\ writer'.reported = writer.reported /\ writer'.paths = writer.paths
        /\ writer'.unnamed = writer.unnamed /\ writer'.keepStage
        /\ writer'.verified = writer.verified /\ writer'.anchor = writer.anchor
        /\ writer'.outcome = "recovery"
    BY <1>1, <1>4 DEF WriterState, Pcs, Outcomes
  <2>2. WriterTyped'
    BY <1>1, <1>2, <2>1 DEF WriterTyped
  <2>3. Progress' /\ Noted' /\ Held' /\ Returned' /\ Late' /\ PublishedTogether' /\ RecoveryReported'
    BY <1>1, <1>2, <2>1
    DEF Progress, Noted, Held, Returned, Late, OriginalsSaved, PublishedTogether, RecoveryReported,
        In, Forward, Rollback
  <2>4. (\A j \in Item : ItemKnown(j)') /\ \A j \in Item \ robbed : KeptItem(j)'
    BY <1>1, <1>2, <2>1 DEF ItemKnown, KeptItem, Pending, Removed, Undone, In, Forward, Rollback
  <2> QED
    BY <1>2, <2>2, <2>3, <2>4 DEF WriterInv
<1> QED
  BY <1>3, <1>4 DEF OpenRecovery

(* What was retained is in the recovery directory, or the stage is kept.   *)
LEMMA RelocateKeeps == ASSUME WriterInv, Relocate PROVE WriterInv'
<1> DEFINE i == CHOOSE x \in writer.retained : TRUE
           fewer == writer.retained \ {i}
           named == writer.paths \cup {i}
           unnamed == writer.unnamed \cup {i}
<1>1. /\ \A j \in Item : ItemKnown(j)
      /\ \A j \in Item \ robbed : KeptItem(j)
      /\ Noted /\ Held /\ Returned /\ Progress /\ Late /\ WriterTyped
      /\ writer \in WriterState /\ writer.pc = "relocate" /\ Items \in Nat \ {0}
  BY WriterAssumption DEF WriterInv, WriterTyped, Relocate, In
<1>2. UNCHANGED <<dest, dirs, staged, moved, first, robbed>>
  BY DEF Relocate, others
<1>3. /\ i \in writer.retained /\ i \in Item
      /\ fewer \in SUBSET Item /\ named \in SUBSET Item /\ unnamed \in SUBSET Item
  <2>1. i \in writer.retained
    BY DEF Relocate
  <2> HIDE DEF i
  <2> QED
    BY <1>1, <2>1 DEF WriterState
<1>4. \/ /\ recovery' = [recovery EXCEPT ![i] = saved[i]] /\ saved' = [saved EXCEPT ![i] = NoOutput]
         /\ writer' = [writer EXCEPT !.retained = fewer, !.paths = named]
      \/ /\ recovery' = [recovery EXCEPT ![i] = saved[i]] /\ saved' = [saved EXCEPT ![i] = NoOutput]
         /\ writer' = [writer EXCEPT !.retained = fewer, !.unnamed = unnamed]
      \/ /\ UNCHANGED <<recovery, saved>>
         /\ writer' = [writer EXCEPT !.retained = fewer, !.unnamed = unnamed, !.keepStage = TRUE]
  <2> HIDE DEF i
  <2> QED
    BY <1>1 DEF Relocate, WriterState, i
<1> HIDE DEF i, fewer, named, unnamed
<1>5. /\ writer' \in WriterState /\ writer'.pc = "relocate"
      /\ writer'.stage = writer.stage /\ writer'.items = writer.items
      /\ writer'.found = writer.found /\ writer'.published = writer.published
      /\ writer'.verified = writer.verified /\ writer'.outcome = writer.outcome
      /\ writer'.reported = writer.reported /\ writer'.retained = fewer
      /\ writer'.paths \in {writer.paths, named}
      /\ writer'.unnamed \in {writer.unnamed, unnamed}
      /\ writer'.keepStage \in {writer.keepStage, TRUE}
  <2>1. CASE writer' = [writer EXCEPT !.retained = fewer, !.paths = named]
    BY <1>1, <1>3, <2>1 DEF WriterState
  <2>2. CASE writer' = [writer EXCEPT !.retained = fewer, !.unnamed = unnamed]
    BY <1>1, <1>3, <2>2 DEF WriterState
  <2>3. CASE writer' = [writer EXCEPT !.retained = fewer, !.unnamed = unnamed, !.keepStage = TRUE]
    BY <1>1, <1>3, <2>3 DEF WriterState
  <2> QED
    BY <1>4, <2>1, <2>2, <2>3
<1>6. \/ /\ recovery' = [recovery EXCEPT ![i] = saved[i]] /\ saved' = [saved EXCEPT ![i] = NoOutput]
         /\ writer'.keepStage = writer.keepStage
         /\ \/ writer'.paths = named /\ writer'.unnamed = writer.unnamed
            \/ writer'.paths = writer.paths /\ writer'.unnamed = unnamed
      \/ /\ UNCHANGED <<recovery, saved>> /\ writer'.paths = writer.paths
         /\ writer'.unnamed = unnamed /\ writer'.keepStage
  BY <1>1, <1>4 DEF WriterState
<1>7. /\ recovery' \in [Item -> File] /\ saved' \in [Item -> File \ {"artifact"}]
      /\ \A j \in Item \ {i} : recovery'[j] = recovery[j] /\ saved'[j] = saved[j]
      /\ \/ /\ recovery'[i] = saved[i] /\ saved'[i] = NoOutput
            /\ writer'.keepStage = writer.keepStage
            /\ \/ writer'.paths = named /\ writer'.unnamed = writer.unnamed
               \/ writer'.paths = writer.paths /\ writer'.unnamed = unnamed
         \/ /\ recovery'[i] = recovery[i] /\ saved'[i] = saved[i] /\ writer'.keepStage
            /\ writer'.paths = writer.paths /\ writer'.unnamed = unnamed
  BY <1>1, <1>3, <1>6, WriterAssumption DEF WriterTyped, File
<1>8. WriterTyped'
  BY <1>1, <1>2, <1>5, <1>7 DEF WriterTyped
<1>9. \A j \in Item : /\ j \in fewer <=> (j \in writer.retained /\ j # i)
                      /\ j \in named <=> (j \in writer.paths \/ j = i)
                      /\ j \in unnamed <=> (j \in writer.unnamed \/ j = i)
  BY <1>3 DEF fewer, named, unnamed
<1>10. /\ saved[i] # NoOutput /\ recovery[i] = NoOutput /\ writer.outcome = "recovery"
       /\ \A j \in Item : /\ j \in writer.retained => saved[j] # NoOutput /\ recovery[j] = NoOutput
                          /\ saved[j] # NoOutput => j \in writer.retained \/ writer.keepStage
                          /\ recovery[j] # NoOutput => j \in writer.paths \cup writer.unnamed
                          /\ j \in writer.paths => recovery[j] # NoOutput
       /\ writer.stage
  BY <1>1, <1>3 DEF Returned, In
<1>11. ASSUME NEW j \in Item
       PROVE  /\ j \in fewer => saved'[j] # NoOutput /\ recovery'[j] = NoOutput
              /\ saved'[j] # NoOutput => j \in fewer \/ writer'.keepStage
              /\ recovery'[j] # NoOutput => j \in writer'.paths \cup writer'.unnamed
              /\ j \in writer'.paths => recovery'[j] # NoOutput
  <2>1. /\ j \in writer'.paths => j \in writer.paths \/ (j = i /\ recovery'[i] = saved[i])
        /\ j \in writer.paths => j \in writer'.paths
        /\ j \in writer.unnamed => j \in writer'.unnamed
        /\ i \in writer'.paths \/ i \in writer'.unnamed
    BY <1>3, <1>7, <1>9
  <2>2. CASE j = i
    <3>1. j \notin fewer
      BY <1>9, <2>2
    <3>2. j \in writer.paths => recovery[j] # NoOutput
      BY <1>10
    <3> QED
      BY <1>7, <1>10, <2>1, <2>2, <3>1, <3>2
  <2>3. CASE j # i
    <3>1. saved'[j] = saved[j] /\ recovery'[j] = recovery[j] /\ (j \in fewer <=> j \in writer.retained)
      BY <1>7, <1>9, <2>3
    <3>2. writer.keepStage => writer'.keepStage
      BY <1>5
    <3> QED
      BY <1>10, <2>1, <2>3, <3>1, <3>2
  <2> QED
    BY <2>2, <2>3
<1>12. Returned'
  BY <1>5, <1>10, <1>11 DEF Returned, In, Forward, Rollback
<1>13. Late'
  <2> SUFFICES ASSUME NEW j \in Item, first[j] = "original", j \notin robbed, ~writer.verified
               PROVE  "original" \in {dest[j], saved'[j], recovery'[j]}
    BY <1>2, <1>5 DEF Late, OriginalsSaved
  <2>1. "original" \in {dest[j], saved[j], recovery[j]}
    BY <1>1 DEF Late, OriginalsSaved
  <2> QED
    BY <1>3, <1>7, <1>10, <2>1, WriterAssumption
<1>14. Progress' /\ Noted' /\ Held' /\ PublishedTogether' /\ RecoveryReported'
  BY <1>1, <1>5, <1>10 DEF Progress, Noted, Held, PublishedTogether, RecoveryReported, In, Forward, Rollback
<1>15. (\A j \in Item : ItemKnown(j)') /\ \A j \in Item \ robbed : KeptItem(j)'
  BY <1>1, <1>2, <1>5 DEF ItemKnown, KeptItem, Pending, Removed, Undone, In, Forward, Rollback
<1> QED
  BY <1>2, <1>8, <1>12, <1>13, <1>14, <1>15 DEF WriterInv

LEMMA RelocatedKeeps == ASSUME WriterInv, Relocated PROVE WriterInv'
<1>1. /\ \A j \in Item : ItemKnown(j)
      /\ \A j \in Item \ robbed : KeptItem(j)
      /\ Noted /\ Held /\ Returned /\ Progress /\ Late /\ WriterTyped
      /\ writer \in WriterState /\ writer.pc = "relocate" /\ Items \in Nat \ {0}
  BY WriterAssumption DEF WriterInv, WriterTyped, Relocated, In
<1>2. /\ UNCHANGED <<dest, dirs, staged, saved, recovery, moved, first, robbed>>
      /\ writer' = [writer EXCEPT !.pc = "close"] /\ writer.retained = {}
  BY DEF Relocated, places, others
<1>3. /\ writer' \in WriterState /\ writer'.pc = "close" /\ writer'.at = writer.at
      /\ writer'.stage = writer.stage /\ writer'.items = writer.items
      /\ writer'.found = writer.found /\ writer'.backupMoved = writer.backupMoved
      /\ writer'.published = writer.published /\ writer'.retained = writer.retained
      /\ writer'.reported = writer.reported /\ writer'.paths = writer.paths
      /\ writer'.unnamed = writer.unnamed /\ writer'.keepStage = writer.keepStage
      /\ writer'.verified = writer.verified /\ writer'.anchor = writer.anchor
      /\ writer'.outcome = writer.outcome
  BY <1>1, <1>2 DEF WriterState, Pcs
<1>4. WriterTyped'
  BY <1>1, <1>2, <1>3 DEF WriterTyped
<1>5. Progress' /\ Noted' /\ Held' /\ Returned' /\ Late' /\ PublishedTogether' /\ RecoveryReported'
  BY <1>1, <1>2, <1>3
  DEF Progress, Noted, Held, Returned, Late, OriginalsSaved, PublishedTogether, RecoveryReported,
      In, Forward, Rollback
<1>6. (\A j \in Item : ItemKnown(j)') /\ \A j \in Item \ robbed : KeptItem(j)'
  BY <1>1, <1>2, <1>3 DEF ItemKnown, KeptItem, Pending, Removed, Undone, In, Forward, Rollback
<1> QED
  BY <1>2, <1>4, <1>5, <1>6 DEF WriterInv

(* The writer ends, with the stage if it is kept.                          *)
LEMMA CloseKeeps == ASSUME WriterInv, Close PROVE WriterInv'
<1> DEFINE removed == /\ ~writer.keepStage /\ staged = {}
                      /\ saved = [i \in Item |-> NoOutput]
           left == writer.stage /\ ~removed
<1>1. /\ \A j \in Item : ItemKnown(j)
      /\ \A j \in Item \ robbed : KeptItem(j)
      /\ Noted /\ Held /\ Returned /\ Progress /\ Late /\ WriterTyped
      /\ writer \in WriterState /\ writer.pc = "close" /\ Items \in Nat \ {0}
  BY WriterAssumption DEF WriterInv, WriterTyped, Close, In
<1>2. /\ UNCHANGED <<dest, staged, saved, recovery, moved, first, robbed>>
      /\ writer' = [writer EXCEPT !.pc = "ended", !.stage = left] /\ dirs' \in SUBSET Dir
  BY <1>1 DEF Close, others, WriterTyped
<1>3. left \in BOOLEAN /\ (writer.keepStage /\ writer.stage => left)
  OBVIOUS
<1> HIDE DEF left, removed
<1>4. /\ writer' \in WriterState /\ writer'.pc = "ended" /\ writer'.at = writer.at
      /\ writer'.stage = left /\ writer'.items = writer.items /\ writer'.found = writer.found
      /\ writer'.backupMoved = writer.backupMoved /\ writer'.published = writer.published
      /\ writer'.retained = writer.retained /\ writer'.reported = writer.reported
      /\ writer'.paths = writer.paths /\ writer'.unnamed = writer.unnamed
      /\ writer'.keepStage = writer.keepStage /\ writer'.verified = writer.verified
      /\ writer'.anchor = writer.anchor /\ writer'.outcome = writer.outcome
  BY <1>1, <1>2, <1>3 DEF WriterState, Pcs
<1>5. WriterTyped'
  BY <1>1, <1>2, <1>4 DEF WriterTyped
<1>6. Progress' /\ Noted' /\ Held' /\ Returned' /\ Late'
  BY <1>1, <1>2, <1>4
  DEF Progress, Noted, Held, Returned, Late, OriginalsSaved, In, Forward, Rollback
<1>7. PublishedTogether'
  BY <1>2, <1>4 DEF WriterInv, PublishedTogether
<1>8. RecoveryReported'
  BY <1>1, <1>2, <1>3, <1>4 DEF Returned, RecoveryReported, In
<1>9. (\A j \in Item : ItemKnown(j)') /\ \A j \in Item \ robbed : KeptItem(j)'
  BY <1>1, <1>2, <1>4 DEF ItemKnown, KeptItem, Pending, Removed, Undone, In, Forward, Rollback
<1> QED
  BY <1>2, <1>5, <1>6, <1>7, <1>8, <1>9 DEF WriterInv

-------------------------------------------------------------------------------
(* The end, the other programs and every step.                             *)

LEMMA InvSavesOriginals == WriterInv => OriginalsSaved
<1> SUFFICES ASSUME WriterInv, NEW i \in Item, first[i] = "original", i \notin robbed, ~writer.verified
             PROVE  "original" \in {dest[i], saved[i], recovery[i]}
  BY DEF OriginalsSaved
<1>1. KeptItem(i) /\ Late /\ Noted /\ writer \in WriterState
  BY DEF WriterInv, WriterTyped
<1>2. CASE writer.pc \in Forward
  BY <1>1, <1>2, WriterAssumption DEF KeptItem, Pending
<1>3. CASE writer.pc \in Rollback
  <2>1. Pending(i) \/ Removed(i)
    BY <1>1, <1>3 DEF Pending, Removed, Rollback, In, Item, WriterState
  <2> QED
    BY <1>1, <1>3, <2>1, WriterAssumption DEF KeptItem
<1>4. CASE writer.pc \notin Forward \cup Rollback
  BY <1>1, <1>4 DEF Late, Noted, OriginalsSaved, In, WriterState, Pcs
<1> QED
  BY <1>2, <1>3, <1>4

LEMMA DieWritingKeeps == ASSUME WriterInv, DieWriting PROVE WriterInv'
<1>1. /\ \A j \in Item : ItemKnown(j)
      /\ \A j \in Item \ robbed : KeptItem(j)
      /\ Progress /\ WriterTyped /\ writer \in WriterState /\ OriginalsSaved
  BY InvSavesOriginals DEF WriterInv, WriterTyped
<1>2. /\ UNCHANGED <<dest, dirs, staged, saved, recovery, moved, first, robbed>>
      /\ writer' = [writer EXCEPT !.pc = "ended", !.outcome = "died"]
  BY DEF DieWriting, places, others
<1>3. /\ writer' \in WriterState /\ writer'.pc = "ended" /\ writer'.at = writer.at
      /\ writer'.stage = writer.stage /\ writer'.items = writer.items
      /\ writer'.found = writer.found /\ writer'.backupMoved = writer.backupMoved
      /\ writer'.published = writer.published /\ writer'.retained = writer.retained
      /\ writer'.reported = writer.reported /\ writer'.paths = writer.paths
      /\ writer'.unnamed = writer.unnamed /\ writer'.keepStage = writer.keepStage
      /\ writer'.verified = writer.verified /\ writer'.anchor = writer.anchor
      /\ writer'.outcome = "died"
  BY <1>1, <1>2 DEF WriterState, Pcs, Outcomes
<1>4. WriterTyped'
  BY <1>1, <1>2, <1>3 DEF WriterTyped
<1>5. Progress' /\ Noted' /\ Held' /\ Returned' /\ Late' /\ PublishedTogether' /\ RecoveryReported'
  BY <1>1, <1>2, <1>3
  DEF Progress, Noted, Held, Returned, Late, OriginalsSaved, PublishedTogether, RecoveryReported,
      In, Forward, Rollback
<1>6. (\A j \in Item : ItemKnown(j)') /\ \A j \in Item \ robbed : KeptItem(j)'
  BY <1>1, <1>2, <1>3 DEF ItemKnown, KeptItem, Pending, Removed, Undone, In, Forward, Rollback
<1> QED
  BY <1>2, <1>4, <1>5, <1>6 DEF WriterInv

(* Another program puts no artifact anywhere.                              *)
LEMMA InterfereKeeps == ASSUME WriterInv, NEW i \in Item, Interfere(i) PROVE WriterInv'
<1>1. PICK f \in {"foreign", NoOutput} : dest' = [dest EXCEPT ![i] = f]
  BY DEF Interfere
<1>2. /\ UNCHANGED <<dirs, staged, saved, recovery, writer, moved, first>>
      /\ robbed' = robbed \cup {i} /\ writer.pc # "ended" /\ WriterTyped
  BY DEF Interfere, WriterInv, In
<1>3. /\ dest' \in [Item -> File] /\ dest'[i] # "artifact"
      /\ \A j \in Item \ {i} : dest'[j] = dest[j]
  BY <1>1, <1>2, WriterAssumption DEF WriterTyped, File
<1>4. WriterTyped'
  BY <1>2, <1>3 DEF WriterTyped
<1>5. Progress' /\ Noted' /\ Held' /\ Returned' /\ RecoveryReported'
  BY <1>2 DEF WriterInv, Progress, Noted, Held, Returned, RecoveryReported, In
<1>6. OriginalsSaved => OriginalsSaved'
  BY <1>2, <1>3 DEF OriginalsSaved
<1>7. Late'
  BY <1>2, <1>6 DEF WriterInv, Late
<1>8. PublishedTogether'
  BY <1>2, <1>3 DEF WriterInv, PublishedTogether
<1>9. ASSUME NEW j \in Item PROVE ItemKnown(j)'
  BY <1>2, <1>3 DEF WriterInv, ItemKnown, Pending, Removed, Undone, In
<1>10. ASSUME NEW j \in Item \ robbed' PROVE KeptItem(j)'
  BY <1>2, <1>3 DEF WriterInv, KeptItem, Pending, Removed, In
<1> QED
  BY <1>4, <1>5, <1>7, <1>8, <1>9, <1>10 DEF WriterInv

LEMMA SameWriterKeeps ==
  ASSUME WriterInv, UNCHANGED <<dest, dirs, staged, saved, recovery, writer, first, robbed>>,
         moved' \in SUBSET Dir
  PROVE  WriterInv'
BY DEF WriterInv, WriterTyped, Progress, Noted, Held, Returned, Late, OriginalsSaved,
       PublishedTogether, RecoveryReported, ItemKnown, KeptItem, Pending, Removed, Undone, In

LEMMA WriterStepKeeps == WriterInv /\ [WriterNext]_writerVars => WriterInv'
<1> SUFFICES ASSUME WriterInv, [WriterNext]_writerVars PROVE WriterInv'
  OBVIOUS
<1>1. CASE WriterStep
  <2>1. CASE OpenStage \/ Prepare \/ Prepared \/ CheckDestination \/ Backup \/ Publish \/ verifyPublished
    BY <2>1, OpenStageKeeps, PrepareKeeps, PreparedKeeps, CheckKeeps, BackupFileKeeps, PublishKeeps,
       VerifyKeeps
  <2>2. CASE Cleanup \/ Cleaned \/ RemoveArtifact \/ RestoreBackup \/ cleanStage
    BY <2>2, CleanupKeeps, CleanedKeeps, RemoveArtifactKeeps, RestoreBackupKeeps, CleanStageKeeps
  <2>3. CASE OpenRecovery \/ Relocate \/ Relocated \/ Close \/ DieWriting
    BY <2>3, OpenRecoveryKeeps, RelocateKeeps, RelocatedKeeps, CloseKeeps, DieWritingKeeps
  <2> QED
    BY <1>1, <2>1, <2>2, <2>3 DEF WriterStep
<1>2. CASE \E i \in Item : Interfere(i)
  BY <1>2, InterfereKeeps
<1>3. CASE \E d \in Dir : Move(d)
  BY <1>3, SameWriterKeeps DEF Move, places, WriterInv, WriterTyped
<1>4. CASE UNCHANGED writerVars
  BY <1>4, SameWriterKeeps DEF writerVars, places, others, WriterInv, WriterTyped
<1> QED
  BY <1>1, <1>2, <1>3, <1>4 DEF WriterNext

LEMMA WriterInvariant == WriterSpec => []WriterInv
<1> QED
  BY WriterInitInv, WriterStepKeeps, PTL DEF WriterSpec

(* A generation of tests loses no file: until all artifacts were seen in   *)
(* their places, what was at a destination is there, in the staging        *)
(* directory or in the recovery directory, whichever step of publish, of   *)
(* its rollback or of the recovery fails and wherever the process dies.    *)
THEOREM WriterLosesNothing == WriterSpec => []OriginalsSaved
<1> QED
  BY WriterInvariant, InvSavesOriginals, PTL

(* A generation publishes all artifacts or none: success means that each   *)
(* was seen in its place, and a plain error that none is left and every    *)
(* file is back, but for what the error lists.                             *)
THEOREM WriterPublishesTogether == WriterSpec => []PublishedTogether
<1>1. WriterInv => PublishedTogether
  BY DEF WriterInv
<1> QED
  BY <1>1, WriterInvariant, PTL

(* What a generation could not put back is where its error says, and the   *)
(* staging directory is kept if anything is left in it.                    *)
THEOREM WriterReportsRecovery == WriterSpec => []RecoveryReported
<1>1. WriterInv => RecoveryReported
  BY DEF WriterInv
<1> QED
  BY <1>1, WriterInvariant, PTL
=========================================================================
