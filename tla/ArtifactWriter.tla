---------------------------- MODULE ArtifactWriter ----------------------------
(***************************************************************************)
(* The publication of generated tests (src/internal/testgen/write.go): the *)
(* artifacts are written to a staging directory and renamed to their       *)
(* destinations, what was there is renamed to the staging directory first. *)
(* Other programs write at the same destinations and move the directories  *)
(* meanwhile, any step may fail, and the writer may die between any two.   *)
(*                                                                         *)
(* Files are told apart as the code tells them, by their identity: the     *)
(* file found at a destination at first, the artifact, or another's.       *)
(* Directories are held open, so that a destination stays the place in the *)
(* directory that was opened, wherever that directory is moved.            *)
(***************************************************************************)
EXTENDS Integers, FiniteSets

CONSTANTS
  Items,         \* how many artifacts there are, in the order of their paths
  InSub,         \* those whose destination is in the subdirectory
  Forcing,       \* the values of --force
  Destinations,  \* what may be at the destinations at first
  MaxForeign, MaxMoves, WriterFaults,  \* the bounds
  NoOutput

Item == 1..Items
Dir == {"root", "sub"}
ParentOf(i) == IF i \in InSub THEN "sub" ELSE "root"
File == {"original", "artifact", "foreign", "special", NoOutput}

ASSUME WriterAssumption ==
  /\ Items \in Nat \ {0} /\ InSub \subseteq Item
  /\ Forcing \subseteq BOOLEAN
  /\ Destinations \subseteq [Item -> {"original", "special", NoOutput}]
  /\ {MaxForeign, MaxMoves, WriterFaults} \subseteq Nat
  /\ NoOutput \notin {"original", "artifact", "foreign", "special"}

VARIABLES
  dest,       \* the file at each destination
  dirs,       \* the directories there are
  moved,      \* the directories that were moved away after they were opened
  staged,     \* the artifacts in the staging directory
  saved,      \* what the staging directory has of each destination
  recovery,   \* what the recovery directory has of each
  writer,     \* the writer: where it is and what it has noted
  first,      \* history: dest at first
  robbed,     \* history: the destinations another program has changed
  foreign, writerFaults

places == <<dest, dirs, staged, saved, recovery>>
others == <<moved, first, robbed, foreign>>
writerVars == <<places, writer, others, writerFaults>>
-------------------------------------------------------------------------------
WriterInit ==
  /\ dest \in Destinations /\ first = dest
  /\ dirs \in {{}, {"root"}, {"root", "sub"}}
  /\ \A i \in Item : dest[i] # NoOutput => ParentOf(i) \in dirs
  /\ moved = {} /\ staged = {} /\ robbed = {}
  /\ saved = [i \in Item |-> NoOutput] /\ recovery = [i \in Item |-> NoOutput]
  /\ \E force \in Forcing :
       writer = [pc |-> "prepare", force |-> force, at |-> 1, stage |-> FALSE,
                 created |-> {}, items |-> 0, found |-> first, backupMoved |-> {},
                 published |-> {}, verified |-> FALSE, retained |-> {},
                 anchor |-> "root", paths |-> {}, unnamed |-> {},
                 keepStage |-> FALSE, reported |-> {}, outcome |-> "none"]
  /\ foreign = 0 /\ writerFaults = 0

In(pc) == writer.pc = pc
Fault == writerFaults < WriterFaults /\ writerFaults' = writerFaults + 1
Fine == UNCHANGED writerFaults

(* Every directory that was opened is still where it was.                  *)
verifyRoots == moved = {}

(* To the rollback, with the last item first.                              *)
Abort(w) == [w EXCEPT !.pc = "remove", !.at = w.items]

(* The root, made if missing, and in it the staging directory.             *)
OpenStage ==
  /\ In("prepare") /\ ~writer.stage
  /\ \/ /\ dirs' = dirs \cup {"root"}
        /\ writer' = [writer EXCEPT !.stage = TRUE, !.created = {"root"} \ dirs]
        /\ Fine
     \/ /\ writer' = [writer EXCEPT !.pc = "close", !.outcome = "error"]
        /\ Fault /\ UNCHANGED dirs
  /\ UNCHANGED <<dest, staged, saved, recovery, others>>

(* For each artifact the directories above its destination, made if        *)
(* missing, the look at what is there, and the copy in the staging         *)
(* directory.  A failure of the look at that copy leaves it behind.        *)
Prepare ==
  LET i == writer.at
      found == [writer EXCEPT !.created = @ \cup ({ParentOf(i)} \ dirs),
                              !.found[i] = dest[i]]
      free == dest[i] = NoOutput \/ (dest[i] # "special" /\ writer.force)
  IN
  /\ In("prepare") /\ writer.stage /\ i <= Items
  /\ \/ /\ free
        /\ writer' = [found EXCEPT !.at = i + 1, !.items = i]
        /\ staged' = staged \cup {i}
        /\ dirs' = dirs \cup {ParentOf(i)} /\ Fine
     \/ /\ ~free
        /\ writer' = Abort(found)
        /\ dirs' = dirs \cup {ParentOf(i)} /\ Fine /\ UNCHANGED staged
     \/ /\ writer' = Abort(found) /\ Fault
        /\ staged' \in {staged, staged \cup {i}}
        /\ dirs' = dirs \cup {ParentOf(i)}
     \/ writer' = Abort(writer) /\ Fault /\ UNCHANGED <<staged, dirs>>
  /\ UNCHANGED <<dest, saved, recovery, others>>

Prepared ==
  /\ In("prepare") /\ writer.at > Items
  /\ writer' = [writer EXCEPT !.pc = "check", !.at = 1]
  /\ Fine /\ UNCHANGED <<places, others>>

(* The destination must be as prepare found it: the same file or none.     *)
verifyDestination(i) == dest[i] = writer.found[i]

CheckDestination ==
  /\ In("check")
  /\ writer' = IF verifyRoots /\ verifyDestination(writer.at)
               THEN [writer EXCEPT !.pc = IF writer.found[writer.at] = NoOutput
                                          THEN "publish" ELSE "backup"]
               ELSE Abort(writer)
  /\ Fine /\ UNCHANGED <<places, others>>

(* Whatever is at the destination by now is renamed, and then whatever is  *)
(* there is replaced.                                                      *)
Backup ==
  LET i == writer.at IN
  /\ In("backup")
  /\ \/ /\ dest[i] # NoOutput
        /\ saved' = [saved EXCEPT ![i] = dest[i]]
        /\ dest' = [dest EXCEPT ![i] = NoOutput]
        /\ writer' = [writer EXCEPT !.pc = "publish", !.backupMoved = @ \cup {i}]
        /\ Fine
     \/ /\ dest[i] = NoOutput /\ Fine
        /\ writer' = Abort(writer) /\ UNCHANGED <<dest, saved>>
     \/ Fault /\ writer' = Abort(writer) /\ UNCHANGED <<dest, saved>>
  /\ UNCHANGED <<dirs, staged, recovery, others>>

Publish ==
  LET i == writer.at IN
  /\ In("publish")
  /\ \/ /\ dest' = [dest EXCEPT ![i] = "artifact"]
        /\ staged' = staged \ {i}
        /\ writer' = [writer EXCEPT !.published = @ \cup {i}, !.at = i + 1,
                        !.pc = IF i < Items THEN "check" ELSE "verify"]
        /\ Fine
     \/ Fault /\ writer' = Abort(writer) /\ UNCHANGED <<dest, staged>>
  /\ UNCHANGED <<dirs, saved, recovery, others>>

verifyPublished ==
  /\ In("verify")
  /\ writer' = IF verifyRoots /\ \A i \in Item : dest[i] = "artifact"
               THEN [writer EXCEPT !.pc = "cleanup", !.at = 1, !.verified = TRUE]
               ELSE Abort(writer)
  /\ Fine /\ UNCHANGED <<places, others>>

(* What was saved is removed; what cannot be removed goes to recovery.     *)
Cleanup ==
  LET i == writer.at IN
  /\ In("cleanup") /\ i <= Items
  /\ \/ /\ saved' = [saved EXCEPT ![i] = NoOutput]
        /\ writer' = [writer EXCEPT !.at = i + 1, !.backupMoved = @ \ {i}]
        /\ Fine
     \/ /\ i \in writer.backupMoved /\ Fault
        /\ writer' = [writer EXCEPT !.at = i + 1, !.retained = @ \cup {i}]
        /\ UNCHANGED saved
  /\ UNCHANGED <<dest, dirs, staged, recovery, others>>

Cleaned ==
  /\ In("cleanup") /\ writer.at > Items
  /\ writer' = IF writer.retained = {}
               THEN [writer EXCEPT !.pc = "close", !.outcome = "ok"]
               ELSE [writer EXCEPT !.pc = "anchor"]
  /\ Fine /\ UNCHANGED <<places, others>>
-------------------------------------------------------------------------------
(* A mutant: only an artifact that replaced a file is removed.             *)
RemoveReplacing ==
  LET i == writer.at
      next == [writer EXCEPT !.pc = "restore"]
      there == i \in writer.published /\ writer.found[i] # NoOutput
  IN
  /\ In("remove") /\ i > 0
  /\ \/ ~there /\ writer' = next /\ Fine /\ UNCHANGED dest
     \/ there /\ dest' = [dest EXCEPT ![i] = NoOutput] /\ writer' = next /\ Fine
     \/ /\ there /\ Fault /\ UNCHANGED dest
        /\ writer' = [next EXCEPT !.reported = @ \cup {i}]
  /\ UNCHANGED <<dirs, staged, saved, recovery, others>>

(* Rollback.  A file that was published is removed, or what has taken its  *)
(* place.                                                                  *)
RemoveArtifact ==
  LET i == writer.at
      next == [writer EXCEPT !.pc = "restore"]
      there == i \in writer.published
  IN
  /\ In("remove") /\ i > 0
  /\ \/ ~there /\ writer' = next /\ Fine /\ UNCHANGED dest
     \/ there /\ dest' = [dest EXCEPT ![i] = NoOutput] /\ writer' = next /\ Fine
     \/ /\ there /\ Fault /\ UNCHANGED dest
        /\ writer' = [next EXCEPT !.reported = @ \cup {i}]
  /\ UNCHANGED <<dirs, staged, saved, recovery, others>>

(* What was saved is renamed back, over whatever is there by now.          *)
RestoreBackup ==
  LET i == writer.at
      next == [writer EXCEPT !.pc = "remove", !.at = i - 1]
  IN
  /\ In("restore")
  /\ \/ /\ i \notin writer.backupMoved
        /\ writer' = next /\ Fine /\ UNCHANGED <<dest, saved>>
     \/ /\ i \in writer.backupMoved
        /\ dest' = [dest EXCEPT ![i] = saved[i]]
        /\ saved' = [saved EXCEPT ![i] = NoOutput]
        /\ writer' = [next EXCEPT !.backupMoved = @ \ {i}] /\ Fine
     \/ /\ i \in writer.backupMoved /\ Fault
        /\ writer' = [next EXCEPT !.retained = @ \cup {i}, !.reported = @ \cup {i}]
        /\ UNCHANGED <<dest, saved>>
  /\ UNCHANGED <<dirs, staged, recovery, others>>

(* A mutant: what could not be restored goes too.                          *)
cleanWholeStage ==
  /\ In("remove") /\ writer.at = 0
  /\ staged' = staged \ (1..writer.items)
  /\ saved' = [i \in Item |-> NoOutput]
  /\ writer' = IF writer.retained = {}
               THEN [writer EXCEPT !.pc = "close", !.outcome = "error"]
               ELSE [writer EXCEPT !.pc = "anchor"]
  /\ Fine /\ UNCHANGED <<dest, dirs, recovery, others>>

(* Of the staging directory only what could not be restored is kept.       *)
cleanStage ==
  /\ In("remove") /\ writer.at = 0
  /\ staged' = staged \ (1..writer.items)
  /\ saved' = [i \in Item |->
       IF i \in writer.retained THEN saved[i] ELSE NoOutput]
  /\ writer' = IF writer.retained = {}
               THEN [writer EXCEPT !.pc = "close", !.outcome = "error"]
               ELSE [writer EXCEPT !.pc = "anchor"]
  /\ Fine /\ UNCHANGED <<dest, dirs, recovery, others>>

(* The recovery directory is made in the deepest directory above the       *)
(* destinations that is where it was.  Without it the stage is kept.       *)
deepestVerifiedAnchor == IF "root" \in moved THEN "above" ELSE "root"

(* A mutant: the stage is not kept.                                        *)
OpenRecoveryOnly ==
  /\ In("anchor")
  /\ \/ /\ writer' = [writer EXCEPT !.pc = "relocate", !.outcome = "recovery",
                                    !.anchor = deepestVerifiedAnchor]
        /\ Fine
     \/ /\ writer' = [writer EXCEPT !.pc = "close", !.outcome = "recovery"]
        /\ Fault
  /\ UNCHANGED <<places, others>>

OpenRecovery ==
  /\ In("anchor")
  /\ \/ /\ writer' = [writer EXCEPT !.pc = "relocate", !.outcome = "recovery",
                                    !.anchor = deepestVerifiedAnchor]
        /\ Fine
     \/ /\ writer' = [writer EXCEPT !.pc = "close", !.outcome = "recovery",
                                    !.keepStage = TRUE]
        /\ Fault
  /\ UNCHANGED <<places, others>>

(* Each goes there; its path is reported if it is seen to be there and the *)
(* directories above it are where they were.                               *)
Relocate ==
  /\ In("relocate") /\ writer.retained # {}
  /\ LET i == CHOOSE x \in writer.retained : TRUE
         next == [writer EXCEPT !.retained = @ \ {i}]
         named == [next EXCEPT !.paths = @ \cup {i}]
         unnamed == [next EXCEPT !.unnamed = @ \cup {i}]
     IN  \/ /\ recovery' = [recovery EXCEPT ![i] = saved[i]]
            /\ saved' = [saved EXCEPT ![i] = NoOutput]
            /\ \/ writer.anchor = deepestVerifiedAnchor /\ writer' = named /\ Fine
               \/ writer.anchor # deepestVerifiedAnchor /\ writer' = unnamed /\ Fine
               \/ writer' = unnamed /\ Fault
         \/ /\ Fault /\ writer' = [unnamed EXCEPT !.keepStage = TRUE]
            /\ UNCHANGED <<recovery, saved>>
  /\ UNCHANGED <<dest, dirs, staged, others>>

Relocated ==
  /\ In("relocate") /\ writer.retained = {}
  /\ writer' = [writer EXCEPT !.pc = "close"]
  /\ Fine /\ UNCHANGED <<places, others>>

(* The stage, unless it is kept, and the directories that were made go if  *)
(* nothing is in them.                                                     *)
Close ==
  /\ In("close")
  /\ LET removed == /\ ~writer.keepStage /\ staged = {}
                    /\ saved = [i \in Item |-> NoOutput]
         bare(d) == d \in writer.created /\ \A i \in Item : ParentOf(i) = d => dest[i] = NoOutput
         sub == {"sub"} \cap {d \in Dir : bare(d)}
         root == IF /\ bare("root") /\ "sub" \notin dirs \ sub
                    /\ (writer.stage => removed)
                    /\ ~(writer.anchor = "root" /\ \E i \in Item : recovery[i] # NoOutput)
                 THEN {"root"} ELSE {}
     IN  /\ writer' = [writer EXCEPT !.pc = "ended", !.stage = @ /\ ~removed]
         /\ dirs' = dirs \ ((sub \cup root) \ moved)
  /\ Fine /\ UNCHANGED <<dest, staged, saved, recovery, others>>

DieWriting ==
  /\ ~In("ended") /\ Fault
  /\ writer' = [writer EXCEPT !.pc = "ended", !.outcome = "died"]
  /\ UNCHANGED <<places, others>>
-------------------------------------------------------------------------------
(* Other programs replace, make or remove a file at a destination, and     *)
(* move a directory away, another taking its place: one that was opened,   *)
(* and after the last was, for before that it is only another directory.   *)
Interfere(i) ==
  /\ ~In("ended") /\ foreign < MaxForeign /\ foreign' = foreign + 1
  /\ ParentOf(i) \in dirs \ moved
  /\ dest' \in {[dest EXCEPT ![i] = f] : f \in {"foreign", NoOutput} \ {dest[i]}}
  /\ robbed' = robbed \cup {i}
  /\ UNCHANGED <<dirs, staged, saved, recovery, writer, moved, first, writerFaults>>

Move(d) ==
  /\ ~In("ended") /\ ~In("prepare") /\ Cardinality(moved) < MaxMoves
  /\ d \in dirs \ moved
  /\ moved' = moved \cup {d}
  /\ UNCHANGED <<places, writer, first, robbed, foreign, writerFaults>>

WriterStep ==
  \/ OpenStage \/ Prepare \/ Prepared \/ CheckDestination \/ Backup \/ Publish
  \/ verifyPublished \/ Cleanup \/ Cleaned \/ RemoveArtifact \/ RestoreBackup
  \/ cleanStage \/ OpenRecovery \/ Relocate \/ Relocated \/ Close \/ DieWriting

WriterNext ==
  WriterStep \/ (\E i \in Item : Interfere(i)) \/ (\E d \in Dir : Move(d))

WriterSpec == WriterInit /\ [][WriterNext]_writerVars
-------------------------------------------------------------------------------
(* A file that was at a destination, and that no other program took away,  *)
(* is there, in the staging directory or in the recovery directory, until  *)
(* all artifacts were seen in their places: whatever fails, and wherever   *)
(* the writer dies.                                                        *)
OriginalsSaved ==
  \A i \in Item :
    (first[i] = "original" /\ i \notin robbed /\ ~writer.verified) =>
      "original" \in {dest[i], saved[i], recovery[i]}

(* The writer publishes all or nothing: it returns paths only if every     *)
(* artifact was seen in its place, and a plain error only if, but for what *)
(* the error lists, no artifact is left at a destination.                  *)
PublishedTogether ==
  /\ writer.outcome = "ok" => writer.verified
  /\ writer.outcome = "error" =>
       \A i \in Item : /\ dest[i] = "artifact" => i \in writer.reported
                       /\ i \notin robbed => dest[i] = first[i] \/ i \in writer.reported

(* A file that is not back in its place in the end is where the returned   *)
(* error says, or the error lists the failure to move it there, and if it  *)
(* was not moved at all the stage is kept; a path the error names is true. *)
RecoveryReported ==
  (writer.pc = "ended" /\ writer.outcome # "died") =>
    \A i \in Item :
      /\ saved[i] # NoOutput => writer.outcome = "recovery" /\ writer.keepStage /\ writer.stage
      /\ recovery[i] # NoOutput => /\ writer.outcome = "recovery"
                              /\ i \in writer.paths \cup writer.unnamed
      /\ i \in writer.paths => recovery[i] # NoOutput
=============================================================================
