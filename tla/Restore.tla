------------------------------- MODULE Restore -------------------------------
(***************************************************************************)
(* Backup and restore (src/internal/backup): Create writes the lab's and a *)
(* project's files to an archive, Restore validates an archive, extracts   *)
(* it beside the destinations and puts the files in place one by one, with *)
(* a rollback.  Other programs write the same files meanwhile, any step    *)
(* may fail, and the restore may die between any two.                      *)
(***************************************************************************)
EXTENDS Integers, Sequences, FiniteSets, SequencesExt, FiniteSetsExt

CONSTANTS
  Project,      \* the names below "project/" that archives and trees have
  Above,        \* the directories each name lies in, but for the two roots
  Order,        \* all names in the order of their bytes
  Archives,     \* the archives a user may ask to restore
  Homes,        \* what may stand at the destinations at first
  HasProject,   \* whether there is a project to restore to
  Secrets,      \* the values of --include-secrets
  MaxEntries, MaxFileBytes, MaxTotalBytes,   \* Limits
  MaxEdits, MaxRewrites, RestoreFaults,      \* the bounds
  Absent

LabFiles == {"config.yaml", "ai.env", "ai.keys.json"}
Manifest == "manifest.json"
RestoreNames == LabFiles \cup Project
Directories == UNION {Above[n] : n \in RestoreNames}
NamesIn(s) == {s[i].name : i \in DOMAIN s}

(* What a sequence has at some of its positions, in its order: SelectSeq,  *)
(* in a form that can be proved about.                                     *)
Part(s, chosen) ==
  [i \in 1..Cardinality(chosen) |->
     s[CHOOSE k \in chosen : Cardinality({j \in chosen : j <= k}) = i]]

(* What a path can be: nothing, a directory, a symbolic link, or a file    *)
(* with what was there first, what the archive (or the one it was replaced *)
(* by) has, the keys of ai.env, or what another program wrote.             *)
Content == {"old", "archived", "replaced", "keys", "edited"}
Standing == Content \cup {Absent, "dir", "link"}

EntryName == RestoreNames \cup {Manifest, "../unsafe", "other"}
ArchiveEntry == [name : EntryName,
          type : {"file", "dir", "link"}, size : Nat, content : Content]
Archive == [entries : Seq(ArchiveEntry), listed : Seq(EntryName),
            version : {1, 2}, sound : BOOLEAN]

ASSUME RestoreAssumption ==
  /\ IsFiniteSet(Project) /\ Above \in [RestoreNames -> SUBSET Project]
  /\ \A n \in RestoreNames : n \notin Above[n] /\ \A d \in Above[n] : Above[d] \subseteq Above[n]
  /\ Project \cap (LabFiles \cup {Manifest, "../unsafe", "other"}) = {}
  /\ Order \in Seq(RestoreNames \cup {Manifest}) /\ \E i \in DOMAIN Order : Order[i] = Manifest
  /\ \A i, j \in DOMAIN Order : Order[i] = Order[j] => i = j
  /\ Archives \subseteq Archive /\ Homes \subseteq [RestoreNames -> Standing]
  /\ \A t \in Homes, n \in RestoreNames : t[n] # Absent => \A d \in Above[n] : t[d] # Absent
  /\ HasProject \in BOOLEAN /\ Secrets \subseteq BOOLEAN
  /\ {MaxEntries, MaxFileBytes, MaxTotalBytes} \subseteq Nat \ {0}
  /\ {MaxEdits, MaxRewrites, RestoreFaults} \subseteq Nat
  /\ Absent \notin Content \cup {"dir", "link"}

VARIABLES
  files,      \* what stands at each destination
  stage,     \* what has been extracted, in the staging directories
  aside,     \* what a restore has moved to a .camunda-lab.restore-backup file
  archive,   \* the archive file
  restore,   \* the restore: where it is and what it has done
  backup,    \* the backup, likewise
  before,    \* history: files when the restore began
  touched,   \* history: what other programs have written since
  edits, rewrites, restoreFaults

restoreVars == <<files, stage, aside, archive, restore, backup,
                 before, touched, edits, rewrites, restoreFaults>>
env == <<archive, backup, before, touched, edits, rewrites>>
-------------------------------------------------------------------------------
(* Validation.                                                             *)

Payload(a) == Part(a.entries, {i \in DOMAIN a.entries : a.entries[i].name # Manifest})
TotalBytes(a) == FoldSeq(LAMBDA e, sum : e.size + sum, 0, a.entries)

(* Where an entry goes; "nowhere" for a project's when there is no project *)
(* to restore to, which is validated all the same.                         *)
mapDestination(name) ==
  CASE name \in LabFiles -> "lab"
    [] name \in Project \ LabFiles -> IF HasProject THEN "project" ELSE "nowhere"
    [] OTHER -> "unsupported"

validateEntry(e) ==
  /\ e.name # "../unsafe"
  /\ e.type \in {"file", "dir"}
  /\ e.type = "dir" => e.size = 0
  /\ e.size <= MaxFileBytes

(* All that validateArchive asks of an archive.                            *)
validateArchive(a) ==
  /\ a.sound
  /\ Len(a.entries) <= MaxEntries
  /\ \A i \in DOMAIN a.entries : validateEntry(a.entries[i])
  /\ Cardinality(NamesIn(a.entries)) = Len(a.entries)
  /\ TotalBytes(a) <= MaxTotalBytes
  /\ \E i \in DOMAIN a.entries :
        a.entries[i].name = Manifest /\ a.entries[i].type = "file"
  /\ a.version = 1
  /\ \A i \in DOMAIN Payload(a) : mapDestination(Payload(a)[i].name) # "unsupported"
  /\ a.listed = [i \in DOMAIN Payload(a) |-> Payload(a)[i].name]

(* What the second reading compares with the first.                        *)
Shape(entries) ==
  [i \in DOMAIN entries |-> <<entries[i].name, entries[i].size,
                              entries[i].type = "dir">>]
-------------------------------------------------------------------------------
(* Destinations.                                                           *)

Exists(n) == files[n] # Absent
Depth(n) == Cardinality(Above[n])

(* The nearest directory above n that exists, or none below the root.      *)
Nearest(n) ==
  {d \in Above[n] : Exists(d) /\ \A f \in Above[n] : Exists(f) => Depth(f) <= Depth(d)}

preflightDestinations(entries) ==
  \A i \in DOMAIN entries :
    LET n == entries[i].name IN
    /\ files[n] # "link"
    /\ Exists(n) => (files[n] = "dir") = (entries[i].type = "dir")
    /\ \A d \in Nearest(n) : files[d] = "dir"

requiredDirectories(entries) ==
  LET dirs(e) == Above[e.name] \cup (IF e.type = "dir" THEN {e.name} ELSE {})
  IN  {d \in UNION {dirs(entries[i]) : i \in DOMAIN entries} : ~Exists(d)}

(* A directory with nothing in it: os.Remove takes no other.               *)
Empty(d) == \A n \in RestoreNames : d \in Above[n] => ~Exists(n) /\ aside[n] = Absent
-------------------------------------------------------------------------------
AtRest == [pc |-> "idle", force |-> FALSE, opened |-> Absent, entries |-> <<>>, plan |-> <<>>,
         todo |-> {}, made |-> <<>>, at |-> 0, had |-> {}, intact |-> TRUE,
         outcome |-> "none"]

RestoreInit ==
  /\ files \in Homes /\ before = files
  /\ stage = [n \in RestoreNames |-> Absent]
  /\ aside = [n \in RestoreNames |-> Absent]
  /\ archive \in Archives
  /\ restore = AtRest
  /\ backup = [pc |-> "idle", secrets |-> FALSE, unread |-> <<>>, got |-> {}]
  /\ touched = {} /\ edits = 0 /\ rewrites = 0 /\ restoreFaults = 0

RestoreAt(pc) == restore.pc = pc
RestoreGoes(pc) == restore' = [restore EXCEPT !.pc = pc]
EndRestore(outcome) == restore' = [restore EXCEPT !.pc = "ended", !.outcome = outcome]
RestoreFault == restoreFaults < RestoreFaults /\ restoreFaults' = restoreFaults + 1
NoFault == UNCHANGED restoreFaults
Put(f, n, c) == [f EXCEPT ![n] = c]
NoStage == [n \in RestoreNames |-> Absent]

BeginRestore(force) ==
  /\ RestoreAt("idle")
  /\ restore' = [AtRest EXCEPT !.force = force, !.pc = IF force THEN "validate" ELSE "check"]
  /\ before' = files /\ touched' = {}
  /\ NoFault
  /\ UNCHANGED <<files, stage, aside, archive, backup, edits, rewrites>>

(* Without --force: refused if a container of the lab runs or if docker    *)
(* does not say.  Nobody asks again.                                       *)
CheckLab ==
  /\ RestoreAt("check")
  /\ EndRestore("refused") \/ RestoreGoes("validate")
  /\ NoFault
  /\ UNCHANGED <<files, stage, aside, env>>

Validate ==
  /\ RestoreAt("validate")
  /\ IF validateArchive(archive)
     THEN restore' = [restore EXCEPT !.pc = "extract", !.opened = archive,
                                !.entries = Payload(archive)]
     ELSE EndRestore("refused")
  /\ NoFault
  /\ UNCHANGED <<files, stage, aside, env>>

(* The archive, which is still open, is read again: it must look as it     *)
(* did, and what has a destination is written to the staging directories.  *)
(* An error removes them.                                                  *)
Extract ==
  /\ RestoreAt("extract")
  /\ LET entries == Payload(restore.opened)
         plan == Part(entries, {i \in DOMAIN entries :
                                  mapDestination(entries[i].name) \in {"lab", "project"}})
     IN  \/ /\ restore.opened.sound /\ Shape(entries) = Shape(restore.entries)
            /\ restore' = [restore EXCEPT !.pc = "preflight", !.plan = plan,
                                    !.opened = Absent]
            /\ stage' = [n \in RestoreNames |->
                 IF n \in NamesIn(plan)
                 THEN LET e == CHOOSE x \in Range(plan) : x.name = n
                      IN  IF e.type = "dir" THEN "dir" ELSE e.content
                 ELSE Absent]
            /\ NoFault
         \/ /\ ~(restore.opened.sound /\ Shape(entries) = Shape(restore.entries))
            /\ EndRestore("refused") /\ NoFault /\ UNCHANGED stage
         \/ EndRestore("refused") /\ RestoreFault /\ UNCHANGED stage
  /\ UNCHANGED <<files, aside, env>>

PlannedFiles == Part(restore.plan, {i \in DOMAIN restore.plan : restore.plan[i].type = "file"})
Current == PlannedFiles[restore.at].name

Preflight ==
  /\ RestoreAt("preflight")
  /\ IF preflightDestinations(restore.plan)
     THEN /\ restore' = [restore EXCEPT !.pc = "mkdir",
                           !.todo = requiredDirectories(restore.plan)]
          /\ UNCHANGED stage
     ELSE EndRestore("refused") /\ stage' = NoStage
  /\ NoFault
  /\ UNCHANGED <<files, aside, env>>

(* The directories that are missing, those nearer to the root first.       *)
MakeDirectory ==
  /\ RestoreAt("mkdir")
  /\ \E d \in restore.todo :
       /\ \A f \in restore.todo : Depth(d) <= Depth(f)
       /\ \/ /\ Exists(d)
             /\ restore' = [restore EXCEPT !.todo = @ \ {d}]
             /\ NoFault /\ UNCHANGED files
          \/ /\ ~Exists(d)
             /\ restore' = [restore EXCEPT !.todo = @ \ {d}, !.made = Append(@, d)]
             /\ files' = Put(files, d, "dir")
             /\ NoFault
          \/ /\ ~Exists(d) /\ RestoreFault
             /\ RestoreGoes("unmake") /\ UNCHANGED files
  /\ UNCHANGED <<stage, aside, env>>

(* After the directories and after each file comes the next file, or, when *)
(* all are in place, the removal of what was moved aside.                  *)
NextFile(at) ==
  IF at < Len(PlannedFiles) THEN [restore EXCEPT !.pc = "look", !.at = at + 1]
                     ELSE [restore EXCEPT !.pc = "forget"]

DirectoriesMade ==
  /\ RestoreAt("mkdir") /\ restore.todo = {}
  /\ restore' = NextFile(0)
  /\ NoFault
  /\ UNCHANGED <<files, stage, aside, env>>

Look ==
  /\ RestoreAt("look")
  /\ \/ Exists(Current) /\ RestoreGoes("aside") /\ NoFault
     \/ ~Exists(Current) /\ RestoreGoes("place") /\ NoFault
     \/ RestoreFault /\ restore' = [restore EXCEPT !.pc = "undo", !.at = @ - 1]
  /\ UNCHANGED <<files, stage, aside, env>>

(* What stands at the destination, whatever it is by now, is renamed.      *)
MoveAside ==
  /\ RestoreAt("aside")
  /\ \/ /\ Exists(Current)
        /\ aside' = Put(aside, Current, files[Current])
        /\ files' = Put(files, Current, Absent)
        /\ restore' = [restore EXCEPT !.pc = "place", !.had = @ \cup {Current}]
        /\ NoFault
     \/ /\ RestoreFault
        /\ restore' = [restore EXCEPT !.pc = "undo", !.at = @ - 1]
        /\ UNCHANGED <<files, aside>>
  /\ UNCHANGED <<stage, env>>

(* A mutant: what was moved aside goes as soon as its file is in place.    *)
PlaceAndForget ==
  /\ RestoreAt("place")
  /\ \/ /\ files' = Put(files, Current, stage[Current])
        /\ stage' = Put(stage, Current, Absent)
        /\ aside' = Put(aside, Current, Absent)
        /\ restore' = NextFile(restore.at)
        /\ NoFault
     \/ /\ RestoreFault /\ RestoreGoes("undo") /\ UNCHANGED <<files, stage, aside>>
  /\ UNCHANGED env

Place ==
  /\ RestoreAt("place")
  /\ \/ /\ files' = Put(files, Current, stage[Current])
        /\ stage' = Put(stage, Current, Absent)
        /\ restore' = NextFile(restore.at)
        /\ NoFault
     \/ /\ RestoreFault /\ RestoreGoes("undo") /\ UNCHANGED <<files, stage>>
  /\ UNCHANGED <<aside, env>>

(* Rollback, the last file first: what is there is removed, and what was   *)
(* moved aside is renamed back, whether or not the removal worked.         *)
UndoRemove ==
  /\ RestoreAt("undo") /\ restore.at > 0
  /\ \/ files' = Put(files, Current, Absent) /\ RestoreGoes("return") /\ NoFault
     \/ /\ RestoreFault /\ UNCHANGED files
        /\ restore' = [restore EXCEPT !.pc = "return", !.intact = FALSE]
  /\ UNCHANGED <<stage, aside, env>>

(* A mutant: the rollback does not notice that a rename fails.             *)
UndoReturnUnnoticed ==
  /\ RestoreAt("return")
  /\ LET next == [restore EXCEPT !.pc = "undo", !.at = @ - 1] IN
     \/ /\ Current \in restore.had
        /\ files' = Put(files, Current, aside[Current])
        /\ aside' = Put(aside, Current, Absent)
        /\ restore' = next /\ NoFault
     \/ /\ restore' = next /\ UNCHANGED <<files, aside>>
        /\ IF Current \in restore.had THEN RestoreFault ELSE NoFault
  /\ UNCHANGED <<stage, env>>

UndoReturn ==
  /\ RestoreAt("return")
  /\ LET next == [restore EXCEPT !.pc = "undo", !.at = @ - 1] IN
     \/ /\ Current \notin restore.had
        /\ restore' = next /\ NoFault /\ UNCHANGED <<files, aside>>
     \/ /\ Current \in restore.had
        /\ files' = Put(files, Current, aside[Current])
        /\ aside' = Put(aside, Current, Absent)
        /\ restore' = next /\ NoFault
     \/ /\ Current \in restore.had /\ RestoreFault
        /\ restore' = [next EXCEPT !.intact = FALSE]
        /\ UNCHANGED <<files, aside>>
  /\ UNCHANGED <<stage, env>>

Undone ==
  /\ RestoreAt("undo") /\ restore.at = 0
  /\ RestoreGoes("unmake") /\ NoFault
  /\ UNCHANGED <<files, stage, aside, env>>

(* The directories that were made are removed if nothing is in them.       *)
RemoveDirectory ==
  /\ RestoreAt("unmake") /\ restore.made # <<>>
  /\ restore' = [restore EXCEPT !.made = Front(@)]
  /\ files' = IF Empty(Last(restore.made)) THEN Put(files, Last(restore.made), Absent)
             ELSE files
  /\ NoFault
  /\ UNCHANGED <<stage, aside, env>>

RolledBack ==
  /\ RestoreAt("unmake") /\ restore.made = <<>>
  /\ EndRestore(IF restore.intact THEN "failed" ELSE "incomplete")
  /\ stage' = NoStage
  /\ NoFault
  /\ UNCHANGED <<files, aside, env>>

(* All is in place: what was moved aside goes, and an error is ignored.    *)
Forget ==
  /\ RestoreAt("forget") /\ restore.had # {}
  /\ LET n == CHOOSE x \in restore.had : TRUE IN
     /\ restore' = [restore EXCEPT !.had = @ \ {n}]
     /\ \/ aside' = Put(aside, n, Absent) /\ NoFault
        \/ RestoreFault /\ UNCHANGED aside
  /\ UNCHANGED <<files, stage, env>>

Restored ==
  /\ RestoreAt("forget") /\ restore.had = {}
  /\ EndRestore("restored") /\ stage' = NoStage
  /\ NoFault
  /\ UNCHANGED <<files, aside, env>>

DieRestoring ==
  /\ ~RestoreAt("idle") /\ ~RestoreAt("ended")
  /\ EndRestore("died") /\ RestoreFault
  /\ UNCHANGED <<files, stage, aside, env>>
-------------------------------------------------------------------------------
(* Create reads one file after the other, and writes the archive to a      *)
(* temporary file that it renames.                                         *)

backupVars == <<files, stage, aside, restore, before, touched, edits>>

BeginBackup(secrets) ==
  /\ backup.pc = "idle"
  /\ backup' = [pc |-> "read", secrets |-> secrets, got |-> {},
                unread |-> <<"config.yaml", "ai.env">> \o
                  (IF HasProject THEN Part(Order, {i \in DOMAIN Order : Order[i] \in Project})
                   ELSE <<>>)]
  /\ UNCHANGED <<backupVars, archive, rewrites, restoreFaults>>

(* Of ai.env the names of its keys only, unless secrets are included.  A   *)
(* file that cannot be read ends the backup, and in the project a link or  *)
(* a file where a directory should be.                                     *)
ReadFile ==
  /\ backup.pc = "read" /\ backup.unread # <<>>
  /\ LET n == Head(backup.unread)
         next == [backup EXCEPT !.unread = Tail(@)]
         data == IF files[n] = "link" THEN "old" ELSE files[n]
         kept == IF n = "ai.env" /\ ~backup.secrets
                 THEN <<"ai.keys.json", "keys">> ELSE <<n, data>>
         readable == \/ files[n] \in Content /\ n \notin Directories
                     \/ files[n] = "link" /\ n \notin Project
     IN  \/ files[n] \in {Absent, "dir"} /\ backup' = next
         \/ readable /\ backup' = [next EXCEPT !.got = @ \cup {kept}]
         \/ backup' = [next EXCEPT !.pc = "ended", !.got = {}]
  /\ UNCHANGED <<backupVars, archive, rewrites, restoreFaults>>

(* A mutant: the manifest lists itself.                                    *)
NewArchiveOfAll(got) ==
  LET named(n) == {f \in got : f[1] = n}
      held == Part(Order, {i \in DOMAIN Order : Order[i] = Manifest \/ named(Order[i]) # {}})
  IN  [entries |-> [i \in DOMAIN held |->
         [name |-> held[i], type |-> "file", size |-> 1, content |-> "keys"]],
       listed |-> held, version |-> 1, sound |-> TRUE]

(* The files by name, and the manifest among them; it lists the others.    *)
NewArchive(got) ==
  LET named(n) == {f \in got : f[1] = n}
      held == Part(Order, {i \in DOMAIN Order : Order[i] = Manifest \/ named(Order[i]) # {}})
  IN  [entries |-> [i \in DOMAIN held |->
         [name |-> held[i], type |-> "file", size |-> 1,
          content |-> IF held[i] = Manifest THEN "keys"
                      ELSE (CHOOSE f \in named(held[i]) : TRUE)[2]]],
       listed |-> Part(held, {i \in DOMAIN held : held[i] # Manifest}),
       version |-> 1, sound |-> TRUE]

writeBackupArchive ==
  /\ backup.pc = "read" /\ backup.unread = <<>>
  /\ \/ archive' = NewArchive(backup.got) /\ backup' = [backup EXCEPT !.pc = "written", !.got = {}]
     \/ backup' = [backup EXCEPT !.pc = "ended", !.got = {}] /\ UNCHANGED archive
  /\ UNCHANGED <<backupVars, rewrites, restoreFaults>>
-------------------------------------------------------------------------------
(* Other programs edit and make files, and write over the archive that is  *)
(* being read (before that it is one of Archives, after that nobody looks).*)

Edit(n) ==
  /\ edits < MaxEdits /\ edits' = edits + 1
  /\ files[n] \in Content \cup {Absent}
  /\ \A d \in Above[n] : files[d] = "dir"
  /\ files' = Put(files, n, "edited")
  /\ touched' = touched \cup {n}
  /\ UNCHANGED <<stage, aside, archive, restore, backup, before,
                 rewrites, restoreFaults>>

Rewrite ==
  /\ rewrites < MaxRewrites /\ rewrites' = rewrites + 1
  /\ RestoreAt("extract") /\ backup.pc # "written"
  /\ archive' \in Archives
  /\ restore' = [restore EXCEPT !.opened = archive']
  /\ UNCHANGED <<files, stage, aside, backup, before, touched, edits,
                 restoreFaults>>

RestoreStep ==
  \/ \E force \in BOOLEAN : BeginRestore(force)
  \/ CheckLab \/ Validate \/ Extract \/ Preflight \/ MakeDirectory
  \/ DirectoriesMade \/ Look \/ MoveAside \/ Place
  \/ UndoRemove \/ UndoReturn \/ Undone \/ RemoveDirectory \/ RolledBack
  \/ Forget \/ Restored \/ DieRestoring

BackupStep ==
  \/ \E secrets \in Secrets : BeginBackup(secrets)
  \/ ReadFile
  \/ writeBackupArchive

OthersStep == (\E n \in Project \cup LabFiles : Edit(n)) \/ Rewrite

RestoreNext == RestoreStep \/ BackupStep \/ OthersStep
RestoreSpec == RestoreInit /\ [][RestoreNext]_restoreVars
-------------------------------------------------------------------------------
(* Every file of the archive that no other program has written is what the *)
(* archive has.                                                            *)
AllPlaced ==
  \A i \in DOMAIN PlannedFiles : \/ PlannedFiles[i].name \in touched
                          \/ files[PlannedFiles[i].name] = PlannedFiles[i].content

(* What the lab or the project had is at its place or in the backup file   *)
(* beside it until every file of the archive is in place: a restore that   *)
(* fails, at any step and in its rollback too, or dies, loses no file.     *)
OriginalsKept ==
  \A n \in RestoreNames :
    (before[n] \in Content /\ n \notin touched) =>
      files[n] = before[n] \/ aside[n] = before[n] \/ AllPlaced

(* What a restore reports is so: all files are restored, or none is and    *)
(* nothing has been added; only an incomplete rollback is between the two. *)
AllOrNothing ==
  /\ restore.outcome = "restored" => AllPlaced
  /\ restore.outcome \in {"refused", "failed"} =>
       \A n \in RestoreNames : \/ n \in touched
                        \/ files[n] = before[n]
                        \/ \E f \in touched : n \in Above[f]

(* A backup that was written can be restored.                              *)
BackupRestorable == backup.pc = "written" => validateArchive(archive)
=============================================================================
