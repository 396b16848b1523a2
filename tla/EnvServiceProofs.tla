--------------------------- MODULE EnvServiceProofs ---------------------------
(***************************************************************************)
(* Theorems about EnvService for any number of processes, profiles and     *)
(* projects, with crashes and failed writes at any step: the types, that   *)
(* every tombstone is named by the journal, and that the service           *)
(* implements EnvRegistry.                                                 *)
(*                                                                         *)
(* The argument: the lock of config.yaml makes the process at a point of a *)
(* transaction the only one there, so what holds at that point             *)
(* (LockInvariant, StepInvariant) is disturbed by its own steps alone.     *)
(* RemovalInvariant says, point by point, which files the removal or the   *)
(* recovery that got there has changed.                                    *)
(*                                                                         *)
(* Two theorems need a restricted use of the service.  For the journals    *)
(* that can be recovered from (Coping), RecoveryInvariant says at which    *)
(* points the files are as the journal says.  For the selections           *)
(* (Faithful), SelectionInvariant says that a selection is of the          *)
(* project's own profile or of one that its reference protects, in what a  *)
(* later transaction will see, and what a removal has made of it so far.   *)
(***************************************************************************)
EXTENDS EnvService, TLAPS

(* The holder of the lock is the one process inside a transaction.         *)
LockInvariant ==
  \A p \in Proc : pc[p] \in Held <=> lock = p

(* What a process has set up before it gets to a point.                    *)
StepInvariant ==
  \A p \in Proc :
    /\ pc[p] # "idle" => req[p] \in Requests
    /\ src[p] = "project" => req[p] \in Requests /\ req[p].root \in Project
    /\ pc[p] = "register" =>
         /\ found[p] \in Resolution /\ req[p].root \in Project
         /\ req[p].op = "remove" => found[p].source # "implicit"
    /\ pc[p] = "xRegister" => found[p] \in Resolution
    /\ pc[p] \in {"xProject", "xResolve", "xRegister"} => req[p].root \in Project
    /\ pc[p] \in RemovalPoints =>
         /\ req[p].op = "remove" /\ src[p] \in {"project", "global"}
         /\ dirLock[RemovalDir(p)] = p

(* Whether there is a journal, and whose.                                  *)
JournalInvariant ==
  /\ journal \in Journal => (journal.source = "project" => journal.root \in Project)
  /\ \A p \in Proc :
       /\ pc[p] \in {"migrate", "mDelete", "body", "register", "xIntent"} => journal = None
       /\ pc[p] \in RecoveryPoints \cup {"recover"} => journal \in Journal
       /\ pc[p] = "rProject" => journal.root \in Project
       /\ pc[p] \in RemovalPoints \ {"xIntent"} =>
            /\ journal \in Journal
            /\ journal.name = req[p].name
            /\ journal.source = src[p]
            /\ journal.root = req[p].root

(* Once a process is about to forget the journal, its tombstone is gone.   *)
TombInvariant ==
  /\ TombstonesJournaled
  /\ \A p \in Proc : pc[p] \in {"rForget", "xForget"} =>
       journal.name \notin tombs[JournalDir(journal)]

Safe == TypeOK /\ LockInvariant /\ StepInvariant /\ JournalInvariant /\ TombInvariant

-----------------------------------------------------------------------------
(* What the removal has changed so far.                                    *)

ActiveAfter(j) ==
  IF j.source = "global" /\ j.globalPrior.active = j.name THEN Lab
  ELSE j.globalPrior.active

SelectionAfter(j) ==
  IF j.source = "project" /\ j.projectPrior = j.name /\ j.name \notin profiles[Global]
  THEN None ELSE j.projectPrior

Early == {"xRename", "xTombstoned"}
Late == {"xActive", "xProject", "xResolve", "xRegister", "xConfigs"}

RemovalInvariant ==
  \A p \in Proc :
    /\ pc[p] \in Early => journal.phase = "intent"
    /\ pc[p] \in Late => journal.phase = "tombstoned"
    /\ pc[p] = "xCommit" => journal.phase = "configs"
    /\ pc[p] \in {"xUnlink", "xForget", "rUnlink"} => journal.phase = "commit"
    /\ pc[p] \in {"rGlobal", "rProject", "rTomb"} => journal.phase # "commit"
    /\ pc[p] = "xIntent" => req[p].name \in profiles[RemovalDir(p)]
    /\ pc[p] = "xRename" => journal.name \in profiles[JournalDir(journal)]
    /\ pc[p] \in {"xTombstoned", "xCommit"} \cup Late =>
         /\ journal.name \notin profiles[JournalDir(journal)]
         /\ journal.name \in tombs[JournalDir(journal)]
    /\ pc[p] \in Early \cup {"xActive"} => config.active = journal.globalPrior.active
    /\ pc[p] \in (Late \ {"xActive"}) \cup {"xCommit"} =>
         config.active = ActiveAfter(journal)
    /\ pc[p] \in Early \cup {"xActive", "xProject"} /\ journal.root \in Project =>
         selected[journal.root] = journal.projectPrior
    /\ pc[p] \in {"xResolve", "xRegister", "xConfigs", "xCommit"}
         /\ journal.root \in Project => selected[journal.root] = SelectionAfter(journal)
    /\ pc[p] \in {"rProject", "rTomb", "rForget"} /\ journal.phase # "commit" =>
         config.active = journal.globalPrior.active
    /\ pc[p] \in {"rTomb", "rForget"} /\ journal.phase # "commit"
         /\ journal.root \in Project => selected[journal.root] = journal.projectPrior

Inv == Safe /\ RemovalInvariant
-----------------------------------------------------------------------------
USE ConstantsAssumption

(* Every point of a transaction but "lock" is one at which the lock is held. *)
LEMMA PointTypes ==
  /\ Held \subseteq Points /\ "lock" \in Points
  /\ "lock" \notin Held /\ "idle" \notin Points
BY DEF Held, Points, RecoveryPoints, RemovalPoints

(* Selecting or registering in a well-formed config leaves one.            *)
LEMMA ConfigSteps ==
  ASSUME NEW c \in Config
  PROVE  /\ \A n \in Name \cup {Lab, None} :
              SetActive(c, n) \in Config /\ SetActive(c, n).active = n
         /\ \A root \in Project, r \in Resolution :
              Register(c, root, r) \in Config /\ Register(c, root, r).active = c.active
<1>1. ASSUME NEW n \in Name \cup {Lab, None}
      PROVE  SetActive(c, n) \in Config /\ SetActive(c, n).active = n
  BY DEF SetActive, Config
<1>2. ASSUME NEW root \in Project, NEW r \in Resolution
      PROVE  Register(c, root, r) \in Config /\ Register(c, root, r).active = c.active
  <2> DEFINE refs == [c.refs EXCEPT ![root] = r]
             complete == IF c.complete = "absent" THEN "false" ELSE c.complete
  <2>1. refs \in [Project -> Resolution \cup {None}]
    BY DEF Config
  <2>2. complete \in {"absent", "false", "true"}
    BY DEF Config
  <2>3. Register(c, root, r) = [c EXCEPT !.exists = TRUE, !.complete = complete, !.refs = refs]
    BY DEF Register, Config
  <2> HIDE DEF refs, complete
  <2> QED  BY <2>1, <2>2, <2>3 DEF Config
<1> QED  BY <1>1, <1>2

SameRemoval(j, k) ==
  /\ k.name = j.name /\ k.source = j.source /\ k.root = j.root
  /\ k.globalPrior = j.globalPrior /\ k.projectPrior = j.projectPrior

(* Moving a journal to another phase.                                      *)
LEMMA PhaseStep ==
  ASSUME NEW j \in Journal, NEW phase \in Phases, NEW k, k = [j EXCEPT !.phase = phase]
  PROVE  k \in Journal /\ SameRemoval(j, k) /\ k.phase = phase
BY DEF Journal, SameRemoval

(* A process that leaves, with the files as they are, keeps everything.    *)
LEMMA RefuseSafe ==
  ASSUME Safe, NEW p \in Proc, Refuse(p)
  PROVE  Safe'
<1> USE DEF Safe, Refuse, Leave, Goto, DropDirLocks, files
<1>1. TypeOK'
  BY DEF TypeOK
<1>2. LockInvariant'
  BY PointTypes DEF LockInvariant, TypeOK
<1>3. StepInvariant'
  BY DEF StepInvariant, TypeOK, RemovalDir, RemovalPoints, Dir
<1>4. JournalInvariant'
  BY DEF JournalInvariant, TypeOK, RemovalPoints, RecoveryPoints
<1>5. TombInvariant'
  BY DEF TombInvariant, TombstonesJournaled, TypeOK, JournalDir
<1> QED  BY <1>1, <1>2, <1>3, <1>4, <1>5

(* Recovery keeps the types and the journal of every tombstone.            *)
LEMMA RecoverSafe ==
  ASSUME Safe, NEW p \in Proc, Recover(p)
  PROVE  Safe'
<1> USE DEF Safe, TypeOK, LockInvariant, StepInvariant, JournalInvariant,
                TombInvariant, TombstonesJournaled, JournalDir, RemovalDir,
                Leave, Goto, DropDirLocks, Advance, files, Held, RecoveryPoints, RemovalPoints
<1>1. CASE RecoveryRefused(p)
  BY <1>1, RefuseSafe DEF RecoveryRefused
<1>2. CASE RecoverBegin(p)
  BY <1>2, PointTypes DEF RecoverBegin
<1>3. CASE RecoverUnlink(p)
  BY <1>3, PointTypes DEF RecoverUnlink, Journal, Dir
<1>4. CASE RestoreGlobal(p)
  BY <1>4, PointTypes DEF RestoreGlobal, Journal
<1>5. CASE RestoreProject(p)
  BY <1>5, PointTypes DEF RestoreProject, Journal
<1>6. CASE RestoreProfile(p)
  BY <1>6, PointTypes DEF RestoreProfile, Journal, Dir
<1>7. CASE RecoverForget(p)
  <2>1. \A d \in Dir : tombs[d] = {}
    BY <1>7 DEF RecoverForget, Dir
  <2>2. CASE rollback[p]
    <3>1. Leave(p) /\ journal' = None /\ tombs' = tombs
      BY <1>7, <2>2 DEF RecoverForget, Recovered
    <3>2. TypeOK'
      BY <1>7, <3>1 DEF RecoverForget
    <3>3. LockInvariant'
      BY <3>1, PointTypes
    <3>4. StepInvariant'
      BY <3>1 DEF Dir
    <3>5. JournalInvariant' /\ TombInvariant'
      BY <1>7, <2>1, <3>1 DEF RecoverForget
    <3> QED  BY <3>2, <3>3, <3>4, <3>5
  <2>3. CASE ~rollback[p]
    BY <1>7, <2>1, <2>3, PointTypes DEF RecoverForget, Recovered, AfterRecovery, Dir
  <2> QED  BY <2>2, <2>3
<1> QED  BY <1>1, <1>2, <1>3, <1>4, <1>5, <1>6, <1>7 DEF Recover

(* So does the migration of active-env.                                    *)
LEMMA MigrateSafe ==
  ASSUME Safe, NEW p \in Proc, Migrate(p)
  PROVE  Safe'
<1> USE DEF Safe, TypeOK, LockInvariant, StepInvariant, JournalInvariant,
                TombInvariant, TombstonesJournaled, JournalDir, RemovalDir,
                Leave, Goto, DropDirLocks, Advance, files, Held, RecoveryPoints, RemovalPoints
<1>1. CASE MigrateActive(p)
  <2>1. legacy \in Name \cup {Lab}
    BY <1>1 DEF MigrateActive, Dir
  <2>2. config' \in Config
    BY <1>1, <2>1, ConfigSteps DEF MigrateActive
  <2> QED  BY <1>1, <2>2, PointTypes DEF MigrateActive
<1>2. CASE AlreadyMigrated(p)
  BY <1>2, PointTypes DEF AlreadyMigrated
<1>3. CASE MigrationRefused(p)
  BY <1>3, RefuseSafe DEF MigrationRefused
<1>4. CASE DeleteLegacy(p)
  BY <1>4, PointTypes DEF DeleteLegacy, Selection
<1> QED  BY <1>1, <1>2, <1>3, <1>4 DEF Migrate

(* So do the operations that are not removals.                             *)
LEMMA OperateSafe ==
  ASSUME Safe, NEW p \in Proc, Operate(p)
  PROVE  Safe'
<1> USE DEF Safe, TypeOK, LockInvariant, StepInvariant, JournalInvariant,
                TombInvariant, TombstonesJournaled, JournalDir, RemovalDir,
                Leave, Goto, DropDirLocks, Advance, files, Held, RecoveryPoints, RemovalPoints
<1>1. CASE ResolveProfile(p)
  <2> DEFINE n == Wanted(req[p])
  <2>1. /\ req[p] \in Request /\ req[p].root \in Project
        /\ n \in Name \cup {Lab, None} /\ (req[p].op = "remove" => n \in Name)
    BY <1>1, PointTypes DEF ResolveProfile, Resolving, Wanted, ActiveName, Request,
       Config, Selection
  <2>2. /\ Resolved(n, req[p].root) \in Resolution
        /\ req[p].op = "remove" => Resolved(n, req[p].root).source # "implicit"
    BY <1>1, <2>1 DEF ResolveProfile, Resolves, Resolved, SourceOf, Implicit, Resolution
  <2> HIDE DEF n
  <2> QED  BY <1>1, <2>1, <2>2, PointTypes DEF ResolveProfile, Resolving, n
<1>2. CASE ResolveOnly(p)
  BY <1>2, RefuseSafe DEF ResolveOnly
<1>3. CASE RegisterProject(p)
  <2>1. found[p] \in Resolution /\ req[p].root \in Project
    BY <1>3 DEF RegisterProject
  <2>2. config' \in Config
    BY <1>3, <2>1, ConfigSteps DEF RegisterProject
  <2>3. req[p].op = "remove" => found[p].source \in {"project", "global"}
    BY <1>3, <2>1 DEF RegisterProject, Resolution
  <2>4. CASE req[p].op = "remove"
    BY <1>3, <2>1, <2>2, <2>3, <2>4, PointTypes DEF RegisterProject
  <2>5. CASE req[p].op # "remove"
    <3>1. Leave(p) /\ config' \in Config
          /\ UNCHANGED <<selected, profiles, tombs, journal, legacy>>
      BY <1>3, <2>2, <2>5 DEF RegisterProject
    <3> QED  BY <1>3, <3>1, PointTypes DEF Dir
  <2> QED  BY <2>4, <2>5
<1>4. CASE UseInProject(p)
  BY <1>4, PointTypes DEF UseInProject, Using, Resolves, Resolved, SourceOf, Implicit,
     Request, Resolution, Selection
<1>5. CASE UseGlobally(p)
  <2>1. req[p].name \in Name \cup {Lab}
    BY <1>5 DEF UseGlobally, Using, Request
  <2>2. config' \in Config
    BY <1>5, <2>1, ConfigSteps DEF UseGlobally
  <2> QED  BY <1>5, <2>2, PointTypes DEF UseGlobally, Using
<1>6. CASE UseRefused(p)
  BY <1>6, RefuseSafe DEF UseRefused
<1>7. CASE SaveProfile(p)
  BY <1>7, PointTypes DEF SaveProfile, Target, Request, Dir
<1>8. CASE SaveRefused(p)
  BY <1>8, RefuseSafe DEF SaveRefused
<1> QED  BY <1>1, <1>2, <1>3, <1>4, <1>5, <1>6, <1>7, <1>8 DEF Operate

(* So do the steps of a removal.                                           *)
LEMMA RemoveSafe ==
  ASSUME Safe, NEW p \in Proc, Remove(p)
  PROVE  Safe'
<1> USE DEF Safe, TypeOK, LockInvariant, StepInvariant, JournalInvariant,
                TombInvariant, TombstonesJournaled, JournalDir, RemovalDir,
                Leave, Goto, DropDirLocks, Advance, files, Held, RecoveryPoints, RemovalPoints
<1>1. CASE RemoveBegin(p)
  BY <1>1, PointTypes DEF RemoveBegin, Removing, Removable, Dir, Request
<1>2. CASE RemoveRefused(p)
  BY <1>2, RefuseSafe DEF RemoveRefused
<1>3. CASE JournalIntent(p)
  BY <1>3, PointTypes, SMTT(30) DEF JournalIntent, Journal, Request, Phases, Selection, Config
<1>4. CASE RenameToTombstone(p)
  BY <1>4, PointTypes DEF RenameToTombstone, Journal, Dir, Request
<1>5. CASE JournalTombstoned(p)
  BY <1>5, PointTypes DEF JournalTombstoned, Journal, Phases
<1>6. CASE ResetActive(p)
  <2>1. config' \in Config
    BY <1>6, ConfigSteps DEF ResetActive
  <2>2. req[p].root # None => req[p].root \in Project
    BY <1>6 DEF ResetActive, Request
  <2> QED  BY <1>6, <2>1, <2>2, PointTypes DEF ResetActive
<1>7. CASE FallBackToGlobal(p)
  BY <1>7, PointTypes DEF FallBackToGlobal, SelectionRemoved, Resolution, Request
<1>8. CASE ClearSelection(p)
  BY <1>8, PointTypes DEF ClearSelection, SelectionRemoved, Selection
<1>9. CASE KeepSelection(p)
  BY <1>9, PointTypes DEF KeepSelection, SelectionRemoved
<1>10. CASE ResolveRest(p)
  BY <1>10, PointTypes, SMTT(30) DEF ResolveRest, Resolved, CanOpen, DirsOpened, SourceOf,
     ActiveName, Implicit, Resolution, Dir, Selection, Config
<1>11. CASE RegisterRest(p)
  <2>1. config' \in Config
    BY <1>11, ConfigSteps DEF RegisterRest
  <2> QED  BY <1>11, <2>1, PointTypes DEF RegisterRest
<1>12. CASE JournalConfigs(p)
  <2> DEFINE after == IF req[p].root = None THEN None ELSE selected[req[p].root]
  <2>1. after \in Selection
    BY <1>12 DEF JournalConfigs, Request, Selection
  <2>2. "configs" \in Phases /\ journal \in Journal
    BY <1>12 DEF JournalConfigs, Phases
  <2>3. journal' = [journal EXCEPT !.phase = "configs", !.globalAfter = config,
                                   !.projectAfter = after]
    BY <1>12 DEF JournalConfigs
  <2> HIDE DEF after
  <2>4. journal' \in Journal /\ SameRemoval(journal, journal')
    BY <2>1, <2>2, <2>3 DEF Journal, SameRemoval
  <2> QED  BY <1>12, <2>4, PointTypes DEF JournalConfigs, SameRemoval
<1>13. CASE JournalCommit(p)
  BY <1>13, PointTypes DEF JournalCommit, Journal, Phases
<1>14. CASE UnlinkTombstone(p)
  BY <1>14, PointTypes DEF UnlinkTombstone, Dir
<1>15. CASE ForgetJournal(p)
  BY <1>15, PointTypes DEF ForgetJournal
<1> QED  BY <1>1, <1>2, <1>3, <1>4, <1>5, <1>6, <1>7, <1>8, <1>9, <1>10, <1>11, <1>12,
            <1>13, <1>14, <1>15 DEF Remove

(* So does every step.                                                     *)
LEMMA StepSafe ==
  ASSUME Safe, [Next]_vars
  PROVE  Safe'
<1> USE DEF Safe, TypeOK, LockInvariant, StepInvariant, JournalInvariant,
            TombInvariant, TombstonesJournaled, JournalDir, RemovalDir,
            Leave, Goto, DropDirLocks, files, Held, RecoveryPoints, RemovalPoints
<1>1. ASSUME NEW p \in Proc, NEW r \in Requests, Start(p, r)
      PROVE  Safe'
  <2>1. r \in Request
    OBVIOUS
  <2> QED  BY <1>1, <2>1, PointTypes DEF Start
<1>2. ASSUME NEW p \in Proc, Lock(p)
      PROVE  Safe'
  <2>1. CASE journal = None
    BY <1>2, <2>1, PointTypes DEF Lock, AfterRecovery
  <2>2. CASE journal \in Journal
    <3>1. JournalDir(journal) \in Dir
      BY <2>2 DEF Dir
    <3> QED  BY <1>2, <2>2, <3>1, PointTypes DEF Lock
  <2> QED  BY <2>1, <2>2
<1>3. ASSUME NEW p \in Proc, LockRefused(p)
      PROVE  Safe'
  BY <1>3, RefuseSafe DEF LockRefused
<1>4. ASSUME NEW p \in Proc, Work(p)
      PROVE  Safe'
  BY <1>2, <1>3, <1>4, RecoverSafe, MigrateSafe, OperateSafe, RemoveSafe DEF Work
<1>5. ASSUME NEW p \in Proc, Crash(p)
      PROVE  Safe'
  BY <1>5, RefuseSafe DEF Crash
<1>6. ASSUME NEW p \in Proc, WriteFails(p)
      PROVE  Safe'
  <2>1. CASE pc[p] \in RollsBack
    <3>1. /\ pc' = [pc EXCEPT ![p] = "recover"] /\ pc[p] \in RemovalPoints \ {"xIntent"}
          /\ rollback' = [rollback EXCEPT ![p] = TRUE]
          /\ UNCHANGED <<files, lock, dirLock, req, src, found>>
      BY <1>6, <2>1 DEF WriteFails, RollBack, RollsBack
    <3>2. TypeOK' /\ LockInvariant'
      BY <3>1, PointTypes
    <3>3. StepInvariant'
      BY <3>1
    <3>4. JournalInvariant' /\ TombInvariant'
      BY <3>1
    <3> QED  BY <3>2, <3>3, <3>4
  <2>2. CASE pc[p] \notin RollsBack
    BY <1>6, <2>2, RefuseSafe DEF WriteFails
  <2> QED  BY <2>1, <2>2
<1>7. CASE UpdateSettings
  <2>1. config' \in Config
    BY <1>7 DEF UpdateSettings, Config
  <2> QED  BY <1>7, <2>1 DEF UpdateSettings
<1>8. CASE UNCHANGED vars
  BY <1>8 DEF vars
<1> QED  BY <1>1, <1>4, <1>5, <1>6, <1>7, <1>8 DEF Next

LEMMA InitSafe == Init => Safe
<1> SUFFICES ASSUME Init PROVE Safe
  OBVIOUS
<1>1. NoConfig \in Config /\ [NoConfig EXCEPT !.exists = TRUE, !.complete = "true"] \in Config
  BY DEF NoConfig, Config
<1>2. TypeOK
  BY <1>1, PointTypes DEF Init, TypeOK, Selection
<1> QED
  BY <1>2 DEF Init, Safe, LockInvariant, StepInvariant, JournalInvariant, TombInvariant,
              TombstonesJournaled, Held, RecoveryPoints, RemovalPoints

(* Every reachable state is well typed, and the bookkeeping of the lock,   *)
(* of the processes and of the journal holds in it.                        *)
LEMMA AlwaysSafe == Spec => []Safe
<1>1. Init => Safe
  BY InitSafe
<1>2. Safe /\ [Next]_vars => Safe'
  BY StepSafe
<1> QED  BY <1>1, <1>2, PTL DEF Spec

(* Every reachable state is well typed.                                    *)
THEOREM TypeCorrect == Spec => []TypeOK
<1>1. Safe => TypeOK
  BY DEF Safe
<1> QED  BY <1>1, AlwaysSafe, PTL

(* However many processes crash or fail, at whatever step, a tombstone is  *)
(* on disk only while the journal names it: removal never leaves a profile *)
(* that is neither stored nor recoverable nor gone (service.go:373-465).   *)
THEOREM NoTombstoneForgotten == Spec => []TombstonesJournaled
<1>1. Safe => TombstonesJournaled
  BY DEF Safe, TombInvariant
<1> QED  BY <1>1, AlwaysSafe, PTL

-----------------------------------------------------------------------------
(* A process that leaves, with the files as they are, changes nothing that *)
(* a removal or a recovery under way has done.                             *)
LEMMA RefuseKeepsRemoval ==
  ASSUME Safe, RemovalInvariant, NEW p \in Proc, Refuse(p)
  PROVE  RemovalInvariant'
BY DEF Refuse, Safe, TypeOK, RemovalInvariant, Early, Late, ActiveAfter, SelectionAfter,
       JournalDir, RemovalDir, Leave, Goto, files

(* Recovery restores what its points say it has.                           *)
LEMMA RecoverKeepsRemoval ==
  ASSUME Safe, RemovalInvariant, NEW p \in Proc, Recover(p)
  PROVE  RemovalInvariant'
<1> USE DEF Safe, TypeOK, LockInvariant, JournalInvariant, TombInvariant,
            TombstonesJournaled, RemovalInvariant, Early, Late, ActiveAfter, SelectionAfter,
            JournalDir, RemovalDir, Leave, Goto, DropDirLocks, Advance, files,
            Held, RecoveryPoints, RemovalPoints
<1>1. CASE RecoveryRefused(p)
  BY <1>1, RefuseKeepsRemoval DEF RecoveryRefused
<1>2. CASE RecoverBegin(p)
  BY <1>2 DEF RecoverBegin
<1>3. CASE RecoverUnlink(p)
  BY <1>3 DEF RecoverUnlink, Journal, Dir
<1>4. CASE RestoreGlobal(p)
  BY <1>4 DEF RestoreGlobal, Journal
<1>5. CASE RestoreProject(p)
  BY <1>5 DEF RestoreProject, Journal
<1>6. CASE RestoreProfile(p)
  BY <1>6 DEF RestoreProfile, Journal, Dir
<1>7. CASE RecoverForget(p)
  BY <1>7 DEF RecoverForget, Recovered, AfterRecovery
<1> QED  BY <1>1, <1>2, <1>3, <1>4, <1>5, <1>6, <1>7 DEF Recover

(* No removal is under way where active-env is migrated.                   *)
LEMMA MigrateKeepsRemoval ==
  ASSUME Safe, RemovalInvariant, NEW p \in Proc, Migrate(p)
  PROVE  RemovalInvariant'
<1> USE DEF Safe, TypeOK, LockInvariant, JournalInvariant, TombInvariant,
            TombstonesJournaled, RemovalInvariant, Early, Late, ActiveAfter, SelectionAfter,
            JournalDir, RemovalDir, Leave, Goto, DropDirLocks, Advance, files,
            Held, RecoveryPoints, RemovalPoints
<1>1. CASE MigrateActive(p)
  BY <1>1 DEF MigrateActive
<1>2. CASE AlreadyMigrated(p)
  BY <1>2 DEF AlreadyMigrated
<1>3. CASE MigrationRefused(p)
  BY <1>3, RefuseKeepsRemoval DEF MigrationRefused
<1>4. CASE DeleteLegacy(p)
  BY <1>4 DEF DeleteLegacy
<1> QED  BY <1>1, <1>2, <1>3, <1>4 DEF Migrate

(* Nor in an operation that is not one.                                    *)
LEMMA OperateKeepsRemoval ==
  ASSUME Safe, RemovalInvariant, NEW p \in Proc, Operate(p)
  PROVE  RemovalInvariant'
<1> USE DEF Safe, TypeOK, LockInvariant, JournalInvariant, TombInvariant,
            TombstonesJournaled, RemovalInvariant, Early, Late, ActiveAfter, SelectionAfter,
            JournalDir, RemovalDir, Leave, Goto, DropDirLocks, Advance, files,
            Held, RecoveryPoints, RemovalPoints
<1>1. CASE ResolveProfile(p)
  BY <1>1 DEF ResolveProfile, Resolving
<1>2. CASE ResolveOnly(p)
  BY <1>2, RefuseKeepsRemoval DEF ResolveOnly
<1>3. CASE RegisterProject(p)
  BY <1>3 DEF RegisterProject
<1>4. CASE UseInProject(p)
  BY <1>4 DEF UseInProject, Using
<1>5. CASE UseGlobally(p)
  BY <1>5 DEF UseGlobally, Using
<1>6. CASE UseRefused(p)
  BY <1>6, RefuseKeepsRemoval DEF UseRefused
<1>7. CASE SaveProfile(p)
  BY <1>7 DEF SaveProfile
<1>8. CASE SaveRefused(p)
  BY <1>8, RefuseKeepsRemoval DEF SaveRefused
<1> QED  BY <1>1, <1>2, <1>3, <1>4, <1>5, <1>6, <1>7, <1>8 DEF Operate

(* A removal changes what its points say it has.                           *)
LEMMA RemoveKeepsRemoval ==
  ASSUME Safe, RemovalInvariant, NEW p \in Proc, Remove(p)
  PROVE  RemovalInvariant'
<1> USE DEF Safe, TypeOK, LockInvariant, JournalInvariant, TombInvariant,
            TombstonesJournaled, RemovalInvariant, Early, Late, ActiveAfter, SelectionAfter,
            JournalDir, RemovalDir, Leave, Goto, DropDirLocks, Advance, files,
            Held, RecoveryPoints, RemovalPoints
<1>1. CASE RemoveBegin(p)
  BY <1>1 DEF RemoveBegin, Removing, Removable
<1>2. CASE RemoveRefused(p)
  BY <1>2, RefuseKeepsRemoval DEF RemoveRefused
<1>3. CASE JournalIntent(p)
  BY <1>3 DEF JournalIntent, Journal, Request, StepInvariant
<1>4. CASE RenameToTombstone(p)
  BY <1>4 DEF RenameToTombstone, Journal, Dir, Request, StepInvariant
<1>5. CASE JournalTombstoned(p)
  BY <1>5 DEF JournalTombstoned, Journal
<1>6. CASE ResetActive(p)
  BY <1>6 DEF ResetActive, SetActive, Journal, Config, Request, StepInvariant
<1>7. CASE FallBackToGlobal(p)
  BY <1>7 DEF FallBackToGlobal, SelectionRemoved, Journal, StepInvariant
<1>8. CASE ClearSelection(p)
  BY <1>8 DEF ClearSelection, SelectionRemoved, Journal, Selection, StepInvariant
<1>9. CASE KeepSelection(p)
  BY <1>9 DEF KeepSelection, SelectionRemoved, Journal, StepInvariant
<1>10. CASE ResolveRest(p)
  BY <1>10 DEF ResolveRest
<1>11. CASE RegisterRest(p)
  BY <1>11 DEF RegisterRest, Register, Config
<1>12. CASE JournalConfigs(p)
  BY <1>12 DEF JournalConfigs, Journal
<1>13. CASE JournalCommit(p)
  BY <1>13 DEF JournalCommit, Journal
<1>14. CASE UnlinkTombstone(p)
  BY <1>14 DEF UnlinkTombstone
<1>15. CASE ForgetJournal(p)
  BY <1>15 DEF ForgetJournal
<1> QED  BY <1>1, <1>2, <1>3, <1>4, <1>5, <1>6, <1>7, <1>8, <1>9, <1>10, <1>11, <1>12,
            <1>13, <1>14, <1>15 DEF Remove

LEMMA StepKeepsRemoval ==
  ASSUME Safe, RemovalInvariant, [Next]_vars
  PROVE  RemovalInvariant'
<1> USE DEF Safe, TypeOK, RemovalInvariant, Early, Late, ActiveAfter, SelectionAfter,
            JournalDir, RemovalDir, Goto, files
<1>1. ASSUME NEW p \in Proc, NEW r \in Requests, Start(p, r)
      PROVE  RemovalInvariant'
  BY <1>1 DEF Start
<1>2. ASSUME NEW p \in Proc, Lock(p)
      PROVE  RemovalInvariant'
  BY <1>2 DEF Lock, AfterRecovery
<1>3. ASSUME NEW p \in Proc, LockRefused(p)
      PROVE  RemovalInvariant'
  BY <1>3, RefuseKeepsRemoval DEF LockRefused
<1>4. ASSUME NEW p \in Proc, Work(p)
      PROVE  RemovalInvariant'
  BY <1>2, <1>3, <1>4, RecoverKeepsRemoval, MigrateKeepsRemoval, OperateKeepsRemoval,
     RemoveKeepsRemoval DEF Work
<1>5. ASSUME NEW p \in Proc, Crash(p)
      PROVE  RemovalInvariant'
  BY <1>5, RefuseKeepsRemoval DEF Crash
<1>6. ASSUME NEW p \in Proc, WriteFails(p)
      PROVE  RemovalInvariant'
  <2>1. CASE pc[p] \in RollsBack
    BY <1>6, <2>1 DEF WriteFails, RollBack
  <2>2. CASE pc[p] \notin RollsBack
    BY <1>6, <2>2, RefuseKeepsRemoval DEF WriteFails
  <2> QED  BY <2>1, <2>2
<1>7. CASE UpdateSettings
  BY <1>7 DEF UpdateSettings, LockInvariant, Held, RecoveryPoints, RemovalPoints
<1>8. CASE UNCHANGED vars
  BY <1>8 DEF vars
<1> QED  BY <1>1, <1>4, <1>5, <1>6, <1>7, <1>8 DEF Next

LEMMA AlwaysInv == Spec => []Inv
<1>1. Init => Inv
  BY InitSafe DEF Init, Inv, RemovalInvariant, Early, Late
<1>2. Inv /\ [Next]_vars => Inv'
  BY StepSafe, StepKeepsRemoval DEF Inv
<1> QED  BY <1>1, <1>2, PTL DEF Spec

-----------------------------------------------------------------------------
(* The simulation of EnvRegistry.                                          *)

settled == <<SettledProfiles, SettledActive, SettledSelection>>

LEMMA FilesSettle ==
  ASSUME UNCHANGED files
  PROVE  UNCHANGED settled
BY DEF files, settled, SettledProfiles, SettledActive, SettledSelection, SettledConfig,
       Settled, Pending, JournalDir

(* While no removal is pending, what is settled is what the files say.     *)
LEMMA NothingPending ==
  TypeOK /\ ~Pending =>
    /\ SettledProfiles = profiles
    /\ SettledActive = config.active
    /\ SettledSelection = selected
BY DEF TypeOK, SettledProfiles, SettledActive, SettledSelection, SettledConfig, Settled

LEMMA NothingPendingNext ==
  TypeOK' /\ ~Pending' =>
    /\ SettledProfiles' = profiles'
    /\ SettledActive' = config.active'
    /\ SettledSelection' = selected'
BY DEF TypeOK, SettledProfiles, SettledActive, SettledSelection, SettledConfig, Settled

(* An operation of the registry is a step of it.                           *)
LEMMA RegistrySteps ==
  /\ \A d \in Dir, n \in Name : Registry!Save(d, n) => Registry!Next
  /\ \A n \in Name \cup {Lab} : Registry!Activate(n) => Registry!Next
  /\ \A q \in Project, n \in Name \cup {Lab} : Registry!Select(q, n) => Registry!Next
  /\ \A n \in Name : Registry!RemoveGlobal(n) => Registry!Next
  /\ \A q \in Project, n \in Name : Registry!RemoveFromProject(q, n) => Registry!Next
BY DEF Registry!Next, Registry!Dir, Dir

(* Recovery changes nothing that a later transaction sees.                 *)
LEMMA RecoverSimulates ==
  ASSUME Inv, NEW p \in Proc, Recover(p)
  PROVE  UNCHANGED settled
<1> USE DEF settled, SettledProfiles, SettledActive, SettledSelection, SettledConfig,
            Settled, Pending, Inv, Safe, TypeOK, JournalInvariant, TombInvariant,
            TombstonesJournaled, RemovalInvariant, Early, Late, JournalDir, RemovalDir,
            Advance, RecoveryPoints, RemovalPoints
<1>1. CASE RecoveryRefused(p)
  BY <1>1, FilesSettle DEF RecoveryRefused, Refuse
<1>2. CASE RecoverBegin(p)
  BY <1>2, FilesSettle DEF RecoverBegin, files
<1>3. CASE RecoverUnlink(p)
  BY <1>3 DEF RecoverUnlink
<1>4. CASE RestoreGlobal(p)
  BY <1>4 DEF RestoreGlobal
<1>5. CASE RestoreProject(p)
  BY <1>5 DEF RestoreProject
<1>6. CASE RestoreProfile(p)
  BY <1>6 DEF RestoreProfile, Journal, Dir
<1>7. CASE RecoverForget(p)
  BY <1>7 DEF RecoverForget, Journal
<1> QED  BY <1>1, <1>2, <1>3, <1>4, <1>5, <1>6, <1>7 DEF Recover

(* Migrating active-env activates what it names.                           *)
LEMMA MigrateSimulates ==
  ASSUME Inv, NEW p \in Proc, Migrate(p)
  PROVE  [Registry!Next]_settled
<1> USE DEF settled, SettledProfiles, SettledActive, SettledSelection, SettledConfig,
            Settled, Pending, Inv, Safe, TypeOK, JournalInvariant, TombInvariant,
            TombstonesJournaled, RemovalInvariant, Early, Late, JournalDir, RemovalDir,
            Advance, RecoveryPoints, RemovalPoints
<1>1. CASE MigrateActive(p)
  BY <1>1 DEF MigrateActive, SetActive, Config, Dir, Registry!Next, Registry!Activate
<1>2. CASE AlreadyMigrated(p)
  BY <1>2, FilesSettle DEF AlreadyMigrated, files
<1>3. CASE MigrationRefused(p)
  BY <1>3, FilesSettle DEF MigrationRefused, Refuse
<1>4. CASE DeleteLegacy(p)
  BY <1>4 DEF DeleteLegacy
<1> QED  BY <1>1, <1>2, <1>3, <1>4 DEF Migrate

(* Where an operation runs no removal is pending, before it or after it.   *)
LEMMA OperateUnpending ==
  ASSUME Inv, NEW p \in Proc, pc[p] = "body", UNCHANGED journal, [Next]_vars
  PROVE  /\ SettledProfiles = profiles /\ SettledProfiles' = profiles'
         /\ SettledActive = config.active /\ SettledActive' = config'.active
         /\ SettledSelection = selected /\ SettledSelection' = selected'
<1>1. ~Pending /\ ~Pending'
  BY DEF Inv, Safe, JournalInvariant, Pending
<1>2. TypeOK /\ TypeOK'
  BY StepSafe DEF Inv, Safe
<1> QED  BY <1>1, <1>2, NothingPending, NothingPendingNext

(* Selecting a profile in a project happens at once.                       *)
LEMMA UseInProjectSimulates ==
  ASSUME Inv, NEW p \in Proc, UseInProject(p)
  PROVE  Registry!Next
<1> DEFINE root == req[p].root
           n == req[p].name
<1>1. /\ root \in Project /\ n \in Name \cup {Lab}
      /\ n = Lab \/ n \in profiles[root] \cup profiles[Global]
      /\ pc[p] = "body" /\ UNCHANGED <<journal, profiles, config>>
      /\ selected' = [selected EXCEPT ![root] = n]
  BY DEF UseInProject, Using, Inv, Safe, StepInvariant, Request, Resolves, SourceOf,
     Implicit
<1>2. Next
  BY DEF Next, Work, Operate
<1>3. Registry!Select(root, n)
  BY <1>1, <1>2, OperateUnpending DEF Registry!Select
<1> QED  BY <1>1, <1>3, RegistrySteps

(* So does activating one globally.                                        *)
LEMMA UseGloballySimulates ==
  ASSUME Inv, NEW p \in Proc, UseGlobally(p)
  PROVE  Registry!Next
<1> DEFINE n == req[p].name
<1>1. /\ n \in Name \cup {Lab} /\ (n = Lab \/ n \in profiles[Global])
      /\ pc[p] = "body" /\ UNCHANGED <<journal, profiles, selected>>
      /\ config' = SetActive(config, n)
  BY DEF UseGlobally, Using, Inv, Safe, StepInvariant, Request, Resolves, SourceOf,
     Implicit
<1>2. Next
  BY DEF Next, Work, Operate
<1>3. config'.active = n
  BY <1>1, ConfigSteps DEF Inv, Safe, TypeOK
<1>4. Registry!Activate(n)
  BY <1>1, <1>2, <1>3, OperateUnpending DEF Registry!Activate
<1> QED  BY <1>1, <1>4, RegistrySteps

(* And saving one.                                                         *)
LEMMA SaveSimulates ==
  ASSUME Inv, NEW p \in Proc, SaveProfile(p)
  PROVE  Registry!Next
<1> DEFINE d == Target(req[p].root)
           n == req[p].name
<1>1. /\ d \in Dir /\ n \in Name /\ n \notin profiles[d]
      /\ pc[p] = "body" /\ UNCHANGED <<journal, config, selected>>
      /\ profiles' = [profiles EXCEPT ![d] = @ \cup {n}]
  BY DEF SaveProfile, Inv, Safe, StepInvariant, Request, Target, Dir
<1>2. Next
  BY DEF Next, Work, Operate
<1>3. Registry!Save(d, n)
  BY <1>1, <1>2, OperateUnpending DEF Registry!Save
<1> QED  BY <1>1, <1>3, RegistrySteps

(* An operation that is not a removal is one step of the registry, or none. *)
LEMMA OperateSimulates ==
  ASSUME Inv, NEW p \in Proc, Operate(p)
  PROVE  [Registry!Next]_settled
<1>1. CASE ResolveProfile(p)
  BY <1>1, FilesSettle DEF ResolveProfile, files
<1>2. CASE ResolveOnly(p) \/ UseRefused(p) \/ SaveRefused(p)
  BY <1>2, FilesSettle DEF ResolveOnly, UseRefused, SaveRefused, Refuse
<1>3. CASE RegisterProject(p)
  <2>1. config'.active = config.active
    BY <1>3, ConfigSteps DEF RegisterProject, Inv, Safe, TypeOK, StepInvariant
  <2>2. journal = None /\ UNCHANGED <<journal, profiles, tombs, selected>>
    BY <1>3 DEF RegisterProject, Inv, Safe, JournalInvariant
  <2> QED
    BY <2>1, <2>2 DEF settled, SettledProfiles, SettledActive, SettledSelection,
                      SettledConfig, Settled, Pending
<1> QED
  BY <1>1, <1>2, <1>3, UseInProjectSimulates, UseGloballySimulates, SaveSimulates DEF
     Operate

(* The writes of the journal up to "configs" settle nothing.               *)
LEMMA PhaseSettlesNothing ==
  ASSUME journal \in Journal, journal' \in Journal, SameRemoval(journal, journal'),
         journal.phase # "commit", journal'.phase # "commit",
         UNCHANGED <<config, selected, profiles, tombs, legacy>>
  PROVE  UNCHANGED settled
<1>1. Pending /\ Pending'
  BY DEF Pending
<1> QED
  BY <1>1 DEF settled, SettledProfiles, SettledActive, SettledSelection, SettledConfig,
              Settled, SameRemoval, JournalDir

LEMMA JournalWritesSettleNothing ==
  ASSUME Inv, NEW p \in Proc, JournalTombstoned(p) \/ JournalConfigs(p)
  PROVE  UNCHANGED settled
<1>1. /\ journal \in Journal /\ journal.phase \in {"intent", "tombstoned"}
      /\ UNCHANGED <<config, selected, profiles, tombs, legacy>>
  BY DEF JournalTombstoned, JournalConfigs, Advance, Inv, Safe, JournalInvariant,
         RemovalPoints, RemovalInvariant, Early, Late
<1>2. CASE JournalTombstoned(p)
  <2>1. "tombstoned" \in Phases
    BY DEF Phases
  <2>2. journal' \in Journal /\ SameRemoval(journal, journal') /\ journal'.phase = "tombstoned"
    BY <1>1, <1>2, <2>1, PhaseStep DEF JournalTombstoned
  <2> QED  BY <1>1, <2>2, PhaseSettlesNothing
<1>3. CASE JournalConfigs(p)
  <2>1. "configs" \in Phases
    BY DEF Phases
  <2> DEFINE after == IF req[p].root = None THEN None ELSE selected[req[p].root]
  <2>2. after \in Selection
    BY <1>3 DEF JournalConfigs, Advance, Request, Inv, Safe, TypeOK, StepInvariant,
       Selection
  <2>3. config \in Config
    BY DEF Inv, Safe, TypeOK
  <2>4. journal' = [journal EXCEPT !.phase = "configs", !.globalAfter = config,
                                   !.projectAfter = after]
    BY <1>3 DEF JournalConfigs
  <2> HIDE DEF after
  <2>5. journal' \in Journal /\ SameRemoval(journal, journal') /\ journal'.phase = "configs"
    BY <1>1, <2>1, <2>2, <2>3, <2>4 DEF Journal, SameRemoval
  <2> QED  BY <1>1, <2>5, PhaseSettlesNothing
<1> QED  BY <1>2, <1>3

(* The write of "commit" is the removal.                                   *)
LEMMA CommitSimulates ==
  ASSUME Inv, NEW p \in Proc, JournalCommit(p)
  PROVE  Registry!Next
<1> DEFINE j == journal
           d == JournalDir(journal)
<1>1. /\ pc[p] = "xCommit" /\ j \in Journal /\ j.phase = "configs"
      /\ j.name \in Name /\ j.source \in {"project", "global"}
      /\ j.source = "project" => j.root \in Project
  BY DEF JournalCommit, Advance, Inv, Safe, JournalInvariant, RemovalInvariant,
         RemovalPoints, Journal
<1>2. d \in Dir
  BY <1>1 DEF JournalDir, Dir
<1>3. ~Pending' /\ UNCHANGED <<config, selected, profiles, tombs>>
  BY <1>1 DEF JournalCommit, Pending, Journal
<1>4. /\ SettledProfiles' = profiles /\ SettledActive' = config.active
      /\ SettledSelection' = selected
  BY <1>3, StepSafe, NothingPendingNext DEF Next, Work, Remove, Inv, Safe
<1>5. /\ j.name \notin profiles[d] /\ j.name \in tombs[d]
      /\ config.active = ActiveAfter(j)
      /\ j.root \in Project => selected[j.root] = SelectionAfter(j)
  BY <1>1 DEF Inv, RemovalInvariant, Late, Early
<1>6. Pending
  BY <1>1 DEF Pending
<1>7. SettledProfiles = [profiles EXCEPT ![d] = @ \cup {j.name}]
  <2>1. \A e \in Dir : Settled(e) = IF e = d THEN profiles[e] \cup {j.name} ELSE profiles[e]
    BY <1>5, <1>6 DEF Settled
  <2> QED  BY <1>2, <2>1 DEF SettledProfiles, Inv, Safe, TypeOK
<1>8. SettledActive = j.globalPrior.active
  BY <1>6 DEF SettledActive, SettledConfig
<1>9. SettledSelection = [q \in Project |-> IF j.root = q THEN j.projectPrior ELSE selected[q]]
  BY <1>6 DEF SettledSelection
<1>10. selected \in [Project -> Selection] /\ profiles \in [Dir -> SUBSET Name]
  BY DEF Inv, Safe, TypeOK
<1> HIDE DEF j, d
<1>11. SettledProfiles' = [SettledProfiles EXCEPT ![d] = @ \ {j.name}]
  <2>1. (profiles[d] \cup {j.name}) \ {j.name} = profiles[d]
    BY <1>5
  <2>2. [SettledProfiles EXCEPT ![d] = @ \ {j.name}] = [profiles EXCEPT ![d] = profiles[d]]
    BY <1>2, <1>7, <1>10, <2>1
  <2> QED  BY <1>2, <1>4, <1>10, <2>2
<1>12. CASE j.source = "global"
  <2>1. d = Global
    BY <1>12 DEF JournalDir, j, d
  <2>2. SettledSelection' = SettledSelection
    BY <1>4, <1>5, <1>9, <1>10, <1>12 DEF SelectionAfter
  <2>3. SettledProfiles' = [SettledProfiles EXCEPT ![Global] = @ \ {j.name}]
    BY <1>11, <2>1
  <2>4. /\ j.name \in SettledProfiles[Global]
        /\ SettledActive' = IF SettledActive = j.name THEN Lab ELSE SettledActive
    BY <1>2, <1>4, <1>5, <1>7, <1>8, <1>10, <1>12, <2>1 DEF ActiveAfter
  <2>5. Registry!RemoveGlobal(j.name)
    BY <2>2, <2>3, <2>4 DEF Registry!RemoveGlobal
  <2> QED  BY <1>1, <2>5, RegistrySteps DEF j
<1>13. CASE j.source = "project"
  <2>1. d = j.root /\ j.root \in Project /\ d # Global
    BY <1>1, <1>13 DEF JournalDir, j, d
  <2>2. SettledSelection' =
          [SettledSelection EXCEPT ![j.root] =
             IF @ = j.name /\ j.name \notin SettledProfiles[Global] THEN None ELSE @]
    BY <1>2, <1>4, <1>5, <1>7, <1>9, <1>10, <1>13, <2>1 DEF SelectionAfter, Dir
  <2>3. SettledProfiles' = [SettledProfiles EXCEPT ![j.root] = @ \ {j.name}]
    BY <1>11, <2>1
  <2>4. j.name \in SettledProfiles[j.root] /\ SettledActive' = SettledActive
    BY <1>2, <1>4, <1>5, <1>7, <1>8, <1>10, <1>13, <2>1 DEF ActiveAfter
  <2>5. Registry!RemoveFromProject(j.root, j.name)
    BY <2>2, <2>3, <2>4 DEF Registry!RemoveFromProject
  <2> QED  BY <1>1, <2>1, <2>5, RegistrySteps DEF j
<1> QED  BY <1>1, <1>12, <1>13 DEF j

(* A removal happens at the write of "commit".                             *)
LEMMA RemoveSimulates ==
  ASSUME Inv, NEW p \in Proc, Remove(p)
  PROVE  [Registry!Next]_settled
<1> USE DEF settled, SettledProfiles, SettledActive, SettledSelection, SettledConfig,
            Settled, Pending, Inv, Safe, TypeOK, JournalInvariant, TombInvariant,
            TombstonesJournaled, RemovalInvariant, Early, Late, JournalDir, RemovalDir,
            Advance, RecoveryPoints, RemovalPoints
<1>1. CASE RemoveBegin(p)
  BY <1>1, FilesSettle DEF RemoveBegin, files
<1>2. CASE RemoveRefused(p)
  BY <1>2, FilesSettle DEF RemoveRefused, Refuse
<1>3. CASE JournalIntent(p)
  BY <1>3 DEF JournalIntent, Journal
<1>4. CASE RenameToTombstone(p)
  BY <1>4 DEF RenameToTombstone, Journal, Dir
<1>5. CASE JournalTombstoned(p)
  BY <1>5, JournalWritesSettleNothing
<1>6. CASE ResetActive(p)
  BY <1>6 DEF ResetActive, Journal
<1>7. CASE FallBackToGlobal(p)
  BY <1>7, FilesSettle DEF FallBackToGlobal, files
<1>8. CASE ClearSelection(p)
  BY <1>8 DEF ClearSelection
<1>9. CASE KeepSelection(p)
  BY <1>9, FilesSettle DEF KeepSelection, files
<1>10. CASE ResolveRest(p)
  BY <1>10, FilesSettle DEF ResolveRest, files
<1>11. CASE RegisterRest(p)
  BY <1>11 DEF RegisterRest
<1>12. CASE JournalConfigs(p)
  BY <1>12, JournalWritesSettleNothing
<1>13. CASE JournalCommit(p)
  BY <1>13, CommitSimulates
<1>14. CASE UnlinkTombstone(p)
  BY <1>14 DEF UnlinkTombstone
<1>15. CASE ForgetJournal(p)
  BY <1>15 DEF ForgetJournal
<1> QED  BY <1>1, <1>2, <1>3, <1>4, <1>5, <1>6, <1>7, <1>8, <1>9, <1>10, <1>11, <1>12,
            <1>13, <1>14, <1>15 DEF Remove

(* Every step of the service is one of the registry, or changes nothing    *)
(* that a later transaction sees.                                          *)
LEMMA StepSimulates ==
  ASSUME Inv, [Next]_vars
  PROVE  [Registry!Next]_settled
<1>1. ASSUME NEW p \in Proc, NEW r \in Requests, Start(p, r)
      PROVE  UNCHANGED settled
  BY <1>1, FilesSettle DEF Start
<1>2. ASSUME NEW p \in Proc, Lock(p) \/ LockRefused(p) \/ Crash(p) \/ WriteFails(p)
      PROVE  UNCHANGED settled
  BY <1>2, FilesSettle DEF Lock, LockRefused, Crash, WriteFails, RollBack, Refuse
<1>3. ASSUME NEW p \in Proc, Work(p)
      PROVE  [Registry!Next]_settled
  BY <1>2, <1>3, RecoverSimulates, MigrateSimulates, OperateSimulates, RemoveSimulates
     DEF Work
<1>4. CASE UpdateSettings
  <2>1. config'.active = config.active /\ UNCHANGED <<profiles, tombs, journal, selected>>
    BY <1>4 DEF UpdateSettings, Inv, Safe, TypeOK, Config
  <2> QED
    BY <2>1 DEF settled, SettledProfiles, SettledActive, SettledSelection,
                SettledConfig, Settled, Pending, JournalDir
<1>5. CASE UNCHANGED vars
  BY <1>5, FilesSettle DEF vars, files
<1> QED  BY <1>1, <1>2, <1>3, <1>4, <1>5 DEF Next

LEMMA InitSimulates == Init => Registry!Init
<1> SUFFICES ASSUME Init PROVE Registry!Init
  OBVIOUS
<1>1. TypeOK /\ ~Pending
  BY InitSafe DEF Safe, Init, Pending
<1>2. config.active = None /\ profiles \in [Dir -> SUBSET Name]
      /\ selected \in [Project -> Name \cup {None}]
  <2>1. /\ NoConfig.active = None
        /\ [NoConfig EXCEPT !.exists = TRUE, !.complete = "true"].active = None
    BY DEF NoConfig
  <2> QED  BY <2>1 DEF Init
<1> QED  BY <1>1, <1>2, NothingPending DEF Registry!Init, Registry!Dir, Dir

(* The service implements the registry: whatever crashes or fails, and     *)
(* whoever runs meanwhile, a profile is saved, selected or removed at one  *)
(* moment, and the active profile that is removed is the lab from then on  *)
(* (service.go:311-466, 679-721).                                          *)
THEOREM ImplementsRegistry == Spec => AtomicRegistry
<1>1. Inv /\ [Next]_vars => [Registry!Next]_settled
  BY StepSimulates
<1> QED  BY <1>1, InitSimulates, AlwaysInv, PTL DEF Spec, AtomicRegistry, Registry!Spec,
            settled

(* The lab home's active profile is stored there, as far as a later        *)
(* command can see: it follows from the registry's operations alone.       *)
THEOREM ActiveIsStored == Spec => []ActiveNeverDangles
<1> DEFINE Stored == SettledActive \in Name => SettledActive \in SettledProfiles[Global]
<1>1. Init => Stored
  BY InitSimulates DEF Registry!Init
<1>2. Stored /\ [Registry!Next]_settled => Stored'
  <2> SUFFICES ASSUME Stored, [Registry!Next]_settled PROVE Stored'
    OBVIOUS
  <2>1. CASE UNCHANGED settled
    BY <2>1 DEF settled
  <2>2. ASSUME NEW d \in Registry!Dir, NEW n \in Name, Registry!Save(d, n)
        PROVE  Stored'
    BY <2>2 DEF Registry!Save, SettledProfiles, Dir
  <2>3. ASSUME NEW n \in Name, Registry!RemoveGlobal(n)
        PROVE  Stored'
    BY <2>3 DEF Registry!RemoveGlobal, SettledProfiles, Dir
  <2>4. ASSUME NEW q \in Project, NEW n \in Name, Registry!RemoveFromProject(q, n)
        PROVE  Stored'
    BY <2>4 DEF Registry!RemoveFromProject, SettledProfiles, Dir
  <2>5. ASSUME NEW n \in Name \cup {Lab}, Registry!Activate(n)
        PROVE  Stored'
    BY <2>5 DEF Registry!Activate
  <2>6. ASSUME NEW q \in Project, NEW n \in Name \cup {Lab}, Registry!Select(q, n)
        PROVE  Stored'
    BY <2>6 DEF Registry!Select
  <2> HIDE DEF Stored
  <2> QED  BY <2>1, <2>2, <2>3, <2>4, <2>5, <2>6 DEF Registry!Next
<1>3. Stored => ActiveNeverDangles
  BY DEF ActiveNeverDangles, SettledProfiles, Dir
<1>4. Inv /\ [Next]_vars => [Registry!Next]_settled
  BY StepSimulates
<1> QED  BY <1>1, <1>2, <1>3, <1>4, AlwaysInv, PTL DEF Spec

-------------------------------------------------------------------------------
(* The use of the service in which recovery copes with every crash and     *)
(* failure: none of them falls between the change of a file and the write  *)
(* of the journal's next phase, or into the middle of undoing; nothing     *)
(* else rewrites config.yaml (config.go:96 does not look at the journal);  *)
(* and who removes a profile in a project means one of its own, in a       *)
(* project whose config has a mode the journal accepts.                    *)
Unmatched == {"xTombstoned", "xProject", "xResolve", "xRegister", "xConfigs",
              "rProject", "rTomb", "rForget"}

ProjectRemovals == {r \in Requests : r.op = "remove" /\ r.root # None}

Coping ==
  /\ (CrashAt \cup FailAt) \cap Unmatched = {} /\ ~Updating
  /\ \A r \in ProjectRemovals :
       /\ r.root \notin LooseMode
       /\ \A s \in Requests : s.op = "save" /\ s.root = None => s.name # r.name

(* No profile of the lab home has a name that is removed in a project.     *)
OwnRemovals ==
  \A r \in ProjectRemovals : r.name \notin profiles[Global] \cup tombs[Global]

(* The points at which the files are as the journal says.                  *)
Matched == {"recover", "rUnlink", "rGlobal", "xRename", "xActive", "xCommit",
            "xUnlink", "xForget"}

RecoveryInvariant ==
  /\ OwnRemovals
  /\ config.complete = "true" => config.exists
  /\ journal # None => Readable(journal)
  /\ journal # None /\ lock = None => PhaseStateValid(journal)
  /\ \A p \in Proc :
       /\ src[p] = "project" => config.exists /\ req[p].root \notin LooseMode
       /\ src[p] = "global" => req[p].root = None
       /\ pc[p] = "register" /\ req[p].op = "remove" => found[p].source = "project"
       /\ pc[p] = "xIntent" => config.exists
       /\ pc[p] \in Matched => PhaseStateValid(journal)
       /\ pc[p] \in Early \cup {"xActive"} => config = journal.globalPrior
(* What the journal and the files say of each other depends on nothing     *)
(* else.                                                                   *)
LEMMA FilesMatch ==
  ASSUME UNCHANGED files
  PROVE  /\ PhaseStateValid(journal)' <=> PhaseStateValid(journal)
         /\ Readable(journal)' <=> Readable(journal)
         /\ OwnRemovals' <=> OwnRemovals
BY DEF files, PhaseStateValid, Readable, OwnRemovals, JournalDir

(* A process that leaves while the files match leaves a journal that can   *)
(* be recovered from.                                                      *)
LEMMA RefuseRecovers ==
  ASSUME Inv, RecoveryInvariant, NEW p \in Proc, Refuse(p),
         lock = p /\ journal # None => PhaseStateValid(journal)
  PROVE  RecoveryInvariant'
<1>1. /\ pc' = [pc EXCEPT ![p] = "idle"] /\ req' = [req EXCEPT ![p] = None]
      /\ src' = [src EXCEPT ![p] = None] /\ found' = [found EXCEPT ![p] = None]
      /\ lock' = IF lock = p THEN None ELSE lock
      /\ UNCHANGED files /\ UNCHANGED <<config, journal>>
  BY DEF Refuse, Leave, Goto, files
<1>2. \A r \in Proc \ {p} : /\ pc'[r] = pc[r] /\ req'[r] = req[r] /\ src'[r] = src[r]
                            /\ found'[r] = found[r]
  BY <1>1 DEF Inv, Safe, TypeOK
<1>3. pc'[p] = "idle" /\ src'[p] = None
  BY <1>1 DEF Inv, Safe, TypeOK
<1>4. lock = None \/ lock = p \/ lock' # None
  BY <1>1
<1> QED
  BY <1>1, <1>2, <1>3, <1>4, FilesMatch DEF RecoveryInvariant, Matched, Early

(* Steps that leave the files alone, and the lock with who has it.         *)
LEMMA RecoverRecovers ==
  ASSUME Inv, RecoveryInvariant, NEW p \in Proc, Recover(p)
  PROVE  RecoveryInvariant'
<1> USE DEF Inv, Safe, TypeOK, LockInvariant, JournalInvariant, RemovalInvariant, TombInvariant,
            TombstonesJournaled, RecoveryInvariant, Matched, Early, Late,
            JournalDir, Leave, Goto, DropDirLocks, Advance, files,
            Held, RecoveryPoints, RemovalPoints
<1>1. CASE RecoveryRefused(p)
  BY <1>1 DEF RecoveryRefused
<1>2. CASE RecoverBegin(p)
  BY <1>2, FilesMatch DEF RecoverBegin
<1>3. CASE RecoverUnlink(p)
  BY <1>3 DEF RecoverUnlink, Readable, OwnRemovals, Dir
<1>4. CASE RestoreGlobal(p)
  BY <1>4 DEF RestoreGlobal, Readable, OwnRemovals
<1>5. CASE RestoreProject(p)
  BY <1>5 DEF RestoreProject, Readable, OwnRemovals
<1>6. CASE RestoreProfile(p)
  BY <1>6 DEF RestoreProfile, Readable, OwnRemovals, Dir
<1>7. CASE RecoverForget(p)
  BY <1>7 DEF RecoverForget, Recovered, AfterRecovery, OwnRemovals
<1> QED  BY <1>1, <1>2, <1>3, <1>4, <1>5, <1>6, <1>7 DEF Recover

(* No journal is there when active-env is migrated.                      *)
LEMMA MigrateRecovers ==
  ASSUME Inv, RecoveryInvariant, NEW p \in Proc, Migrate(p)
  PROVE  RecoveryInvariant'
<1> USE DEF Inv, Safe, TypeOK, LockInvariant, JournalInvariant, RecoveryInvariant, Matched, Early,
            Goto, Advance, files, Held, RecoveryPoints, RemovalPoints
<1>1. CASE MigrateActive(p)
  BY <1>1 DEF MigrateActive, SetActive, Config, OwnRemovals
<1>2. CASE AlreadyMigrated(p)
  BY <1>2, FilesMatch DEF AlreadyMigrated
<1>3. CASE MigrationRefused(p)
  BY <1>3, RefuseRecovers DEF MigrationRefused
<1>4. CASE DeleteLegacy(p)
  BY <1>4 DEF DeleteLegacy, OwnRemovals
<1> QED  BY <1>1, <1>2, <1>3, <1>4 DEF Migrate

(* Nor in an operation that is not a removal; a project removes its own. *)
LEMMA OperateRecovers ==
  ASSUME Coping, Inv, RecoveryInvariant, NEW p \in Proc, Operate(p)
  PROVE  RecoveryInvariant'
<1> USE DEF Inv, Safe, TypeOK, LockInvariant, StepInvariant, JournalInvariant, RecoveryInvariant,
            Matched, Early, Leave, Goto, DropDirLocks, files, Held, RecoveryPoints, RemovalPoints
<1>1. CASE ResolveProfile(p)
  <2>1. req[p].op = "remove" => Resolved(Wanted(req[p]), req[p].root).source = "project"
    <3> SUFFICES ASSUME req[p].op = "remove"
                 PROVE  Resolved(Wanted(req[p]), req[p].root).source = "project"
      OBVIOUS
    <3>1. req[p] \in ProjectRemovals /\ req[p] \in Request
      BY <1>1, PointTypes DEF ResolveProfile, Resolving, ProjectRemovals
    <3>2. Wanted(req[p]) = req[p].name /\ ~Implicit(req[p].name)
      BY <3>1 DEF Wanted, Request, Implicit
    <3>3. req[p].name \notin profiles[Global]
      BY <3>1 DEF OwnRemovals
    <3> QED
      BY <1>1, <3>1, <3>2, <3>3 DEF ResolveProfile, Resolves, Resolved, SourceOf
  <2> QED
    BY <1>1, <2>1, FilesMatch DEF ResolveProfile, Resolving
<1>2. CASE ResolveOnly(p)
  BY <1>2, RefuseRecovers DEF ResolveOnly, Resolving
<1>3. CASE RegisterProject(p)
  <2>1. config'.exists /\ (config'.complete = "true" => config'.exists)
    BY <1>3 DEF RegisterProject, Register, Config
  <2>2. req[p].op = "remove" => req[p] \in ProjectRemovals
    BY <1>3 DEF RegisterProject, ProjectRemovals
  <2>3. CASE req[p].op = "remove"
    BY <1>3, <2>1, <2>2, <2>3 DEF RegisterProject, OwnRemovals, Coping
  <2>4. CASE req[p].op # "remove"
    BY <1>3, <2>1, <2>4 DEF RegisterProject, OwnRemovals
  <2> QED  BY <2>3, <2>4
<1>4. CASE UseInProject(p)
  BY <1>4 DEF UseInProject, Using, OwnRemovals
<1>5. CASE UseGlobally(p)
  BY <1>5 DEF UseGlobally, Using, SetActive, Config, OwnRemovals
<1>6. CASE UseRefused(p)
  BY <1>6, RefuseRecovers DEF UseRefused, Using
<1>7. CASE SaveProfile(p)
  <2>1. OwnRemovals'
    <3>1. req[p] \in Requests /\ req[p].op = "save"
      BY <1>7, PointTypes DEF SaveProfile
    <3>2. \A r \in ProjectRemovals : req[p].root = None => req[p].name # r.name
      BY <3>1 DEF Coping
    <3>3. req[p].root # None => req[p].root \in Project
      BY <3>1 DEF Request
    <3> QED
      BY <1>7, <3>2, <3>3 DEF SaveProfile, OwnRemovals, Target, Dir
  <2> QED
    BY <1>7, <2>1 DEF SaveProfile
<1>8. CASE SaveRefused(p)
  BY <1>8, RefuseRecovers DEF SaveRefused
<1> QED  BY <1>1, <1>2, <1>3, <1>4, <1>5, <1>6, <1>7, <1>8 DEF Operate

(* A removal is at one of the points that match whenever it has written    *)
(* the phase after a change.                                               *)
LEMMA RemoveRecovers ==
  ASSUME Coping, Inv, RecoveryInvariant, NEW p \in Proc, Remove(p)
  PROVE  RecoveryInvariant'
<1> USE DEF Inv, Safe, TypeOK, LockInvariant, StepInvariant, JournalInvariant, RemovalInvariant,
            TombInvariant, TombstonesJournaled, RecoveryInvariant,
            Matched, Early, Late, JournalDir, RemovalDir, Leave, Goto, DropDirLocks, Advance,
            files, Held, RecoveryPoints, RemovalPoints
<1>1. CASE RemoveBegin(p)
  <2>1. config.exists
    BY <1>1 DEF RemoveBegin, Removing, Removable, RemovalRefused
  <2> QED
    BY <1>1, <2>1, FilesMatch DEF RemoveBegin, Removing
<1>2. CASE RemoveRefused(p)
  BY <1>2, RefuseRecovers DEF RemoveRefused, Removing
<1>3. CASE JournalIntent(p)
  <2>1. /\ journal'.source = src[p] /\ journal'.root = req[p].root /\ journal'.globalPrior = config
        /\ journal'.phase = "intent" /\ journal'.name = req[p].name
        /\ req[p].root # None => journal'.projectPrior = selected[req[p].root]
    BY <1>3 DEF JournalIntent
  <2>2. Readable(journal)'
    BY <1>3, <2>1 DEF Readable, JournalIntent
  <2>3. PhaseStateValid(journal)'
    BY <1>3, <2>1 DEF PhaseStateValid, JournalIntent, Dir
  <2> QED
    BY <1>3, <2>1, <2>2, <2>3 DEF JournalIntent, OwnRemovals
<1>4. CASE RenameToTombstone(p)
  BY <1>4 DEF RenameToTombstone, Readable, OwnRemovals, Dir
<1>5. CASE JournalTombstoned(p)
  <2>1. /\ SameRemoval(journal, journal') /\ journal'.phase = "tombstoned" /\ journal' \in Journal
        /\ UNCHANGED <<config, selected, profiles, tombs, legacy>>
    BY <1>5, PhaseStep DEF JournalTombstoned, Phases
  <2>2. Readable(journal)' /\ OwnRemovals'
    BY <1>5, <2>1 DEF Readable, OwnRemovals, SameRemoval, JournalTombstoned
  <2>3. PhaseStateValid(journal)'
    BY <1>5, <2>1 DEF PhaseStateValid, SameRemoval, JournalTombstoned
  <2> QED
    BY <1>5, <2>1, <2>2, <2>3 DEF JournalTombstoned, SameRemoval
<1>6. CASE ResetActive(p)
  BY <1>6 DEF ResetActive, SetActive, Config, Readable, OwnRemovals
<1>7. CASE FallBackToGlobal(p)
  BY <1>7, FilesMatch DEF FallBackToGlobal, SelectionRemoved
<1>8. CASE ClearSelection(p)
  BY <1>8 DEF ClearSelection, SelectionRemoved, Readable, OwnRemovals
<1>9. CASE KeepSelection(p)
  BY <1>9, FilesMatch DEF KeepSelection
<1>10. CASE ResolveRest(p)
  BY <1>10, FilesMatch DEF ResolveRest
<1>11. CASE RegisterRest(p)
  BY <1>11 DEF RegisterRest, Register, Config, Readable, OwnRemovals
<1>12. CASE JournalConfigs(p)
  <2>1. /\ SameRemoval(journal, journal') /\ journal'.phase = "configs"
        /\ journal'.globalAfter = config
        /\ req[p].root # None => journal'.projectAfter = selected[req[p].root]
        /\ UNCHANGED <<config, selected, profiles, tombs, legacy>>
    BY <1>12 DEF JournalConfigs, SameRemoval, Journal
  <2>2. Readable(journal)' /\ OwnRemovals'
    BY <1>12, <2>1 DEF Readable, OwnRemovals, SameRemoval, JournalConfigs
  <2>3. PhaseStateValid(journal)'
    BY <1>12, <2>1 DEF PhaseStateValid, SameRemoval, JournalConfigs
  <2> QED
    BY <1>12, <2>1, <2>2, <2>3 DEF JournalConfigs, SameRemoval
<1>13. CASE JournalCommit(p)
  <2>1. /\ SameRemoval(journal, journal') /\ journal'.phase = "commit"
        /\ journal'.globalAfter = journal.globalAfter
        /\ journal'.projectAfter = journal.projectAfter
        /\ UNCHANGED <<config, selected, profiles, tombs, legacy>>
    BY <1>13 DEF JournalCommit, SameRemoval, Journal
  <2>2. Readable(journal)' /\ OwnRemovals'
    BY <1>13, <2>1 DEF Readable, OwnRemovals, SameRemoval, JournalCommit
  <2>3. PhaseStateValid(journal)'
    BY <1>13, <2>1 DEF PhaseStateValid, SameRemoval, JournalCommit
  <2> QED
    BY <1>13, <2>1, <2>2, <2>3 DEF JournalCommit, SameRemoval
<1>14. CASE UnlinkTombstone(p)
  BY <1>14 DEF UnlinkTombstone, PhaseStateValid, Readable, OwnRemovals, Dir
<1>15. CASE ForgetJournal(p)
  BY <1>15 DEF ForgetJournal, OwnRemovals
<1> QED  BY <1>1, <1>2, <1>3, <1>4, <1>5, <1>6, <1>7, <1>8, <1>9, <1>10, <1>11, <1>12,
            <1>13, <1>14, <1>15 DEF Remove

(* Every step of the service in such use.                                *)
LEMMA StepRecovers ==
  ASSUME Coping, Inv, RecoveryInvariant, [Next]_vars
  PROVE  RecoveryInvariant'
<1> USE DEF Inv, Safe, TypeOK, LockInvariant, JournalInvariant, RecoveryInvariant, Matched, Early,
            Goto, files, Held, RecoveryPoints, RemovalPoints
<1>1. ASSUME NEW p \in Proc, NEW r \in Requests, Start(p, r)
      PROVE  RecoveryInvariant'
  BY <1>1, FilesMatch DEF Start
<1>2. ASSUME NEW p \in Proc, Lock(p)
      PROVE  RecoveryInvariant'
  BY <1>2, FilesMatch DEF Lock, AfterRecovery
<1>3. ASSUME NEW p \in Proc, LockRefused(p)
      PROVE  RecoveryInvariant'
  BY <1>3 DEF LockRefused
<1>4. ASSUME NEW p \in Proc, Work(p)
      PROVE  RecoveryInvariant'
  BY <1>2, <1>3, <1>4, RecoverRecovers, MigrateRecovers, OperateRecovers, RemoveRecovers DEF Work
<1>5. ASSUME NEW p \in Proc, pc[p] \notin Unmatched, Refuse(p)
      PROVE  RecoveryInvariant'
  <2>1. lock = p /\ journal # None => pc[p] \in Matched
    BY <1>5 DEF Unmatched
  <2> QED
    BY <1>5, <2>1, RefuseRecovers
<1>6. ASSUME NEW p \in Proc, Crash(p)
      PROVE  RecoveryInvariant'
  BY <1>5, <1>6 DEF Crash, Coping
<1>7. ASSUME NEW p \in Proc, WriteFails(p)
      PROVE  RecoveryInvariant'
  <2>1. CASE pc[p] \in RollsBack
    <3>1. pc[p] \in Matched
      BY <1>7, <2>1 DEF WriteFails, RollsBack, Coping, Unmatched
    <3> QED
      BY <1>7, <2>1, <3>1, FilesMatch DEF WriteFails, RollBack
  <2>2. CASE pc[p] \notin RollsBack
    BY <1>5, <1>7, <2>2 DEF WriteFails, Coping
  <2> QED  BY <2>1, <2>2
<1>8. CASE UpdateSettings
  BY <1>8 DEF UpdateSettings, Coping
<1>9. CASE UNCHANGED vars
  BY <1>9, FilesMatch DEF vars
<1> QED  BY <1>1, <1>4, <1>6, <1>7, <1>8, <1>9 DEF Next

(* Where no crash and no failure falls between a change and the phase that *)
(* tells of it, the journal a process leaves behind is one that the next   *)
(* transaction can act on: it rolls back or finishes (service.go:666-721). *)
THEOREM LeftJournalsRecover ==
  ASSUME Coping
  PROVE  Init /\ OwnRemovals /\ [][Next]_vars => []JournalRecoverable
<1>1. Init /\ OwnRemovals => RecoveryInvariant
  <2> SUFFICES ASSUME Init, OwnRemovals PROVE RecoveryInvariant
    OBVIOUS
  <2>1. config.complete = "true" => config.exists
    <3>1. config = NoConfig \/ config = [NoConfig EXCEPT !.exists = TRUE, !.complete = "true"]
      BY DEF Init
    <3>2. NoConfig.complete = "absent"
      BY DEF NoConfig
    <3>3. [NoConfig EXCEPT !.exists = TRUE, !.complete = "true"].exists
      BY DEF NoConfig
    <3> QED
      BY <3>1, <3>2, <3>3
  <2>2. \A p \in Proc : pc[p] = "idle" /\ src[p] = None
    BY DEF Init
  <2>3. journal = None
    BY DEF Init
  <2> QED
    BY <2>1, <2>2, <2>3 DEF RecoveryInvariant, Matched, Early
<1>2. Inv /\ RecoveryInvariant /\ [Next]_vars => RecoveryInvariant'
  BY StepRecovers
<1>3. RecoveryInvariant => JournalRecoverable
  BY DEF RecoveryInvariant, JournalRecoverable
<1> QED
  BY <1>1, <1>2, <1>3, AlwaysInv, PTL DEF Spec
-------------------------------------------------------------------------------
(* The use in which no selection is lost: a project's selection and its    *)
(* reference are not torn apart by a failure between the two writes of     *)
(* "use" (service.go:238-249); nobody resolves another name in a project;  *)
(* and a project in which a profile is removed selects no other.           *)
Faithful ==
  /\ "register" \notin CrashAt \cup FailAt
  /\ \A r \in Requests : r.op = "resolve" /\ r.root # None => r.name = None
  /\ \A r \in ProjectRemovals, s \in Requests :
       s.root = r.root /\ s.op \in {"use", "remove"} => s.name \in {r.name, Lab}

(* No project arrives with a selection its own directory does not store.   *)
OwnSelections == \A q \in Project : selected[q] # None => selected[q] \in profiles[q]

GlobalOne(n) == [env |-> n, source |-> "global"]

(* A selection is of the project's own profile, or of one of the lab home  *)
(* that the project's reference protects from removal.                     *)
Backed(n, own, shared, ref) ==
  n \in Name => n \in own \/ (n \in shared /\ ref = GlobalOne(n))

(* What a project that registers now has selected, its reference will      *)
(* protect; of the others, what will be seen is protected.                 *)
SelectionsBacked ==
  \A q \in Project :
    /\ (\A p \in Proc : pc[p] = "register" => req[p].root # q) =>
         Backed(SettledSelection[q], Settled(q), Settled(Global), SettledConfig.refs[q])
    /\ \A p \in Proc : pc[p] = "register" /\ req[p].root = q =>
         Backed(selected[q], profiles[q], profiles[Global], found[p])

OwnKept ==
  \A r \in ProjectRemovals :
    SettledSelection[r.root] \in Name \ {r.name} => SettledSelection[r.root] \in Settled(r.root)

(* What a removal knows of the references, and has made of them.           *)
RemovalKeeps(p) ==
  /\ pc[p] = "xIntent" /\ src[p] = "global" => ~Referenced(req[p].name)
  /\ pc[p] \in RemovalPoints \ {"xIntent"} /\ src[p] = "global" =>
       \A q \in Project : journal.globalPrior.refs[q] # GlobalOne(journal.name)
  /\ pc[p] \in Early \cup Late \cup {"xCommit"} =>
       \A q \in Project \ {journal.root} : config.refs[q] = journal.globalPrior.refs[q]
  /\ pc[p] = "xRegister" =>
       Backed(selected[req[p].root], profiles[req[p].root], profiles[Global], found[p])
  /\ pc[p] \in {"xConfigs", "xCommit"} /\ req[p].root # None =>
       Backed(selected[req[p].root], profiles[req[p].root], profiles[Global],
              config.refs[req[p].root])
  /\ pc[p] \in {"rProject", "rTomb", "rForget"} /\ journal.phase # "commit" =>
       config = journal.globalPrior

SelectionInvariant ==
  SelectionsBacked /\ OwnKept /\ \A p \in Proc : RemovalKeeps(p)
(* What the next transaction will see of selections, profiles, references. *)
seen == <<SettledProfiles, SettledSelection, SettledConfig.refs>>

Registering(q) == \E p \in Proc : pc[p] = "register" /\ req[p].root = q

LEMMA SeenFiles ==
  ASSUME UNCHANGED files
  PROVE  UNCHANGED seen
BY DEF files, seen, SettledProfiles, SettledSelection, SettledConfig, Settled, Pending, JournalDir

(* What is seen, directory by directory and project by project.          *)
LEMMA SeenIs ==
  ASSUME UNCHANGED seen
  PROVE  /\ \A d \in Dir : Settled(d)' = Settled(d)
         /\ \A q \in Project : /\ SettledSelection'[q] = SettledSelection[q]
                               /\ SettledConfig.refs'[q] = SettledConfig.refs[q]
<1>1. \A d \in Dir : SettledProfiles[d] = Settled(d) /\ SettledProfiles'[d] = Settled(d)'
  BY DEF SettledProfiles
<1> QED
  BY <1>1 DEF seen

(* Only one process is in a transaction.                                   *)
LEMMA AloneInside ==
  ASSUME Safe, NEW p \in Proc, pc[p] \in Held, NEW r \in Proc, pc[r] \in Held
  PROVE  r = p
BY DEF Safe, LockInvariant

(* A step that changes nothing of what is seen, of a process that does not *)
(* register.                                                               *)
LEMMA SeenSelections ==
  ASSUME Safe, SelectionInvariant, NEW p \in Proc, UNCHANGED seen,
         pc[p] # "register", pc'[p] # "register",
         pc[p] \in Held \/ UNCHANGED <<selected, profiles>>,
         \A r \in Proc \ {p} : pc'[r] = pc[r] /\ req'[r] = req[r] /\ found'[r] = found[r]
  PROVE  SelectionsBacked' /\ OwnKept'
<1>1. /\ \A d \in Dir : Settled(d)' = Settled(d)
      /\ \A q \in Project : /\ SettledSelection'[q] = SettledSelection[q]
                            /\ SettledConfig.refs'[q] = SettledConfig.refs[q]
  BY SeenIs
<1>2. Global \in Dir /\ Project \subseteq Dir
  BY DEF Dir
<1>3. \A r \in ProjectRemovals : r.root \in Project
  BY DEF ProjectRemovals, Request
<1>4. OwnKept'
  BY <1>1, <1>2, <1>3 DEF OwnKept, SelectionInvariant
<1>5. \A r \in Proc : pc'[r] = "register" =>
        r # p /\ pc[r] = "register" /\ req'[r] = req[r] /\ found'[r] = found[r]
  OBVIOUS
<1>6. \A r \in Proc : pc[r] = "register" => pc'[r] = "register" /\ req'[r] = req[r]
  OBVIOUS
<1>7. ASSUME NEW q \in Project, \A r \in Proc : pc'[r] = "register" => req'[r].root # q
      PROVE  Backed(SettledSelection[q], Settled(q), Settled(Global), SettledConfig.refs[q])'
  <2>1. Backed(SettledSelection[q], Settled(q), Settled(Global), SettledConfig.refs[q])
    BY <1>6, <1>7 DEF SelectionInvariant, SelectionsBacked
  <2> QED
    BY <1>1, <1>2, <2>1 DEF Backed
<1>8. ASSUME NEW q \in Project, NEW r \in Proc, pc'[r] = "register", req'[r].root = q
      PROVE  Backed(selected[q], profiles[q], profiles[Global], found[r])'
  <2>1. Backed(selected[q], profiles[q], profiles[Global], found[r])
    BY <1>5, <1>8 DEF SelectionInvariant, SelectionsBacked
  <2>2. pc[p] \notin Held
    BY <1>5, <1>8, AloneInside DEF Held
  <2> QED
    BY <1>5, <1>8, <2>1, <2>2 DEF Backed
<1> QED
  BY <1>4, <1>7, <1>8 DEF SelectionsBacked

(* Nor of the processes that are at a point outside a transaction.         *)
LEMMA OthersKeep ==
  ASSUME Safe, NEW p \in Proc, NEW r \in Proc \ {p}, RemovalKeeps(r), pc[p] \in Held,
         pc'[r] = pc[r]
  PROVE  RemovalKeeps(r)'
<1>1. pc[r] \notin Held
  BY AloneInside
<1> QED
  BY <1>1 DEF RemovalKeeps, Held, RemovalPoints, RecoveryPoints, Early, Late

(* A process that leaves, with the files as they are, keeps what was known.*)
LEMMA RefuseKeepsSelection ==
  ASSUME Inv, SelectionInvariant, NEW p \in Proc, Refuse(p), pc[p] # "register"
  PROVE  SelectionInvariant'
<1>1. /\ pc'[p] = "idle" /\ UNCHANGED files
      /\ \A r \in Proc \ {p} : /\ pc'[r] = pc[r] /\ req'[r] = req[r] /\ found'[r] = found[r]
                               /\ src'[r] = src[r]
  BY DEF Refuse, Leave, Goto, Inv, Safe, TypeOK
<1>2. SelectionsBacked' /\ OwnKept'
  BY <1>1, SeenFiles, SeenSelections DEF Inv, files
<1>3. \A r \in Proc : RemovalKeeps(r)'
  BY <1>1 DEF SelectionInvariant, RemovalKeeps, files, RemovalPoints, Early, Late, Referenced
<1> QED
  BY <1>2, <1>3 DEF SelectionInvariant

(* Recovery restores the references as well.                               *)
LEMMA RecoverKeepsSelection ==
  ASSUME Inv, SelectionInvariant, NEW p \in Proc, Recover(p)
  PROVE  SelectionInvariant'
<1>1. CASE RecoveryRefused(p)
  BY <1>1, RefuseKeepsSelection DEF RecoveryRefused
<1>2. CASE ~RecoveryRefused(p)
  <2>0. pc[p] \in RecoveryPoints \cup {"recover"} /\ pc[p] \in Held /\ RemovalKeeps(p)
    BY <1>2 DEF Recover, RecoverBegin, RecoverUnlink, RestoreGlobal, RestoreProject,
       RestoreProfile, RecoverForget, Advance, RecoveryPoints, Held, SelectionInvariant
  <2>1. /\ pc'[p] \notin RemovalPoints \cup {"register"}
        /\ \A r \in Proc \ {p} : pc'[r] = pc[r] /\ req'[r] = req[r] /\ found'[r] = found[r]
    BY <1>2 DEF Recover, RecoverBegin, RecoverUnlink, RestoreGlobal, RestoreProject,
       RestoreProfile, RecoverForget, Recovered, AfterRecovery, Advance, Goto, Leave,
       RemovalPoints, Inv, Safe, TypeOK
  <2>2. SettledConfig.refs' = SettledConfig.refs
    <3> USE DEF SettledConfig, Pending, Inv, Safe, JournalInvariant, RemovalInvariant, Advance,
                RecoveryPoints
    <3>1. CASE RecoverForget(p)
      BY <2>0, <3>1 DEF RecoverForget, RemovalKeeps
    <3>2. CASE RestoreGlobal(p)
      BY <3>2 DEF RestoreGlobal
    <3> QED
      BY <1>2, <3>1, <3>2 DEF Recover, RecoverBegin, RecoverUnlink, RestoreProject,
         RestoreProfile, files
  <2>3. UNCHANGED seen
    BY <2>2, RecoverSimulates DEF seen, settled
  <2>4. SelectionsBacked' /\ OwnKept'
    BY <2>0, <2>1, <2>3, SeenSelections DEF Inv, RecoveryPoints
  <2>5. pc'[p] \in {"rProject", "rTomb", "rForget"} /\ journal'.phase # "commit" =>
          config' = journal'.globalPrior
    BY <1>2, <2>0 DEF Recover, RecoverBegin, RecoverUnlink, RestoreGlobal, RestoreProject,
       RestoreProfile, RecoverForget, Recovered, AfterRecovery, Advance, Goto, Leave, Inv, Safe,
       TypeOK, RemovalKeeps, RemovalInvariant
  <2>6. RemovalKeeps(p)'
    BY <2>1, <2>5 DEF RemovalKeeps, RemovalPoints, Early, Late
  <2>7. \A r \in Proc : RemovalKeeps(r)'
    BY <2>0, <2>1, <2>6, OthersKeep DEF Inv, SelectionInvariant
  <2> QED
    BY <2>4, <2>7 DEF SelectionInvariant
<1> QED
  BY <1>1, <1>2

(* Migrating active-env touches no selection and no reference.           *)
LEMMA MigrateKeepsSelection ==
  ASSUME Inv, SelectionInvariant, NEW p \in Proc, Migrate(p)
  PROVE  SelectionInvariant'
<1>1. CASE MigrationRefused(p)
  BY <1>1, RefuseKeepsSelection DEF MigrationRefused
<1>2. CASE ~MigrationRefused(p)
  <2>1. /\ pc[p] \in {"migrate", "mDelete"} /\ pc'[p] \in {"mDelete", "body"} /\ pc[p] \in Held
        /\ \A r \in Proc \ {p} : pc'[r] = pc[r] /\ req'[r] = req[r] /\ found'[r] = found[r]
        /\ UNCHANGED <<selected, profiles, tombs, journal>> /\ config.refs' = config.refs
    BY <1>2 DEF Migrate, MigrateActive, AlreadyMigrated, DeleteLegacy, Advance, Goto, SetActive,
       Inv, Safe, TypeOK, Config, Held, files
  <2>2. UNCHANGED seen
    BY <2>1 DEF seen, SettledProfiles, SettledSelection, SettledConfig, Settled, Pending, JournalDir
  <2>3. SelectionsBacked' /\ OwnKept'
    BY <2>1, <2>2, SeenSelections DEF Inv
  <2>4. RemovalKeeps(p)'
    BY <2>1 DEF RemovalKeeps, RemovalPoints, Early, Late
  <2>5. \A r \in Proc : RemovalKeeps(r)'
    BY <2>1, <2>4, OthersKeep DEF Inv, SelectionInvariant
  <2> QED
    BY <2>3, <2>5 DEF SelectionInvariant
<1> QED
  BY <1>1, <1>2

(* Without a journal the files are what is seen.                           *)
LEMMA NoJournalSeen ==
  ASSUME TypeOK, journal = None
  PROVE  /\ \A d \in Dir : Settled(d) = profiles[d]
         /\ \A q \in Project : SettledSelection[q] = selected[q]
         /\ SettledConfig = config
BY DEF TypeOK, Settled, SettledSelection, SettledConfig, Pending

LEMMA NoJournalSeenNext ==
  ASSUME TypeOK', journal' = None
  PROVE  /\ \A d \in Dir : Settled(d)' = profiles'[d]
         /\ \A q \in Project : SettledSelection'[q] = selected'[q]
         /\ SettledConfig' = config'
BY DEF TypeOK, Settled, SettledSelection, SettledConfig, Pending

(* A transaction without a journal: what its files have to say.            *)
LEMMA PlainStep ==
  ASSUME Inv, Inv', SelectionInvariant, NEW p \in Proc, pc[p] \in Held,
         journal = None, journal' = None,
         pc'[p] \notin RemovalPoints \cup RecoveryPoints,
         \A r \in Proc \ {p} : pc'[r] = pc[r] /\ req'[r] = req[r] /\ found'[r] = found[r],
         \A q \in Project : 
           Backed(selected'[q], profiles'[q], profiles'[Global],
                  IF pc'[p] = "register" /\ req'[p].root = q THEN found'[p] ELSE config'.refs[q]),
         \A r \in ProjectRemovals :
           selected'[r.root] \in Name \ {r.name} => selected'[r.root] \in profiles'[r.root]
  PROVE  SelectionInvariant'
<1>1. /\ \A d \in Dir : Settled(d)' = profiles'[d]
      /\ \A q \in Project : SettledSelection'[q] = selected'[q]
      /\ SettledConfig' = config'
  BY NoJournalSeenNext DEF Inv, Safe
<1>2. \A r \in Proc : pc'[r] = "register" => r = p
  BY AloneInside DEF Inv, Held
<1>3. Global \in Dir /\ Project \subseteq Dir /\ \A r \in ProjectRemovals : r.root \in Project
  BY DEF Dir, ProjectRemovals, Request
<1>4. OwnKept'
  BY <1>1, <1>3 DEF OwnKept
<1>5. ASSUME NEW q \in Project, \A r \in Proc : pc'[r] = "register" => req'[r].root # q
      PROVE  Backed(SettledSelection[q], Settled(q), Settled(Global), SettledConfig.refs[q])'
  BY <1>1, <1>3, <1>5 DEF Backed
<1>6. ASSUME NEW q \in Project, NEW r \in Proc, pc'[r] = "register", req'[r].root = q
      PROVE  Backed(selected[q], profiles[q], profiles[Global], found[r])'
  BY <1>2, <1>6 DEF Backed
<1>7. RemovalKeeps(p)'
  BY DEF RemovalKeeps, RemovalPoints, RecoveryPoints, Early, Late
<1>8. \A r \in Proc : RemovalKeeps(r)'
  BY <1>7, OthersKeep DEF Inv, SelectionInvariant
<1> QED
  BY <1>4, <1>5, <1>6, <1>8 DEF SelectionInvariant, SelectionsBacked

(* The operations that are not removals, in faithful use.                *)
LEMMA OperateKeepsSelection ==
  ASSUME Faithful, Inv, Inv', SelectionInvariant, NEW p \in Proc, Operate(p)
  PROVE  SelectionInvariant'
<1>1. CASE ResolveOnly(p) \/ UseRefused(p) \/ SaveRefused(p)
  BY <1>1, RefuseKeepsSelection DEF ResolveOnly, UseRefused, SaveRefused, Resolving, Using
<1>2. CASE ~(ResolveOnly(p) \/ UseRefused(p) \/ SaveRefused(p))
  <2>1. /\ pc[p] \in {"body", "register"} /\ pc[p] \in Held
        /\ pc'[p] \in {"register", "lock", "idle"}
        /\ pc'[p] \notin RemovalPoints \cup RecoveryPoints
        /\ \A r \in Proc \ {p} : pc'[r] = pc[r] /\ req'[r] = req[r] /\ found'[r] = found[r]
    BY <1>2 DEF Operate, ResolveProfile, Resolving, RegisterProject, UseInProject, Using,
       UseGlobally, SaveProfile, Goto, Leave, Inv, Safe, TypeOK, Held, RemovalPoints, RecoveryPoints
  <2>2. journal = None /\ journal' = None
    BY <1>2, <2>1 DEF Operate, ResolveProfile, RegisterProject, UseInProject, UseGlobally,
       SaveProfile, files, Inv, Safe, JournalInvariant
  <2>3. /\ \A d \in Dir : Settled(d) = profiles[d]
        /\ \A q \in Project : SettledSelection[q] = selected[q]
        /\ SettledConfig = config
    BY <2>2, NoJournalSeen DEF Inv, Safe
  <2>4. Global \in Dir /\ Project \subseteq Dir /\ \A r \in ProjectRemovals : r.root \in Project
    BY DEF Dir, ProjectRemovals, Request
  <2>5. \A q \in Project : ~(pc[p] = "register" /\ req[p].root = q) =>
          Backed(selected[q], profiles[q], profiles[Global], config.refs[q])
    <3>1. \A r \in Proc : pc[r] = "register" => r = p
      BY <2>1, AloneInside DEF Inv, Held
    <3> QED
      BY <2>3, <2>4, <3>1 DEF SelectionInvariant, SelectionsBacked
  <2>6. \A r \in ProjectRemovals :
          selected[r.root] \in Name \ {r.name} => selected[r.root] \in profiles[r.root]
    BY <2>3, <2>4 DEF SelectionInvariant, OwnKept
  <2>7. req[p] \in Requests /\ req[p] \in Request
    BY <2>1, PointTypes DEF Inv, Safe, StepInvariant
  <2> DEFINE root == req[p].root
  <2>8. CASE ResolveProfile(p)
    <3>1. root \in Project /\ pc[p] = "body" /\ pc'[p] = "register" /\ req'[p].root = root
          /\ found'[p] = Resolved(Wanted(req[p]), root) /\ Resolves(Wanted(req[p]), root)
          /\ UNCHANGED <<config, selected, profiles>>
      BY <2>7, <2>8 DEF ResolveProfile, Resolving, Request, Goto, files, Inv, Safe, TypeOK
    <3>2. selected[root] \in Name =>
            Wanted(req[p]) = selected[root] \/ selected[root] \in profiles[root]
      <4>1. CASE req[p].op = "remove"
        <5>1. req[p] \in ProjectRemovals /\ Wanted(req[p]) = req[p].name
          BY <2>7, <3>1, <4>1 DEF ProjectRemovals, Wanted, Request
        <5> QED
          BY <2>6, <5>1
      <4>2. CASE req[p].op # "remove"
        <5>1. req[p].op = "list" \/ (req[p].op = "resolve" /\ req[p].name = None)
          <6>1. req[p].op \in {"list", "resolve"} /\ req[p].root # None
            BY <2>8, <3>1, <4>2 DEF ResolveProfile, Resolving
          <6> QED
            BY <2>7, <6>1 DEF Faithful
        <5> QED
          BY <3>1, <5>1 DEF Wanted, ActiveName
      <4> QED  BY <4>1, <4>2
    <3>3. Backed(selected[root], profiles[root], profiles[Global], found'[p])
      BY <3>1, <3>2 DEF Backed, Resolved, Resolves, SourceOf, Implicit, GlobalOne
    <3> QED
      BY <2>1, <2>2, <2>5, <2>6, <3>1, <3>3, PlainStep
  <2>9. CASE RegisterProject(p)
    <3>1. /\ root \in Project /\ pc[p] = "register" /\ pc'[p] # "register"
          /\ config' = Register(config, root, found[p]) /\ UNCHANGED <<selected, profiles>>
      BY <2>1, <2>9 DEF RegisterProject, Inv, Safe, TypeOK, StepInvariant, Goto, Leave
    <3>2. /\ config'.refs = [config.refs EXCEPT ![root] = found[p]]
          /\ config.refs \in [Project -> Resolution \cup {None}]
      BY <3>1 DEF Register, Config, Inv, Safe, TypeOK
    <3>3. Backed(selected[root], profiles[root], profiles[Global], found[p])
      BY <3>1 DEF SelectionInvariant, SelectionsBacked
    <3>4. ASSUME NEW q \in Project
          PROVE  Backed(selected'[q], profiles'[q], profiles'[Global], config'.refs[q])
      BY <2>5, <3>1, <3>2, <3>3
    <3> QED
      BY <2>1, <2>2, <2>6, <3>1, <3>4, PlainStep
  <2>10. CASE UseInProject(p)
    <3>1. /\ root \in Project /\ pc[p] = "body" /\ pc'[p] = "register" /\ req'[p].root = root
          /\ req[p].op = "use" /\ req[p].name \in Name \cup {Lab}
          /\ selected' = [selected EXCEPT ![root] = req[p].name]
          /\ found'[p] = Resolved(req[p].name, root) /\ Resolves(req[p].name, root)
          /\ UNCHANGED <<config, profiles>>
      BY <2>7, <2>10 DEF UseInProject, Using, Request, Goto, Inv, Safe, TypeOK
    <3>2. selected'[root] = req[p].name /\ \A q \in Project \ {root} : selected'[q] = selected[q]
      BY <3>1 DEF Inv, Safe, TypeOK
    <3>3. Backed(selected'[root], profiles[root], profiles[Global], found'[p])
      BY <3>1, <3>2 DEF Backed, Resolved, Resolves, SourceOf, Implicit, GlobalOne
    <3>4. \A r \in ProjectRemovals :
            selected'[r.root] \in Name \ {r.name} => selected'[r.root] \in profiles[r.root]
      <4> SUFFICES ASSUME NEW r \in ProjectRemovals
                   PROVE  selected'[r.root] \in Name \ {r.name} =>
                            selected'[r.root] \in profiles[r.root]
        OBVIOUS
      <4>1. CASE r.root = root
        BY <2>7, <3>1, <3>2, <4>1 DEF Faithful
      <4>2. CASE r.root # root
        BY <2>4, <2>6, <3>2, <4>2
      <4> QED  BY <4>1, <4>2
    <3>5. ASSUME NEW q \in Project
          PROVE  Backed(selected'[q], profiles'[q], profiles'[Global],
                        IF pc'[p] = "register" /\ req'[p].root = q THEN found'[p]
                        ELSE config'.refs[q])
      BY <2>5, <3>1, <3>2, <3>3
    <3> QED
      BY <2>1, <2>2, <3>1, <3>4, <3>5, PlainStep
  <2>11. CASE UseGlobally(p)
    <3>1. pc[p] = "body" /\ pc'[p] = "idle" /\ config'.refs = config.refs
          /\ UNCHANGED <<selected, profiles>>
      BY <2>11 DEF UseGlobally, Using, SetActive, Leave, Goto, Inv, Safe, TypeOK, Config
    <3> QED
      BY <2>1, <2>2, <2>5, <2>6, <3>1, PlainStep
  <2>12. CASE SaveProfile(p)
    <3>1. pc[p] = "body" /\ pc'[p] = "idle" /\ UNCHANGED <<config, selected>>
      BY <2>12 DEF SaveProfile, Leave, Goto, Inv, Safe, TypeOK
    <3>2. \A d \in Dir : profiles[d] \subseteq profiles'[d]
      BY <2>12 DEF SaveProfile, Inv, Safe, TypeOK
    <3>3. ASSUME NEW q \in Project
          PROVE  Backed(selected'[q], profiles'[q], profiles'[Global], config'.refs[q])
      BY <2>4, <2>5, <3>1, <3>2 DEF Backed
    <3>4. \A r \in ProjectRemovals :
            selected'[r.root] \in Name \ {r.name} => selected'[r.root] \in profiles'[r.root]
      BY <2>4, <2>6, <3>1, <3>2
    <3> QED
      BY <2>1, <2>2, <3>1, <3>3, <3>4, PlainStep
  <2> QED
    BY <1>2, <2>8, <2>9, <2>10, <2>11, <2>12 DEF Operate
<1> QED
  BY <1>1, <1>2

(* A removal shows with the write of "commit".                             *)
LEMMA RemoveSeen ==
  ASSUME Inv, NEW p \in Proc, Remove(p), ~JournalCommit(p)
  PROVE  UNCHANGED seen
<1> USE DEF seen, SettledProfiles, SettledSelection, SettledConfig,
            Settled, Pending, Inv, Safe, TypeOK, JournalInvariant, TombInvariant,
            TombstonesJournaled, RemovalInvariant, Early, Late, JournalDir, RemovalDir,
            Advance, RecoveryPoints, RemovalPoints
<1>1. CASE RemoveBegin(p)
  BY <1>1, SeenFiles DEF RemoveBegin, files
<1>2. CASE RemoveRefused(p)
  BY <1>2, SeenFiles DEF RemoveRefused, Refuse
<1>3. CASE JournalIntent(p)
  BY <1>3 DEF JournalIntent, Journal
<1>4. CASE RenameToTombstone(p)
  BY <1>4 DEF RenameToTombstone, Journal, Dir
<1>5. CASE JournalTombstoned(p) \/ JournalConfigs(p)
  <2>1. UNCHANGED settled
    BY <1>5, JournalWritesSettleNothing
  <2>2. /\ journal'.globalPrior = journal.globalPrior
        /\ journal'.phase \in {"tombstoned", "configs"}
        /\ journal # None /\ journal.phase # "commit" /\ journal' # None
    <3>1. journal \in Journal /\ journal.phase # "commit"
      BY <1>5 DEF JournalTombstoned, JournalConfigs
    <3>2. CASE JournalTombstoned(p)
      BY <3>1, <3>2, PhaseStep DEF JournalTombstoned, Phases, SameRemoval
    <3>3. CASE JournalConfigs(p)
      <4>1. Safe'
        BY StepSafe DEF Next, Work
      <4>2. journal' \in Journal
        BY <3>3, <4>1 DEF JournalConfigs, Goto
      <4>3. /\ journal'.globalPrior = journal.globalPrior /\ journal'.phase = "configs"
        BY <3>1, <3>3 DEF JournalConfigs, Journal
      <4> QED
        BY <3>1, <4>2, <4>3
    <3> QED
      BY <1>5, <3>2, <3>3
  <2> QED
    BY <2>1, <2>2 DEF settled
<1>6. CASE ResetActive(p)
  BY <1>6 DEF ResetActive, Journal
<1>7. CASE FallBackToGlobal(p)
  BY <1>7, SeenFiles DEF FallBackToGlobal, files
<1>8. CASE ClearSelection(p)
  BY <1>8 DEF ClearSelection
<1>9. CASE KeepSelection(p)
  BY <1>9, SeenFiles DEF KeepSelection, files
<1>10. CASE ResolveRest(p)
  BY <1>10, SeenFiles DEF ResolveRest, files
<1>11. CASE RegisterRest(p)
  BY <1>11 DEF RegisterRest
<1>12. CASE UnlinkTombstone(p)
  BY <1>12 DEF UnlinkTombstone
<1>13. CASE ForgetJournal(p)
  BY <1>13 DEF ForgetJournal
<1> QED  BY <1>1, <1>2, <1>3, <1>4, <1>5, <1>6, <1>7, <1>8, <1>9, <1>10, <1>11, <1>12,
            <1>13 DEF Remove

(* What the removal works with is what its request, its files and its      *)
(* references say, point by point.                                         *)
LEMMA RemoveStepKeeps ==
  ASSUME Inv, SelectionInvariant, NEW p \in Proc, Remove(p), ~JournalCommit(p), ~RemoveRefused(p)
  PROVE  RemovalKeeps(p)'
<1> USE DEF Inv, Safe, TypeOK, StepInvariant, JournalInvariant, RemovalInvariant,
            SelectionInvariant, Early, Late, JournalDir, RemovalDir, Goto, Advance,
            RecoveryPoints, RemovalPoints
<1>0. RemovalKeeps(p)
  OBVIOUS
<1>1. CASE RemoveBegin(p)
  BY <1>1 DEF RemoveBegin, Removing, Removable, RemovalRefused, Referenced, RemovalKeeps, files
<1>2. CASE JournalIntent(p)
  <2>1. /\ journal'.globalPrior = config /\ journal'.name = req[p].name
        /\ pc[p] = "xIntent" /\ pc'[p] = "xRename" /\ UNCHANGED <<config, req, src>>
    BY <1>2 DEF JournalIntent
  <2> QED
    BY <1>0, <2>1 DEF RemovalKeeps, Referenced, GlobalOne
<1>3. CASE RenameToTombstone(p)
  BY <1>0, <1>3 DEF RenameToTombstone, RemovalKeeps
<1>4. CASE JournalTombstoned(p)
  <2>1. /\ journal'.globalPrior = journal.globalPrior /\ journal'.name = journal.name
        /\ journal'.root = journal.root /\ pc[p] = "xTombstoned" /\ pc'[p] = "xActive"
        /\ UNCHANGED <<config, req, src>>
    BY <1>4 DEF JournalTombstoned, Journal
  <2> QED
    BY <1>0, <2>1 DEF RemovalKeeps
<1>5. CASE ResetActive(p)
  <2>1. /\ config'.refs = config.refs /\ pc[p] = "xActive" /\ pc'[p] \in {"xConfigs", "xProject"}
        /\ (pc'[p] = "xConfigs" => req[p].root = None)
        /\ UNCHANGED <<journal, req, src>>
    BY <1>5 DEF ResetActive, SetActive, Config
  <2> QED
    BY <1>0, <2>1 DEF RemovalKeeps
<1>6. CASE FallBackToGlobal(p)
  BY <1>0, <1>6 DEF FallBackToGlobal, SelectionRemoved, RemovalKeeps, Backed, GlobalOne, files
<1>7. CASE ClearSelection(p)
  BY <1>0, <1>7 DEF ClearSelection, SelectionRemoved, RemovalKeeps
<1>8. CASE KeepSelection(p)
  BY <1>0, <1>8 DEF KeepSelection, RemovalKeeps, files
<1>9. CASE ResolveRest(p)
  <2> DEFINE root == req[p].root
             n == ActiveName(root)
  <2>1. /\ pc[p] = "xResolve" /\ pc'[p] = "xRegister" /\ UNCHANGED <<files, req, src>>
        /\ root \in Project /\ dirLock[RemovalDir(p)] = p
        /\ CanOpen(DirsOpened(n, root)) /\ found'[p] = Resolved(n, root)
    BY <1>9 DEF ResolveRest
  <2>2. selected[root] \in Name => n = selected[root] /\ ~Implicit(n)
    BY <2>1 DEF ActiveName, Implicit
  <2>3. ~Implicit(n) => SourceOf(n, root) = "project"
    <3> HIDE DEF n
    <3>1. CASE RemovalDir(p) = root
      BY <2>1, <3>1 DEF CanOpen, DirsOpened, Dir
    <3>2. CASE RemovalDir(p) = Global
      BY <2>1, <3>2 DEF CanOpen, DirsOpened, Dir
    <3> QED  BY <3>1, <3>2
  <2>4. selected[root] \in Name => selected[root] \in profiles[root]
    BY <2>2, <2>3 DEF SourceOf
  <2> QED
    BY <1>0, <2>1, <2>4 DEF RemovalKeeps, Backed, files
<1>10. CASE RegisterRest(p)
  <2>1. /\ pc[p] = "xRegister" /\ pc'[p] = "xConfigs" /\ req[p].root \in Project
        /\ journal.root = req[p].root /\ UNCHANGED <<selected, profiles, journal, req, src>>
    BY <1>10 DEF RegisterRest
  <2>2. config'.refs = [config.refs EXCEPT ![req[p].root] = found[p]]
        /\ config.refs \in [Project -> Resolution \cup {None}]
    BY <1>10 DEF RegisterRest, Register, Config
  <2> QED
    BY <1>0, <2>1, <2>2 DEF RemovalKeeps
<1>11. CASE JournalConfigs(p)
  <2>1. /\ journal'.globalPrior = journal.globalPrior /\ journal'.name = journal.name
        /\ journal'.root = journal.root /\ pc[p] = "xConfigs" /\ pc'[p] = "xCommit"
        /\ UNCHANGED <<config, selected, profiles, req, src>>
    BY <1>11 DEF JournalConfigs, Journal
  <2> QED
    BY <1>0, <2>1 DEF RemovalKeeps
<1>12. CASE UnlinkTombstone(p)
  BY <1>0, <1>12 DEF UnlinkTombstone, RemovalKeeps
<1>13. CASE ForgetJournal(p)
  BY <1>13 DEF ForgetJournal, Leave, RemovalKeeps
<1> QED  BY <1>1, <1>2, <1>3, <1>4, <1>5, <1>6, <1>7, <1>8, <1>9, <1>10, <1>11, <1>12,
            <1>13 DEF Remove

(* With the write of "commit" the files are what is seen.                  *)
LEMMA CommitKeepsSelection ==
  ASSUME Faithful, Inv, Inv', SelectionInvariant, NEW p \in Proc, JournalCommit(p)
  PROVE  SelectionInvariant'
<1> PICK j, n, root : j = journal /\ n = journal.name /\ root = journal.root
  OBVIOUS
<1>1. /\ j \in Journal /\ j.phase = "configs" /\ n \in Name
      /\ j.source = src[p] /\ root = req[p].root /\ n = req[p].name
      /\ req[p] \in Requests /\ req[p].op = "remove" /\ req[p] \in Request
      /\ j.source \in {"project", "global"}
      /\ j.source = "project" => root \in Project
      /\ pc[p] = "xCommit" /\ pc'[p] = "xUnlink"
  <2>1. pc[p] = "xCommit" /\ pc'[p] = "xUnlink"
    BY DEF JournalCommit, Advance, Goto, Inv, Safe, TypeOK
  <2>2. journal \in Journal /\ journal.phase = "configs" /\ journal.source = src[p]
        /\ journal.name = req[p].name /\ journal.root = req[p].root
    BY <2>1 DEF Inv, Safe, JournalInvariant, RemovalInvariant, RemovalPoints
  <2>3. req[p] \in Requests /\ req[p] \in Request /\ req[p].op = "remove"
    BY <2>1, PointTypes DEF Inv, Safe, StepInvariant, RemovalPoints
  <2>4. /\ journal.name \in Name /\ journal.source \in {"project", "global"}
        /\ journal.source = "project" => journal.root \in Project
    BY <2>2 DEF Inv, Safe, JournalInvariant, Journal
  <2> QED
    BY <2>1, <2>2, <2>3, <2>4
<1>2. /\ UNCHANGED <<config, selected, profiles, tombs>>
      /\ journal'.phase = "commit" /\ journal'.name = n /\ journal'.globalPrior = j.globalPrior
      /\ \A r \in Proc \ {p} : pc'[r] = pc[r] /\ req'[r] = req[r] /\ found'[r] = found[r]
      /\ req' = req /\ src' = src
  <2>1. /\ journal' = [journal EXCEPT !.phase = "commit"] /\ pc' = [pc EXCEPT ![p] = "xUnlink"]
        /\ UNCHANGED <<config, selected, profiles, tombs, req, src, found>>
    BY DEF JournalCommit, Advance, Goto
  <2>2. /\ journal'.phase = "commit" /\ journal'.name = n /\ journal'.globalPrior = j.globalPrior
    BY <1>1, <2>1 DEF Journal
  <2>3. \A r \in Proc \ {p} : pc'[r] = pc[r]
    BY <2>1 DEF Inv, Safe, TypeOK
  <2> QED
    BY <2>1, <2>2, <2>3
<1>3. /\ \A d \in Dir : Settled(d)' = profiles[d]
      /\ \A q \in Project : SettledSelection'[q] = selected[q]
      /\ SettledConfig' = config
  BY <1>2 DEF Settled, SettledSelection, SettledConfig, Pending, Inv, Safe, TypeOK
<1>4. n \notin profiles[JournalDir(journal)] /\ n \in tombs[JournalDir(journal)]
  BY <1>1 DEF Inv, RemovalInvariant
<1>5. /\ \A d \in Dir :
           Settled(d) = IF JournalDir(journal) = d THEN profiles[d] \cup {n} ELSE profiles[d]
      /\ \A q \in Project : SettledSelection[q] = IF root = q THEN j.projectPrior ELSE selected[q]
      /\ SettledConfig = j.globalPrior
  BY <1>1, <1>4 DEF Settled, SettledSelection, SettledConfig, Pending
<1>6. JournalDir(journal) = IF j.source = "project" THEN root ELSE Global
  BY DEF JournalDir
<1>7. Global \in Dir /\ Project \subseteq Dir /\ \A r \in ProjectRemovals : r.root \in Project
  BY DEF Dir, ProjectRemovals, Request
<1>8. \A r \in Proc : pc[r] # "register" /\ pc'[r] # "register"
  BY <1>1, <1>2, AloneInside DEF Inv, Held, RemovalPoints
<1>9. RemovalKeeps(p)
  BY DEF SelectionInvariant
<1>10. ASSUME NEW q \in Project
       PROVE  Backed(selected[q], profiles[q], profiles[Global], config.refs[q])
  <2>1. CASE q = root
    BY <1>1, <1>9, <1>10, <2>1 DEF RemovalKeeps
  <2>2. CASE q # root
    <3>1. Backed(selected[q], Settled(q), Settled(Global), j.globalPrior.refs[q])
      BY <1>5, <1>8, <2>2 DEF SelectionInvariant, SelectionsBacked
    <3>2. config.refs[q] = j.globalPrior.refs[q]
      BY <1>1, <1>9, <2>2 DEF RemovalKeeps
    <3>3. Settled(q) = profiles[q]
      BY <1>5, <1>6, <1>7, <2>2
    <3>4. CASE j.source = "global"
      <4>1. j.globalPrior.refs[q] # GlobalOne(n) /\ Settled(Global) = profiles[Global] \cup {n}
        BY <1>1, <1>5, <1>6, <1>7, <1>9, <3>4 DEF RemovalKeeps, RemovalPoints
      <4> QED
        BY <3>1, <3>2, <3>3, <4>1 DEF Backed
    <3>5. CASE j.source = "project"
      <4>1. Settled(Global) = profiles[Global]
        BY <1>1, <1>5, <1>6, <1>7, <3>5
      <4> QED
        BY <3>1, <3>2, <3>3, <4>1
    <3> QED
      BY <1>1, <3>4, <3>5
  <2> QED  BY <2>1, <2>2
<1>11. ASSUME NEW r \in ProjectRemovals, selected[r.root] \in Name \ {r.name}
       PROVE  selected[r.root] \in profiles[r.root]
  <2>1. SettledSelection[r.root] \in Name \ {r.name} => SettledSelection[r.root] \in Settled(r.root)
    BY DEF SelectionInvariant, OwnKept
  <2>2. CASE r.root = root
    <3>1. req[p] \in ProjectRemovals /\ root \in Project
      BY <1>1, <1>7, <2>2 DEF ProjectRemovals
    <3>2. n = r.name
      BY <1>1, <2>2, <3>1 DEF Faithful, ProjectRemovals
    <3>3. selected[root] = j.projectPrior
      <4>1. selected[root] = SelectionAfter(j)
        BY <1>1, <3>1 DEF Inv, RemovalInvariant
      <4> QED
        BY <1>11, <2>2, <4>1 DEF SelectionAfter
    <3>4. selected[root] \in Settled(root)
      BY <1>5, <1>11, <2>1, <2>2, <3>1, <3>3
    <3>5. Settled(root) \subseteq profiles[root] \cup {n}
      BY <1>5, <1>7, <3>1
    <3> QED
      BY <1>11, <2>2, <3>2, <3>4, <3>5
  <2>3. CASE r.root # root
    BY <1>5, <1>6, <1>7, <1>11, <2>1, <2>3
  <2> QED  BY <2>2, <2>3
<1>12. SelectionsBacked' /\ OwnKept'
  <2>1. OwnKept'
    BY <1>2, <1>3, <1>7, <1>11 DEF OwnKept
  <2>2. \A q \in Project :
          Backed(SettledSelection[q], Settled(q), Settled(Global), SettledConfig.refs[q])'
    BY <1>3, <1>7, <1>10 DEF Backed
  <2> QED
    BY <1>8, <2>1, <2>2 DEF SelectionsBacked
<1>13. RemovalKeeps(p)'
  BY <1>1, <1>2, <1>9 DEF RemovalKeeps, RemovalPoints, Early, Late
<1>14. \A r \in Proc : RemovalKeeps(r)'
  <2>1. pc[p] \in Held
    BY <1>1 DEF Held, RemovalPoints
  <2> QED
    BY <1>2, <1>13, <2>1, OthersKeep DEF Inv, SelectionInvariant
<1> QED
  BY <1>12, <1>14 DEF SelectionInvariant

(* So does every step of a removal.                                      *)
LEMMA RemoveKeepsSelection ==
  ASSUME Faithful, Inv, Inv', SelectionInvariant, NEW p \in Proc, Remove(p)
  PROVE  SelectionInvariant'
<1>1. CASE RemoveRefused(p)
  BY <1>1, RefuseKeepsSelection DEF RemoveRefused, Removing
<1>2. CASE JournalCommit(p)
  BY <1>2, CommitKeepsSelection
<1>3. CASE ~RemoveRefused(p) /\ ~JournalCommit(p)
  <2>1. /\ pc[p] \in {"body"} \cup RemovalPoints /\ pc[p] \in Held
        /\ pc'[p] \in {"idle"} \cup RemovalPoints
        /\ \A r \in Proc \ {p} : pc'[r] = pc[r] /\ req'[r] = req[r] /\ found'[r] = found[r]
    BY <1>3 DEF Remove, RemoveBegin, Removing, JournalIntent, RenameToTombstone, JournalTombstoned,
       ResetActive, FallBackToGlobal, SelectionRemoved, ClearSelection, KeepSelection, ResolveRest,
       RegisterRest, JournalConfigs, UnlinkTombstone, ForgetJournal, Advance, Goto, Leave,
       Inv, Safe, TypeOK, Held, RemovalPoints
  <2>2. SelectionsBacked' /\ OwnKept'
    BY <1>3, <2>1, RemoveSeen, SeenSelections DEF Inv, RemovalPoints
  <2>3. \A r \in Proc : RemovalKeeps(r)'
    BY <1>3, <2>1, RemoveStepKeeps, OthersKeep DEF Inv, SelectionInvariant
  <2> QED
    BY <2>2, <2>3 DEF SelectionInvariant
<1> QED
  BY <1>1, <1>2, <1>3

(* And every step of the service.                                        *)
LEMMA StepKeepsSelection ==
  ASSUME Faithful, Inv, Inv', SelectionInvariant, [Next]_vars
  PROVE  SelectionInvariant'
<1>1. ASSUME NEW p \in Proc, \/ \E r \in Requests : Start(p, r)
                             \/ Lock(p)
                             \/ WriteFails(p) /\ pc[p] \in RollsBack
      PROVE  SelectionInvariant'
  <2>1. /\ UNCHANGED files /\ pc[p] # "register" /\ pc'[p] # "register"
        /\ pc'[p] \in Points \ (RemovalPoints \cup {"rProject", "rTomb", "rForget"})
        /\ \A r \in Proc \ {p} : /\ pc'[r] = pc[r] /\ req'[r] = req[r] /\ found'[r] = found[r]
                                 /\ src'[r] = src[r]
    BY <1>1, PointTypes DEF Start, Lock, AfterRecovery, WriteFails, RollBack, RollsBack, Goto,
       Inv, Safe, TypeOK, Points, Held, RemovalPoints, RecoveryPoints
  <2>2. SelectionsBacked' /\ OwnKept'
    BY <2>1, SeenFiles, SeenSelections DEF Inv, files
  <2>3. \A r \in Proc : RemovalKeeps(r)'
    BY <2>1 DEF SelectionInvariant, RemovalKeeps, files, RemovalPoints, Early, Late, Referenced
  <2> QED
    BY <2>2, <2>3 DEF SelectionInvariant
<1>2. ASSUME NEW p \in Proc, \/ LockRefused(p) \/ Crash(p)
                             \/ WriteFails(p) /\ pc[p] \notin RollsBack
      PROVE  SelectionInvariant'
  BY <1>2, RefuseKeepsSelection DEF LockRefused, Crash, WriteFails, Faithful
<1>3. ASSUME NEW p \in Proc, Work(p)
      PROVE  SelectionInvariant'
  BY <1>1, <1>2, <1>3, RecoverKeepsSelection, MigrateKeepsSelection, OperateKeepsSelection,
     RemoveKeepsSelection DEF Work
<1>4. CASE UpdateSettings
  <2>1. /\ config'.refs = config.refs /\ lock = None
        /\ UNCHANGED <<selected, profiles, tombs, journal, pc, req, src, found>>
    BY <1>4 DEF UpdateSettings, Inv, Safe, TypeOK, Config
  <2>2. UNCHANGED seen
    BY <2>1 DEF seen, SettledProfiles, SettledSelection, SettledConfig, Settled, Pending, JournalDir
  <2>3. \A p \in Proc : pc[p] \notin Held
    BY <2>1 DEF Inv, Safe, LockInvariant
  <2>4. \A r \in Proc : RemovalKeeps(r)'
    BY <2>1, <2>3 DEF RemovalKeeps, Held, RemovalPoints, RecoveryPoints, Early, Late
  <2>5. SelectionsBacked' /\ OwnKept'
    <3>1. CASE Proc = {}
      BY <2>1, <2>2, <3>1, SeenIs DEF SelectionInvariant, SelectionsBacked, OwnKept, Backed, Dir,
         ProjectRemovals, Request
    <3>2. ASSUME NEW p \in Proc PROVE SelectionsBacked' /\ OwnKept'
      BY <2>1, <2>2, <2>3, SeenSelections DEF Inv, Held
    <3> QED  BY <3>1, <3>2
  <2> QED
    BY <2>4, <2>5 DEF SelectionInvariant
<1>5. CASE UNCHANGED vars
  <2>1. UNCHANGED seen
    BY <1>5, SeenFiles DEF vars, files
  <2>2. UNCHANGED <<files, pc, req, src, found>>
    BY <1>5 DEF vars, files
  <2>3. SelectionsBacked' /\ OwnKept'
    BY <2>1, <2>2, SeenIs DEF SelectionInvariant, SelectionsBacked, OwnKept, Backed, Dir, files,
       ProjectRemovals, Request
  <2>4. \A r \in Proc : RemovalKeeps(r)'
    BY <2>2 DEF SelectionInvariant, RemovalKeeps, files, Referenced
  <2> QED
    BY <2>3, <2>4 DEF SelectionInvariant
<1> QED  BY <1>1, <1>2, <1>3, <1>4, <1>5 DEF Next

(* What a project selects is stored, in the project or in the lab home: a  *)
(* removal refuses what a reference protects (service.go:816-836), and the *)
(* reference follows the selection.  Crashes, failed writes and lab        *)
(* commands may come at any point but between the writes of "use".         *)
THEOREM SelectionsAreStored ==
  ASSUME Faithful
  PROVE  Init /\ OwnSelections /\ [][Next]_vars => []SelectionNeverDangles
<1>1. Init /\ OwnSelections => SelectionInvariant
  <2> SUFFICES ASSUME Init, OwnSelections PROVE SelectionInvariant
    OBVIOUS
  <2>1. TypeOK /\ journal = None /\ \A p \in Proc : pc[p] = "idle"
    BY InitSafe DEF Safe, Init
  <2>2. /\ \A d \in Dir : Settled(d) = profiles[d]
        /\ \A q \in Project : SettledSelection[q] = selected[q]
    BY <2>1, NoJournalSeen
  <2>3. \A q \in Project : SettledSelection[q] \in Name => SettledSelection[q] \in Settled(q)
    BY <2>2 DEF OwnSelections, Dir
  <2>4. SelectionsBacked /\ OwnKept
    BY <2>1, <2>3 DEF SelectionsBacked, OwnKept, Backed, ProjectRemovals, Request
  <2>5. \A p \in Proc : RemovalKeeps(p)
    BY <2>1 DEF RemovalKeeps, RemovalPoints, Early, Late
  <2> QED
    BY <2>4, <2>5 DEF SelectionInvariant
<1>2. Inv /\ Inv' /\ SelectionInvariant /\ [Next]_vars => SelectionInvariant'
  BY StepKeepsSelection
<1>3. Inv /\ SelectionInvariant => SelectionNeverDangles
  <2> SUFFICES ASSUME Inv, SelectionInvariant, NEW q \in Project, SettledSelection[q] \in Name
               PROVE  SettledSelection[q] \in Settled(q) \cup Settled(Global)
    BY DEF SelectionNeverDangles
  <2>1. CASE \A p \in Proc : pc[p] = "register" => req[p].root # q
    BY <2>1 DEF SelectionInvariant, SelectionsBacked, Backed
  <2>2. ASSUME NEW p \in Proc, pc[p] = "register", req[p].root = q
        PROVE  SettledSelection[q] \in Settled(q) \cup Settled(Global)
    <3>1. journal = None
      BY <2>2 DEF Inv, Safe, JournalInvariant
    <3>2. /\ SettledSelection[q] = selected[q] /\ Settled(q) = profiles[q]
          /\ Settled(Global) = profiles[Global]
      BY <3>1, NoJournalSeen DEF Inv, Safe, Dir
    <3> QED
      BY <2>2, <3>2 DEF SelectionInvariant, SelectionsBacked, Backed
  <2> QED
    BY <2>1, <2>2
<1> QED
  BY <1>1, <1>2, <1>3, AlwaysInv, PTL DEF Spec
=============================================================================
