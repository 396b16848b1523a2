------------------------------ MODULE EnvService ------------------------------
(***************************************************************************)
(* The environment service of the lab (src/internal/env/service.go): the   *)
(* named profiles of the lab home and of the projects, the selection each  *)
(* of them has, the registry of project references in config.yaml, and the *)
(* journaled removal of a profile.                                         *)
(*                                                                         *)
(* Several CLI commands and Lab UI handlers run it at once.  Each opens a  *)
(* transaction under the flock of config.yaml (withStateLocks), first      *)
(* finishes or undoes a removal a dead process left behind, then migrates  *)
(* the legacy active-env file, then runs its operation.  Every step below  *)
(* makes at most one change that reaches the disk, so a crash may fall     *)
(* between any two.                                                        *)
(*                                                                         *)
(* A file is abstracted to the fields the service reads; WriteLocked       *)
(* replaces a file by a rename (config/store.go:254-300), so a write is    *)
(* one step.  The flocks of the project configs are left out: every        *)
(* operation here takes them inside the global one.                        *)
(***************************************************************************)
EXTENDS FiniteSets

CONSTANTS
  Proc,       \* CLI commands and Lab UI handlers
  Name,       \* names of stored profiles
  Project,    \* canonical project roots
  Lab,        \* the implicit profile "lab", never stored
  Global,     \* stands for the profile directory of the lab home
  None,       \* no value
  LooseMode,  \* projects whose .camunda.yaml is group-writable or executable
  Requests,   \* the requests the processes may make
  CrashAt,    \* program points at which a process may die
  FailAt,     \* program points at which a write may fail
  Updating    \* whether lab commands rewrite config.yaml meanwhile

VARIABLES
  config,    \* config.yaml: activeEnv, environmentReferences, lab settings
  selected,  \* the "environment" scalar of each project's .camunda.yaml
  profiles,  \* the stored profiles of each profile directory
  tombs,     \* the profiles renamed to a tombstone in each directory
  journal,   \* .env-remove-journal.yaml
  legacy,    \* the active-env file of earlier versions
  lock,      \* holder of config.yaml.lock
  dirLock,   \* holder of each directory's .profiles.lock
  pc,        \* what each process does next
  req,       \* the request each process serves
  src,       \* the source a removal deletes from, once it is resolved
  found,     \* the profile a process is about to register for its project
  rollback   \* whether the process recovers because its own removal failed

vars == <<config, selected, profiles, tombs, journal, legacy, lock, dirLock,
          pc, req, src, found, rollback>>

files == <<config, selected, profiles, tombs, journal, legacy>>

Dir == Project \cup {Global}

Request ==
  LET Roots == Project \cup {None}
  IN   [op : {"list"}, name : {None}, root : Roots]
  \cup [op : {"resolve"}, name : Name \cup {Lab, None}, root : Roots]
  \cup [op : {"use"}, name : Name \cup {Lab}, root : Roots]
  \cup [op : {"save", "remove"}, name : Name, root : Roots]

(* The points of a transaction, in the order a process passes them. *)
RecoveryPoints == {"rUnlink", "rGlobal", "rProject", "rTomb", "rForget"}

RemovalPoints == {"xIntent", "xRename", "xTombstoned", "xActive", "xProject",
                  "xResolve", "xRegister", "xConfigs", "xCommit", "xUnlink",
                  "xForget"}

Held == {"recover", "migrate", "mDelete", "body", "register"}
          \cup RecoveryPoints \cup RemovalPoints

Points == Held \cup {"lock"}

Phases == {"intent", "tombstoned", "configs", "commit"}

Resolution == [env : Name \cup {Lab}, source : {"implicit", "project", "global"}]

NoConfig == [exists |-> FALSE, active |-> None, complete |-> "absent",
             refs |-> [q \in Project |-> None], settings |-> FALSE]

Config == [exists : BOOLEAN, active : Name \cup {Lab, None},
           complete : {"absent", "false", "true"},
           refs : [Project -> Resolution \cup {None}], settings : BOOLEAN]

Selection == Name \cup {Lab, None}

Journal == [phase : Phases, name : Name, source : {"project", "global"},
            root : Project \cup {None}, globalPrior : Config,
            projectPrior : Selection, globalAfter : Config \cup {None},
            projectAfter : Selection]

ASSUME ConstantsAssumption ==
  /\ None \notin Proc \cup Name \cup Project \cup {Lab, Global, "project", "global"}
  /\ None \notin Request \cup Resolution \cup Journal
  /\ Lab \notin Name
  /\ Global \notin Project
  /\ LooseMode \subseteq Project
  /\ Requests \subseteq Request
  /\ CrashAt \subseteq Points /\ FailAt \subseteq Points
  /\ Updating \in BOOLEAN

TypeOK ==
  /\ config \in Config
  /\ selected \in [Project -> Selection]
  /\ profiles \in [Dir -> SUBSET Name]
  /\ tombs \in [Dir -> SUBSET Name]
  /\ journal \in Journal \cup {None}
  /\ legacy \in Selection
  /\ lock \in Proc \cup {None}
  /\ dirLock \in [Dir -> Proc \cup {None}]
  /\ pc \in [Proc -> Points \cup {"idle"}]
  /\ req \in [Proc -> Requests \cup {None}]
  /\ src \in [Proc -> {"project", "global", None}]
  /\ found \in [Proc -> Resolution \cup {None}]
  /\ rollback \in [Proc -> BOOLEAN]

-----------------------------------------------------------------------------
(* Reading the files. *)

JournalDir(j) == IF j.source = "project" THEN j.root ELSE Global

(* readJournalLocked: the journals a transaction accepts.  A journal of a  *)
(* global removal that names a project is refused, and so is one whose     *)
(* snapshots have a mode the validation does not allow.                    *)
Readable(j) ==
  /\ j.globalPrior.exists
  /\ j.source = "project" => j.root \notin LooseMode
  /\ j.source = "global" => j.root = None

(* validateJournalPhaseStateLocked: the files are as the phase says. *)
PhaseStateValid(j) ==
  LET profileExists == j.name \in profiles[JournalDir(j)]
      tombExists == j.name \in tombs[JournalDir(j)]
      prior == j.phase \in {"intent", "tombstoned"}
  IN /\ j.phase = "intent" => profileExists /\ ~tombExists
     /\ j.phase \in {"tombstoned", "configs"} => ~profileExists /\ tombExists
     /\ j.phase = "commit" => ~profileExists
     /\ config = IF prior THEN j.globalPrior ELSE j.globalAfter
     /\ j.source = "project" =>
          selected[j.root] = IF prior THEN j.projectPrior ELSE j.projectAfter

(* resolveNamedLocked: a project's profile shadows a global one. *)
SourceOf(n, root) ==
  IF root # None /\ n \in profiles[root] THEN "project"
  ELSE IF n \in profiles[Global] THEN "global" ELSE "missing"

(* resolveActiveWithoutRegistrationLocked: the name a project works with. *)
ActiveName(root) ==
  IF root # None /\ selected[root] # None THEN selected[root] ELSE config.active

Implicit(n) == n \in {Lab, None}

Resolves(n, root) == Implicit(n) \/ SourceOf(n, root) # "missing"

Resolved(n, root) ==
  IF Implicit(n) THEN [env |-> Lab, source |-> "implicit"]
  ELSE [env |-> n, source |-> SourceOf(n, root)]

(* openProfileRoot locks each directory it looks a profile up in.  The     *)
(* flock belongs to the open file: a second open by the same process waits *)
(* for the first to be closed.                                             *)
DirsOpened(n, root) ==
  IF Implicit(n) THEN {}
  ELSE {d \in Dir : \/ d = root
                    \/ d = Global /\ SourceOf(n, root) # "project"}

CanOpen(dirs) == \A d \in dirs : dirLock[d] = None

(* A mutant: the references of the other source are compared.              *)
ReferencedFromProject(n) ==
  \E q \in Project : config.refs[q] = [env |-> n, source |-> "project"]

(* globalRemovalConflictsLocked: why a global profile may not be removed. *)
Referenced(n) == \E q \in Project : config.refs[q] = [env |-> n, source |-> "global"]

RemovalRefused(n) == config.complete # "true" \/ Referenced(n)

(* A mutant: the reference is written without the source it came from.     *)
RegisterNameOnly(c, root, resolution) ==
  [c EXCEPT !.exists = TRUE,
            !.complete = IF @ = "absent" THEN "false" ELSE @,
            !.refs[root] = resolution.env]

(* registerProjectLocked, on the contents of config.yaml. *)
Register(c, root, resolution) ==
  [c EXCEPT !.exists = TRUE,
            !.complete = IF @ = "absent" THEN "false" ELSE @,
            !.refs[root] = resolution]

SetActive(c, n) == [c EXCEPT !.exists = TRUE, !.active = n]

-----------------------------------------------------------------------------
(* A lab home before its first command or as "camunda install" leaves it,  *)
(* perhaps with profiles and an active-env file of an earlier version, and *)
(* projects that arrive with profiles and a selection of their own, which  *)
(* may be of a profile that is stored nowhere here.                        *)
Init ==
  /\ config \in {NoConfig, [NoConfig EXCEPT !.exists = TRUE, !.complete = "true"]}
  /\ profiles \in [Dir -> SUBSET Name]
  /\ selected \in [Project -> Name \cup {None}]
  /\ tombs = [d \in Dir |-> {}]
  /\ journal = None
  /\ legacy \in Selection
  /\ lock = None
  /\ dirLock = [d \in Dir |-> None]
  /\ pc = [p \in Proc |-> "idle"]
  /\ req = [p \in Proc |-> None]
  /\ src = [p \in Proc |-> None]
  /\ found = [p \in Proc |-> None]
  /\ rollback = [p \in Proc |-> FALSE]

Goto(p, point) == pc' = [pc EXCEPT ![p] = point]

DropDirLocks(p) ==
  dirLock' = [d \in Dir |-> IF dirLock[d] = p THEN None ELSE dirLock[d]]

(* The process is gone or back to its caller: the kernel has its locks.    *)
Leave(p) ==
  /\ Goto(p, "idle")
  /\ lock' = IF lock = p THEN None ELSE lock
  /\ DropDirLocks(p)
  /\ req' = [req EXCEPT ![p] = None]
  /\ src' = [src EXCEPT ![p] = None]
  /\ found' = [found EXCEPT ![p] = None]
  /\ rollback' = [rollback EXCEPT ![p] = FALSE]

Refuse(p) == Leave(p) /\ UNCHANGED files

(* A step from one point to the next that keeps the process's own state.   *)
Advance(p, from, to) ==
  /\ pc[p] = from
  /\ Goto(p, to)
  /\ UNCHANGED <<lock, dirLock, req, src, found, rollback>>

(***************************************************************************)
(* Opening a transaction.                                                  *)
(***************************************************************************)

(* The callers: env list, show, use, add and remove of the CLI and of the  *)
(* Lab UI, and the commands that resolve an environment.  Without a        *)
(* project a removal is of the global profile.                             *)
Start(p, r) ==
  /\ pc[p] = "idle"
  /\ Goto(p, "lock")
  /\ req' = [req EXCEPT ![p] = r]
  /\ src' = [src EXCEPT ![p] = IF r.op = "remove" /\ r.root = None
                               THEN "global" ELSE None]
  /\ UNCHANGED <<files, lock, dirLock, found, rollback>>

(* Where a transaction goes once no removal is left to recover from.       *)
AfterRecovery == IF legacy = None THEN "body" ELSE "migrate"

(* withStateLocks, and the opening of the journal's profile directory.     *)
Lock(p) ==
  /\ pc[p] = "lock"
  /\ lock = None
  /\ journal # None => Readable(journal)
  /\ Goto(p, IF journal = None THEN AfterRecovery ELSE "recover")
  /\ lock' = p
  /\ dirLock' = IF journal = None THEN dirLock
                ELSE [dirLock EXCEPT ![JournalDir(journal)] = p]
  /\ UNCHANGED <<files, req, src, found, rollback>>

(* The journal cannot be read: the operation fails and the journal stays.  *)
LockRefused(p) ==
  /\ pc[p] = "lock"
  /\ lock = None
  /\ journal # None /\ ~Readable(journal)
  /\ Refuse(p)

(***************************************************************************)
(* recoverJournalUsingRootLocked: at the start of a transaction, and in    *)
(* the middle of a removal one of whose steps failed.                      *)
(***************************************************************************)

(* Where recovery goes when it is done: on with the transaction, or, in a  *)
(* removal that failed, back to the caller.                                *)
Recovered(p) ==
  IF rollback[p] THEN Leave(p)
  ELSE /\ Goto(p, AfterRecovery)
       /\ DropDirLocks(p)
       /\ UNCHANGED <<lock, req, src, found, rollback>>

RecoveryRefused(p) ==
  /\ pc[p] = "recover"
  /\ ~(Readable(journal) /\ PhaseStateValid(journal))
  /\ Refuse(p)

(* Mutants: a committed removal's tombstone is forgotten; a removal whose  *)
(* configs are written counts as committed.                                *)
RecoverByForgetting(p) ==
  /\ pc[p] = "recover"
  /\ Readable(journal) /\ PhaseStateValid(journal)
  /\ Advance(p, "recover", IF journal.phase = "commit" THEN "rForget" ELSE "rGlobal")
  /\ UNCHANGED files

RecoverConfigsForward(p) ==
  /\ pc[p] = "recover"
  /\ Readable(journal) /\ PhaseStateValid(journal)
  /\ Advance(p, "recover", IF journal.phase \in {"configs", "commit"}
                           THEN "rUnlink" ELSE "rGlobal")
  /\ UNCHANGED files

RecoverBegin(p) ==
  /\ pc[p] = "recover"
  /\ Readable(journal) /\ PhaseStateValid(journal)
  /\ Advance(p, "recover", IF journal.phase = "commit" THEN "rUnlink" ELSE "rGlobal")
  /\ UNCHANGED files

RecoverUnlink(p) ==
  /\ Advance(p, "rUnlink", "rForget")
  /\ tombs' = [tombs EXCEPT ![JournalDir(journal)] = @ \ {journal.name}]
  /\ UNCHANGED <<config, selected, profiles, journal, legacy>>

RestoreGlobal(p) ==
  /\ Advance(p, "rGlobal", IF journal.root = None THEN "rTomb" ELSE "rProject")
  /\ config' = journal.globalPrior
  /\ UNCHANGED <<selected, profiles, tombs, journal, legacy>>

RestoreProject(p) ==
  /\ Advance(p, "rProject", "rTomb")
  /\ selected' = [selected EXCEPT ![journal.root] = journal.projectPrior]
  /\ UNCHANGED <<config, profiles, tombs, journal, legacy>>

(* The tombstone goes back to its name, if there is one.                   *)
RestoreProfile(p) ==
  LET d == JournalDir(journal)
      n == journal.name
  IN /\ Advance(p, "rTomb", "rForget")
     /\ tombs' = [tombs EXCEPT ![d] = @ \ {n}]
     /\ profiles' = [profiles EXCEPT ![d] = @ \cup (tombs[d] \cap {n})]
     /\ UNCHANGED <<config, selected, journal, legacy>>

RecoverForget(p) ==
  /\ pc[p] = "rForget"
  /\ journal' = None
  /\ Recovered(p)
  /\ UNCHANGED <<config, selected, profiles, tombs, legacy>>

(***************************************************************************)
(* migrateLegacyLocked: active-env becomes activeEnv of config.yaml.       *)
(***************************************************************************)

MigrateActive(p) ==
  /\ config.active = None
  /\ legacy = Lab \/ legacy \in profiles[Global]
  /\ Advance(p, "migrate", "mDelete")
  /\ config' = SetActive(config, legacy)
  /\ UNCHANGED <<selected, profiles, tombs, journal, legacy>>

AlreadyMigrated(p) ==
  /\ config.active # None
  /\ Advance(p, "migrate", "mDelete")
  /\ UNCHANGED files

MigrationRefused(p) ==
  /\ pc[p] = "migrate"
  /\ config.active = None
  /\ legacy # Lab /\ legacy \notin profiles[Global]
  /\ Refuse(p)

DeleteLegacy(p) ==
  /\ Advance(p, "mDelete", "body")
  /\ legacy' = None
  /\ UNCHANGED <<config, selected, profiles, tombs, journal>>

(***************************************************************************)
(* The operations other than removal.                                      *)
(***************************************************************************)

(* The name an operation resolves: the one it was given, or the active one. *)
Wanted(r) == IF r.op = "list" \/ r.name = None THEN ActiveName(r.root) ELSE r.name

Resolving(p) ==
  /\ pc[p] = "body"
  /\ \/ req[p].op \in {"list", "resolve"}
     \/ req[p].op = "remove" /\ src[p] = None
  /\ CanOpen(DirsOpened(Wanted(req[p]), req[p].root))

(* List and Resolve: the project is then registered as using the result.   *)
ResolveProfile(p) ==
  LET root == req[p].root
      n == Wanted(req[p])
  IN /\ Resolving(p)
     /\ Resolves(n, root) /\ root # None
     /\ Goto(p, "register")
     /\ found' = [found EXCEPT ![p] = Resolved(n, root)]
     /\ UNCHANGED <<files, lock, dirLock, req, src, rollback>>

(* The same without a project to register, or with nothing found.          *)
ResolveOnly(p) ==
  /\ Resolving(p)
  /\ req[p].root = None \/ ~Resolves(Wanted(req[p]), req[p].root)
  /\ Refuse(p)

(* registerProjectLocked ends List, Resolve and a project's Use.  A removal *)
(* has so far only resolved its source: it goes on in a new transaction.   *)
RegisterProject(p) ==
  /\ pc[p] = "register"
  /\ config' = Register(config, req[p].root, found[p])
  /\ IF req[p].op = "remove"
     THEN /\ Goto(p, "lock")
          /\ lock' = None
          /\ src' = [src EXCEPT ![p] = found[p].source]
          /\ found' = [found EXCEPT ![p] = None]
          /\ UNCHANGED <<dirLock, req, rollback>>
     ELSE Leave(p)
  /\ UNCHANGED <<selected, profiles, tombs, journal, legacy>>

Using(p) ==
  LET r == req[p]
  IN /\ pc[p] = "body"
     /\ r.op = "use"
     /\ CanOpen(DirsOpened(r.name, r.root))

(* Use in a project writes its .camunda.yaml, then config.yaml.            *)
UseInProject(p) ==
  LET r == req[p]
  IN /\ Using(p)
     /\ r.root # None /\ Resolves(r.name, r.root)
     /\ Goto(p, "register")
     /\ selected' = [selected EXCEPT ![r.root] = r.name]
     /\ found' = [found EXCEPT ![p] = Resolved(r.name, r.root)]
     /\ UNCHANGED <<config, profiles, tombs, journal, legacy, lock, dirLock,
                    req, src, rollback>>

UseGlobally(p) ==
  LET r == req[p]
  IN /\ Using(p)
     /\ r.root = None /\ Resolves(r.name, None)
     /\ config' = SetActive(config, r.name)
     /\ Leave(p)
     /\ UNCHANGED <<selected, profiles, tombs, journal, legacy>>

UseRefused(p) ==
  /\ Using(p)
  /\ ~Resolves(req[p].name, req[p].root)
  /\ Refuse(p)

Target(root) == IF root = None THEN Global ELSE root

(* SaveGlobal and SaveProject: saveNewProfile never replaces a profile.    *)
SaveProfile(p) ==
  LET n == req[p].name
      d == Target(req[p].root)
  IN /\ pc[p] = "body"
     /\ req[p].op = "save"
     /\ dirLock[d] = None
     /\ n \notin profiles[d]
     /\ profiles' = [profiles EXCEPT ![d] = @ \cup {n}]
     /\ Leave(p)
     /\ UNCHANGED <<config, selected, tombs, journal, legacy>>

SaveRefused(p) ==
  LET d == Target(req[p].root)
  IN /\ pc[p] = "body"
     /\ req[p].op = "save"
     /\ dirLock[d] = None
     /\ req[p].name \in profiles[d]
     /\ Refuse(p)

(* config.Update, as the lab commands call it: under the same flock, but   *)
(* without looking at the journal.  The bound: the settings change once.   *)
UpdateSettings ==
  /\ Updating /\ ~config.settings
  /\ lock = None
  /\ config' = [config EXCEPT !.exists = TRUE, !.settings = TRUE,
                              !.complete = IF config.exists THEN @ ELSE "true"]
  /\ UNCHANGED <<selected, profiles, tombs, journal, legacy, lock, dirLock,
                 pc, req, src, found, rollback>>

(***************************************************************************)
(* removeLocked.                                                           *)
(***************************************************************************)

RemovalDir(p) == IF src[p] = "project" THEN req[p].root ELSE Global

Removing(p) == pc[p] = "body" /\ req[p].op = "remove" /\ src[p] # None

Removable(p) ==
  /\ src[p] = "global" => ~RemovalRefused(req[p].name)
  /\ req[p].name \in profiles[RemovalDir(p)]

(* The directory's lock is kept until the removal returns.                 *)
RemoveBegin(p) ==
  /\ Removing(p)
  /\ Removable(p)
  /\ dirLock[RemovalDir(p)] = None
  /\ Goto(p, "xIntent")
  /\ dirLock' = [dirLock EXCEPT ![RemovalDir(p)] = p]
  /\ UNCHANGED <<files, lock, req, src, found, rollback>>

RemoveRefused(p) ==
  /\ Removing(p)
  /\ ~Removable(p)
  /\ Refuse(p)

(* Nothing else writes the configs under the lock: the snapshots are still *)
(* those taken when the removal began.                                     *)
JournalIntent(p) ==
  /\ Advance(p, "xIntent", "xRename")
  /\ journal' = [phase |-> "intent", name |-> req[p].name, source |-> src[p],
                 root |-> req[p].root, globalPrior |-> config,
                 projectPrior |-> IF req[p].root = None THEN None
                                  ELSE selected[req[p].root],
                 globalAfter |-> None, projectAfter |-> None]
  /\ UNCHANGED <<config, selected, profiles, tombs, legacy>>

RenameToTombstone(p) ==
  LET d == RemovalDir(p)
      n == req[p].name
  IN /\ Advance(p, "xRename", "xTombstoned")
     /\ profiles' = [profiles EXCEPT ![d] = @ \ {n}]
     /\ tombs' = [tombs EXCEPT ![d] = @ \cup {n}]
     /\ UNCHANGED <<config, selected, journal, legacy>>

JournalTombstoned(p) ==
  /\ Advance(p, "xTombstoned", "xActive")
  /\ journal' = [journal EXCEPT !.phase = "tombstoned"]
  /\ UNCHANGED <<config, selected, profiles, tombs, legacy>>

(* A mutant: the sources are the wrong way round.                          *)
ResetActiveOfProject(p) ==
  /\ Advance(p, "xActive", IF req[p].root = None THEN "xConfigs" ELSE "xProject")
  /\ config' = IF src[p] = "project" /\ config.active = req[p].name
               THEN SetActive(config, Lab) ELSE config
  /\ UNCHANGED <<selected, profiles, tombs, journal, legacy>>

(* The lab becomes active again when the active global profile goes.       *)
ResetActive(p) ==
  /\ Advance(p, "xActive", IF req[p].root = None THEN "xConfigs" ELSE "xProject")
  /\ config' = IF src[p] = "global" /\ config.active = req[p].name
               THEN SetActive(config, Lab) ELSE config
  /\ UNCHANGED <<selected, profiles, tombs, journal, legacy>>

SelectionRemoved(p) ==
  /\ pc[p] = "xProject"
  /\ src[p] = "project" /\ selected[req[p].root] = req[p].name

(* The project selected what is removed, and the lab home has a profile of *)
(* that name: the project's selection now means that one.                  *)
FallBackToGlobal(p) ==
  LET n == req[p].name
  IN /\ SelectionRemoved(p)
     /\ n \in profiles[Global] /\ dirLock[Global] = None
     /\ Goto(p, "xRegister")
     /\ found' = [found EXCEPT ![p] = [env |-> n, source |-> "global"]]
     /\ UNCHANGED <<files, lock, dirLock, req, src, rollback>>

ClearSelection(p) ==
  /\ SelectionRemoved(p)
  /\ req[p].name \notin profiles[Global] /\ dirLock[Global] = None
  /\ Advance(p, "xProject", "xResolve")
  /\ selected' = [selected EXCEPT ![req[p].root] = None]
  /\ UNCHANGED <<config, profiles, tombs, journal, legacy>>

KeepSelection(p) ==
  /\ ~SelectionRemoved(p)
  /\ Advance(p, "xProject", "xResolve")
  /\ UNCHANGED files

(* The failure of a step after the intent: undo what the journal allows.   *)
RollBack(p) ==
  /\ Goto(p, "recover")
  /\ rollback' = [rollback EXCEPT ![p] = TRUE]
  /\ UNCHANGED <<files, lock, dirLock, req, src, found>>

(* What the project works with once the profile is gone.  A name that is   *)
(* stored nowhere is looked up in both directories, one of which this      *)
(* removal keeps locked, so it is never found missing.                     *)
ResolveRest(p) ==
  LET root == req[p].root
      n == ActiveName(root)
  IN /\ pc[p] = "xResolve"
     /\ CanOpen(DirsOpened(n, root))
     /\ Goto(p, "xRegister")
     /\ found' = [found EXCEPT ![p] = Resolved(n, root)]
     /\ UNCHANGED <<files, lock, dirLock, req, src, rollback>>

(* A mutant: the reference is written under a lock of its own.             *)
RegisterRestRelocking(p) ==
  /\ lock = None
  /\ Advance(p, "xRegister", "xConfigs")
  /\ config' = Register(config, req[p].root, found[p])
  /\ UNCHANGED <<selected, profiles, tombs, journal, legacy>>

RegisterRest(p) ==
  /\ Advance(p, "xRegister", "xConfigs")
  /\ config' = Register(config, req[p].root, found[p])
  /\ UNCHANGED <<selected, profiles, tombs, journal, legacy>>

(* A mutant: the journal keeps the config as it was before the removal.    *)
JournalStaleConfigs(p) ==
  /\ Advance(p, "xConfigs", "xCommit")
  /\ journal' = [journal EXCEPT !.phase = "configs", !.globalAfter = journal.globalPrior,
                   !.projectAfter = IF req[p].root = None THEN None
                                    ELSE selected[req[p].root]]
  /\ UNCHANGED <<config, selected, profiles, tombs, legacy>>

JournalConfigs(p) ==
  /\ Advance(p, "xConfigs", "xCommit")
  /\ journal' = [journal EXCEPT !.phase = "configs", !.globalAfter = config,
                   !.projectAfter = IF req[p].root = None THEN None
                                    ELSE selected[req[p].root]]
  /\ UNCHANGED <<config, selected, profiles, tombs, legacy>>

JournalCommit(p) ==
  /\ Advance(p, "xCommit", "xUnlink")
  /\ journal' = [journal EXCEPT !.phase = "commit"]
  /\ UNCHANGED <<config, selected, profiles, tombs, legacy>>

UnlinkTombstone(p) ==
  /\ Advance(p, "xUnlink", "xForget")
  /\ tombs' = [tombs EXCEPT ![RemovalDir(p)] = @ \ {req[p].name}]
  /\ UNCHANGED <<config, selected, profiles, journal, legacy>>

ForgetJournal(p) ==
  /\ pc[p] = "xForget"
  /\ journal' = None
  /\ Leave(p)
  /\ UNCHANGED <<config, selected, profiles, tombs, legacy>>

(***************************************************************************)
(* Faults.                                                                 *)
(***************************************************************************)

Crash(p) ==
  /\ pc[p] \in CrashAt
  /\ Refuse(p)

RollsBack == {"xRename", "xTombstoned", "xActive", "xProject", "xResolve",
              "xRegister", "xConfigs", "xCommit"}

(* The read or write of this step fails and leaves the file as it was.     *)
WriteFails(p) ==
  /\ pc[p] \in FailAt
  /\ IF pc[p] \in RollsBack THEN RollBack(p) ELSE Refuse(p)

Recover(p) ==
  \/ RecoveryRefused(p) \/ RecoverBegin(p)
  \/ RecoverUnlink(p) \/ RestoreGlobal(p) \/ RestoreProject(p)
  \/ RestoreProfile(p) \/ RecoverForget(p)

Migrate(p) ==
  \/ MigrateActive(p) \/ AlreadyMigrated(p)
  \/ MigrationRefused(p) \/ DeleteLegacy(p)

Operate(p) ==
  \/ ResolveProfile(p) \/ ResolveOnly(p) \/ RegisterProject(p)
  \/ UseInProject(p) \/ UseGlobally(p) \/ UseRefused(p)
  \/ SaveProfile(p) \/ SaveRefused(p)

Remove(p) ==
  \/ RemoveBegin(p) \/ RemoveRefused(p) \/ JournalIntent(p)
  \/ RenameToTombstone(p) \/ JournalTombstoned(p) \/ ResetActive(p)
  \/ FallBackToGlobal(p) \/ ClearSelection(p) \/ KeepSelection(p)
  \/ ResolveRest(p) \/ RegisterRest(p)
  \/ JournalConfigs(p) \/ JournalCommit(p) \/ UnlinkTombstone(p)
  \/ ForgetJournal(p)

(* The steps a process that runs takes on its own.                         *)
Work(p) ==
  Lock(p) \/ LockRefused(p) \/ Recover(p) \/ Migrate(p) \/ Operate(p) \/ Remove(p)

Next ==
  \/ \E p \in Proc :
       \/ \E r \in Requests : Start(p, r)
       \/ Work(p)
       \/ Crash(p)
       \/ WriteFails(p)
  \/ UpdateSettings

Spec == Init /\ [][Next]_vars

(* A process that can take a step takes it; nobody has to start a command. *)
FairSpec == Spec /\ \A p \in Proc : WF_vars(Work(p))

-----------------------------------------------------------------------------
(***************************************************************************)
(* What has happened as far as a later transaction will see: until the     *)
(* journal says "commit", a removal has changed nothing.                   *)
(***************************************************************************)

Pending == journal # None /\ journal.phase # "commit"

Settled(d) ==
  profiles[d] \cup IF Pending /\ JournalDir(journal) = d
                   THEN tombs[d] \cap {journal.name} ELSE {}

SettledProfiles == [d \in Dir |-> Settled(d)]

SettledConfig == IF Pending THEN journal.globalPrior ELSE config

SettledActive == SettledConfig.active

SettledSelection ==
  [q \in Project |-> IF Pending /\ journal.root = q THEN journal.projectPrior
                     ELSE selected[q]]

Registry == INSTANCE EnvRegistry WITH
  profiles <- SettledProfiles, active <- SettledActive, selected <- SettledSelection

(* Every behaviour of the service, with crashes and failed writes at any   *)
(* step, is one of the registry that saves, selects and removes at once.   *)
AtomicRegistry == Registry!Spec

(* A tombstone exists only while the journal that can bring it back or     *)
(* finish it names it (service.go:373-465): none is ever forgotten.        *)
TombstonesJournaled ==
  \A d \in Dir : \A n \in tombs[d] :
    journal # None /\ JournalDir(journal) = d /\ journal.name = n

(* The lab home's active profile is stored there, at every moment a later  *)
(* command can see (service.go:391-397, 492-501).                          *)
ActiveNeverDangles ==
  SettledActive \in Name => SettledActive \in Settled(Global)

(* A project's selection is a profile of the project or of the lab home:   *)
(* removal "refuses when referenced" (docs/cli-reference.md:428).          *)
SelectionNeverDangles ==
  \A q \in Project :
    SettledSelection[q] \in Name => SettledSelection[q] \in Settled(q) \cup Settled(Global)

(* A journal nobody is working on is one the next transaction can act on:  *)
(* recovery rolls back or finishes (service.go:666-721), it never refuses. *)
JournalRecoverable ==
  journal # None /\ lock = None => Readable(journal) /\ PhaseStateValid(journal)

(* A transaction ends: no operation keeps the lock of config.yaml, which   *)
(* every other command waits for, for ever.                                *)
LockReleased == lock # None ~> lock = None

=============================================================================
