# Camunda Lab in TLA+

This directory is a formal model of Camunda Lab (`src/`, a Go command line tool
and Lab UI that run a local Camunda stack with docker compose and work with
remote clusters). It holds TLA+ modules translated from the source, TLC
configurations that check them on small instances, and TLAPS proofs of what
matters most for every value of the constants. `PROJECT.json` lists the parts
of the system, the runs, the theorems, the lines each definition models and the
hazards the properties are for.

Line numbers refer to files under `src/internal/`. Run

    tlc -workers 2 -config env_all.cfg MCEnvService
    tlapm EnvServiceProofs.tla

and likewise for the other configurations and the modules `*Proofs`.

## 1. The system

| Part | State it keeps | Operations | Hard behaviour |
|---|---|---|---|
| Environment service (`env/service.go`, `env/securefs.go`) | profile directories of the lab home and of each project, `activeEnv` and `environmentReferences` in `config.yaml`, `environment` in each project's `.camunda.yaml`, the removal journal, the legacy `active-env` file | List, Resolve, SaveGlobal, SaveProject, Use, Remove; recovery and migration at the start of each | processes interleave under flocks; a removal is eleven changes to four files and must survive a crash or a failed write at any of them |
| Config store (`config/`) | `config.yaml` and its lock file | WithLocks, SnapshotLocked, UpdateScalarLocked, RemoveScalarLocked, RestoreLocked, Update | lock scope, lost updates |
| Token source (`cluster/token.go`) | one cache entry per credential under a mutex, a channel per refresh | Token | many requests at once, a leader that fails or is cancelled, a clock read outside the mutex |
| Cluster client (rest of `cluster/`) | none | search, deploy, start, incidents, trace | pagination over changing data, the retry after 404 |
| Lab lifecycle (`lab/`, `compose/`, `overlay/`, `versions/`) | the compose stack, version directories, overlays, settings in `config.yaml` | install, up, down, switch, profile, resources, AI, monitoring, nuke | long operations that read the config, act, and write it, without a lock over the whole |
| AI secrets (`ai/`) | `ai.env` | write, delete, validate | its order with the setting in `config.yaml` |
| Backup (`backup/`) | archives; replaces files of the lab home and a project | Create, Validate, Restore | commit of many renames with rollback, crash in the middle, config updates meanwhile |
| Test artifacts (`testgen/write.go`, `toolkit/service.go`) | generated files in a project | Write | all or nothing over many files while something else writes them |
| Lab UI (`ui/`, `ui/api`, `ui/sso`) | port, pid file | start, stop, HTTP handlers | two starts, a stop with a stale pid |
| Trace, incidents, smoke, doctor | none; clocks and deadlines | follow, resolve, probe | deadline against a late answer |
| BPMN, lint, diff, inventory, drift, plan, scan, explain, review, test generation | none | functions from files and cluster answers to reports | identity matching, order, limits |
| CLI, project, urls, update, display | a cached release | flags and output | |

The CLI and every handler of the Lab UI are separate actors over one lab home.
They interact through files under flock (config, profiles, journal), through
docker compose, and inside one process through the token cache. The Lab UI is a
long-lived process whose handlers run concurrently with each other and with any
number of CLI commands.

What makes each part correct:

* environment service: an operation happens entirely or not at all, whatever
  crashes; no profile is lost between its name and its tombstone; what is active
  or selected is stored; an operation ends and leaves the service usable;
* token source: one request to the endpoint however many ask, none without need,
  a failure stays with the call it happened to, no expired token, nobody waits
  for ever;
* lab lifecycle: the stack that runs is the one the config names; what the config
  enables is supported by its version and profile, or it is known which command made it
  otherwise; a failed switch leaves a lab that can be brought up;
* backup and artifacts: a commit is all or nothing, and an original that cannot
  be put back is where the error says;
* Lab UI: at most one server, and stop stops that one;
* the pure parts agree with a reference definition on small inputs.

## 2. The plan

In order of what matters most; all of these are written and checked.

1. **`EnvService`**, with its abstract specification **`EnvRegistry`**: the only
   part of the lab with a crash recovery protocol. Proofs in `EnvServiceProofs`.
2. **`TokenCache`**, proofs in `ClientProofs`: the concurrency inside one
   process.
3. **`LabLifecycle`**: install, up, down, switch, profile, AI, monitoring and nuke
   as interleaved processes over the config lock, docker compose and the version
   directories. Proofs in `LabLifecycleProofs`.
4. **`Restore`** (`backup/`): validation, staging, commit and rollback, with
   failures, a death and other writers.
5. **`ArtifactWriter`** (`testgen/write.go`): many renames that happen together or
   not, while something else writes in the same directories.
6. **`TraceFollow`** and **`Diagnostics`**: deadlines against late answers;
   **`UIDaemon`**: starts and stops over port and pid file; **`UpdateCheck`**.
7. **`ClusterSearch`** and **`IncidentResolve`**: what a client may claim of a
   cluster that changes under its requests.
8. **`DriftPlan`**, **`Scan`** and **`ReviewRun`**: reports made from several reads of
   what somebody edits meanwhile.
9. **`BpmnDiff`** and **`ProcessGraph`**: algorithms against a reference definition
   over bounded inputs.
10. **`Fronts`**: how a command ends and what a route answers, for every result of the
   twelve operations that have both.

`MCEnvService`, `MCLabLifecycle`, `MCClientTime` and `MCWorkbench` are the instances
(`Fronts` needs none for the run of its own). Parts that share no state in the code share
a run but never a behaviour: a variable (`topic`) says which part a behaviour is about,
and the others stay in an initial state. Property checking is the same as
with a run for each.

A module that is proved about declares its parameters as constants with a named
assumption and has no RECURSIVE operator (none of them has); invariants are
conjunctions of named parts.

What is left, in the model: the XML parser's resolution of ids. Of the safety properties
only `DiffSilentIffSame` has no proof; section 8 says why, and what else stays with TLC.

## 3. The environment service

### `EnvService`: state and actions

A process is a CLI command or a handler of the Lab UI. It makes a request
(`Start`), takes the flock of `config.yaml` (`Lock`, `withStateLocks`
service.go:1173), finishes or undoes a removal a dead process left behind
(`Recover`, service.go:666-721), moves the legacy `active-env` file into
`config.yaml` (`Migrate`, 468-503), and then runs its operation (`Operate`,
`Remove`). `pc` is the next point of a process. A step makes at most one change
that reaches the disk, so that a crash may fall between any two:

| State | Code |
|---|---|
| `config` | `config.yaml`: whether it exists, `activeEnv`, `environmentReferences` with its `complete` flag, and one bit for the settings other commands write |
| `selected` | `environment` of each project's `.camunda.yaml` |
| `profiles`, `tombs` | the stored profiles and tombstones of each directory (`Global` is the lab home's) |
| `journal` | `.env-remove-journal.yaml` with its two snapshots before and two after |
| `legacy` | `active-env` |
| `lock`, `dirLock` | the flocks of `config.yaml.lock` and of each `.profiles.lock` |
| `req`, `src`, `found`, `rollback` | the local variables of an operation |

| Actions | Code |
|---|---|
| `RecoveryRefused`, `RecoverBegin`, `RecoverUnlink`, `RestoreGlobal`, `RestoreProject`, `RestoreProfile`, `RecoverForget` | `recoverJournalUsingRootLocked` 679-721 |
| `MigrateActive`, `AlreadyMigrated`, `MigrationRefused`, `DeleteLegacy` | `migrateLegacyLocked` 468-503 |
| `ResolveProfile`, `ResolveOnly`, `RegisterProject` | `List`, `Resolve`, `registerProjectLocked` 91-190, 867-909 |
| `UseInProject`, `UseGlobally`, `UseRefused` | `Use` 218-250 |
| `SaveProfile`, `SaveRefused` | `SaveGlobal`, `SaveProject`, `saveNewProfile` 193-214, 293-309 |
| `RemoveBegin` ... `ForgetJournal` | `removeLocked` 311-466, one action per change |
| `WriteFails`, `RollBack` | the error returns of each write; in a removal they run recovery and drop its error |
| `Crash` | the process dies; the kernel releases its flocks |
| `UpdateSettings` | `config.Update` (config.go:96) from a lab command: same flock, no look at the journal |

`PhaseStateValid` and `Readable` are the checks recovery makes before it touches
anything (557-814). `DirsOpened` and `CanOpen` model that a lookup of a profile
opens, and flocks, each directory it visits: a flock belongs to the open file, so
a process can wait for itself.

Abstractions. A file is the fields the service reads; `WriteLocked` replaces a file
by a rename, so a write is one step and a failed one changes nothing. The flocks
of the project configs are only ever taken inside the global one and are left out.
Symbolic-link and inode checks are left out, except the two mode checks that decide
whether a journal is readable. Initial states are those a user can have: a new home
or one `camunda install` left, any stored profiles, a legacy file, and projects
that arrive (from version control) with a selection of their own.

### `EnvRegistry`: what the service promises

Profiles, an active name and the projects' selections, with saving, activating,
selecting and removing as single steps. Removing the active profile returns to the
lab in the same step. `EnvService` implements it under the refinement mapping
`SettledProfiles`, `SettledActive`, `SettledSelection`: what a later transaction
will see. While the journal has not reached phase "commit" a removal has changed
nothing; the write of that phase is the step of the registry, and every other
step of a removal and every step of recovery is a stutter.

### What is checked

* `TombstonesJournaled`: a tombstone exists only while the journal that can bring
  it back or finish it names it. Needs several steps and a crash to violate.
* `ActiveNeverDangles`: the active profile is stored, at every moment a later
  command can see.
* `AtomicRegistry`: the refinement.
* `SelectionNeverDangles`: what a project selects is stored.
* `JournalRecoverable`: a journal nobody works on is one recovery can act on.
* `LockReleased`: a transaction ends.

**`env_all`** (2 processes, 1 name, 1 project; every operation; a crash and a
failed write possible at *every* point; lab commands rewriting `config.yaml`
once; the processes are symmetric): the first three. One name and one project
reach every branch of the code (shadowing of a global by a project profile,
fall-back, reset of the active name, every refusal); two processes give one that
recovers what the other left while it waits, and every action of the module fires.
Three processes add nothing the flock lets through.

**`env_everyday`** (2 processes, 2 names, 2 projects: one with a profile of its own,
one that selects a global profile; nobody activates a profile globally; crashes and
failures at the points `CopedWith`): the other three. This is the part of the
behaviour in which they hold. The points are those at which the repository's own
tests crash a removal (service_test.go:406) and those outside a removal's body. The
restrictions are the findings below: with any of them lifted one of the three
fails.

**`env_deadlock`**, **`env_wedge`**, **`env_lostref`** show where the code departs from
what its documents say, each with one process:

* *`LockReleased`*: the removal of a project's profile, while the lab home has
  another profile active, resolves that name through the directory it holds locked
  (service.go:420, securefs.go:66) and never returns; the lock of `config.yaml`
  stays held. No fault is needed.
* *`JournalRecoverable`*: a step of a removal that fails (or a process that dies)
  between the change of a file and the write of the journal's next phase leaves
  files that match no phase. Recovery refuses; so does every later transaction.
* *`SelectionNeverDangles`*: resolving another name explicitly (`plan --env`)
  replaces the project's reference (service.go:183), after which the profile the
  project selects can be removed.

Fairness: weak fairness of `Work(p)`, the steps of a process that runs. A process
holds its locks only while it runs code without further waiting, and the operating
system schedules it. `Start`, crashes and failures are not fair.

Deadlock checking is off in these runs: a state in which every process waits is what
`LockReleased` is about, and with the bound on updates the instance may stop.

### What is proved (`EnvServiceProofs`)

For any number of processes, names and projects, any requests, and crashes and failed
writes anywhere, from `ConstantsAssumption` alone (distinctness of the values and
membership of the parameters in their sets):

* `TypeCorrect`: `Spec => []TypeOK`;
* `NoTombstoneForgotten`: `Spec => []TombstonesJournaled`;
* `ActiveIsStored`: `Spec => []ActiveNeverDangles`;
* `ImplementsRegistry`: `Spec => AtomicRegistry`.

The argument. `LockInvariant`: only the holder of `config.yaml.lock` is at a point of
a transaction, so there is one. `StepInvariant` says of each point of a removal and
of a recovery what the journal and the files are there: the journal is the one of
this request, which phase it has, whether the profile or its tombstone exists, and
that the config equals its snapshot until the step that changes it. `JournalInvariant`
says what holds of a journal whoever looks at it, in particular that a journal past
"commit" has no profile under the name, and that the snapshot it would restore
names an active profile that is stored or is the one to be brought back.
`TombInvariant` is `TombstonesJournaled`. None of these is inductive without the
others: a crash may leave the journal at any phase, so the steps of recovery need
to know of the journal what the removal knew when it wrote it. Their conjunction
`Safe` is inductive and gives the first two theorems; with `RemovalInvariant`
(the config of a removal past its reset of the active name has no reference to the
name) it gives the other two. The refinement is proved action by action: all
actions leave the settled view unchanged except `SaveProfile`, `MigrateActive`,
`UseInProject`, `UseGlobally` and `JournalCommit`.

Two theorems are about a restricted use, because of the findings above:

* `LeftJournalsRecover`: under `Coping`, `[]JournalRecoverable` from the initial states
  in which no name that a project removes is one of the lab home (`OwnRemovals`).
  `Coping`: no crash or failed write at a point between the change of a file and the
  write of the phase that tells of it, or half way through undoing; `config.Update` does
  not come in between; a project in which a profile is removed has a `.camunda.yaml` of
  an ordinary mode. `RecoveryInvariant` names the points at which the files are as the
  journal says (`Matched`): every point a process can then die at with a journal on disk
  is one.
* `SelectionsAreStored`: under `Faithful`, `[]SelectionNeverDangles` from the initial
  states in which a project selects at most a profile of its own (`OwnSelections`).
  `Faithful`: no crash or failure between the two writes of a project's `use`, nobody
  resolves another name in a project, and a project in which a profile is removed is not
  made to select another. Crashes and failed writes elsewhere, lab commands and any
  number of names are allowed, so this says more than `env_everyday` checks.
  `SelectionInvariant`: a selection is of the project's own profile or of one of the lab
  home that the project's reference protects (`Backed`), in what a later transaction will
  see, or, where a process is about to write the reference, with that one; and while a
  removal runs, only the reference of its own project differs from the snapshot. The
  write of phase "commit" makes the files what is seen, and `RemovalKeeps` says that they
  then back every selection.

The requests and points of `env_everyday` satisfy both hypotheses. Only model-checked:
`LockReleased` (liveness).

## 4. The token source

### `TokenCache`

`Token` (token.go:112-165) for one credential; entries of different credentials share
nothing but the mutex. A call is one invocation; it makes at most one entry, so an
entry and its `ready` channel carry the name of the call that made them.

| State | Code |
|---|---|
| `entry` | the entry the map holds |
| `closed` | entries whose `ready` channel is closed; `refreshing` is cleared in the same section |
| `expires`, `until` | `expiresAt` as answered, `validUntil` as stored |
| `now`, `seen` | the clock, and the clock as a call last read it, outside the mutex |
| `doing`, `on`, `cancelled` | where a call is, the entry it made or waits for, whose context is done |

`ReadClock`, `Hit`, `Wait`, `Lead` are the loop up to the unlock; `Wake` and `GiveUp`
the select; `Answer` and `Refusal` the two outcomes of `fetch` (207-356); `Store` and
`Drop` the second section under the mutex. A refusal stands for the endpoint's, for
an answer that fails a check, for the client's timeout of 15 seconds and for the
context of the fetching call. Requests that `validateRequest` refuses return before
any of this. `Skew` is the division of the code, towards zero, with a tenth scaled to
`Part` and 30 seconds to `MaxSkew`.

### What is checked and proved

**`client_time`** (3 calls, lifetimes 1 and 2, a clock up to 2, skew at most 1): three
calls are a leader, one that waits and one that comes after; the skew of the short
lifetime is a part of it, that of the long one the maximum, and the clock passes the
end of both. Fairness is weak fairness of each call's `Step`: goroutines run, and the
HTTP client ends every fetch. The set of calls is finite, so the last of them is never
overtaken for ever.

| Property | Proved for every number of calls by |
|---|---|
| `SingleFlight`: at most one fetch at a time | `Coalesced` |
| `NoWastedFetch`: the endpoint is asked only when every token stored so far has left the cache for its age | `FetchesWhenNeeded` |
| `OwnFailure`: a call fails only for its own context or its own fetch | `FailsForItself` |
| `ServedUnexpired`: a token served had not expired when the call read the clock | `ServesUnexpired`, for `Stalls = FALSE` |
| `EveryCallReturns`: a call that has begun returns | model-checked only (liveness) |

`WaitersAreWoken` proves the safety half of the last one: a call waits for a channel
that is closed or that a fetching call will close.

The inductive invariant: `EntryInvariant` ties the entry in the cache to the call that
made it (it is fetching, or its token is stored, and nobody else is fetching);
`AgeInvariant` says that every stored token other than the one in the cache has left
the cache for its age, which `NoWastedFetch` needs because a call's clock may be older
than the entry it looks at; `WakeInvariant` is about the channels.

`Stalls` is the one assumption: a fetched token is stored before it runs out. Without
it the lifetime at token.go:149 is negative, so is the skew, and the token is served
until after it has expired. That takes a process suspended for the whole life of a
token between two statements, so it is stated as an assumption and listed as a hazard.

### `TraceFollow`

`trace --follow` (trace/follow.go, service.go): a timeline is made from four requests,
one after the other, while the instance runs; a new timeline is told when it differs
from the last.

| State | Code |
|---|---|
| `instance` | outside: the instance and how much of each kind has happened to it |
| `follow` | the local variables of `Follow` and `Get`: request, deadline, the timeline in the making, the previous one, how many were told, when the last change was |
| `canceled`, `clock` | the context and the time |

| Actions | Code |
|---|---|
| `BeginFollow`, `ValidFollow` | the checks and defaults before the first poll |
| `GetInstance`, `searchScoped` | the first request and the three searches; each may fail, a failed search makes the timeline partial |
| `Emit`, `Unchanged` | telling, and the reasons to stop: a terminal state, the event limit, the idle time |
| `Loop`, `WaitPoll` | the wait of an interval, cut by the deadline, and what ends it |
| `Happen`, `CancelFollow`, `FTick` | the cluster, the caller and time |

It is the other topic of **`client_time`**: six requests (an interval that divides the
timeout and one that does not, one with an idle stop, with a limit of events, with the
default timeout, and two that are refused), one event of each kind, a clock up to 3.

* `FollowTellsAll`: a timeline that is not partial and says the instance ended has
  everything that happened to it. It depends on the state being read *before* the
  searches. A follow that ends well has told the last timeline it got.
* `FollowEnds`: a follow ends, also for an instance that never does. Fairness is
  weak fairness of the follower's steps (a request is answered or fails, the HTTP
  client has a timeout) and of the clock.

`FollowTellsAll` is proved for any request, any limits and any clock by
`FollowsTellAll` (`ClientProofs`). The inductive invariant: `Reading` and `Told` say of
the timeline in the making, and of the last one told, that if its state is final the
instance has that state and the searches made so far (all three) found what has
happened (`Whole`); since nothing happens to an instance that has ended, it stays so.
`Asked` says that a follow that goes on has told fewer timelines than it was asked for.
`FollowTellsAll` alone says nothing of the timeline in the making.

## 5. The lab's lifecycle

### `LabLifecycle`: state and actions

A process is a CLI command or a Lab UI handler. A command is a chain of stages, one
operator per method of `lab.Lab`: `Install(r, stage)` is the stage after `stage` in an
install, and `EnableAI` appears inside `Install` and `Switch` as the code calls it.
`Following` dispatches on the command as the handlers and the CLI do. A stage is one
step, or, for those that ask docker something, the steps `Load` (the config), `Resolve`
(lab.go:350: find the compose file, write overlays and `resources.env`, choose env
files) and then the request. No lock spans two steps.

| State | Code |
|---|---|
| `config` | `config.yaml`, or none: version, profile, resources, AI, monitoring |
| `dist` | the compose files each version directory has |
| `overlays`, `resEnv`, `secrets` | the overlays directory, `resources.env`, `ai.env` |
| `containers` | what each service's container was made from: version, resources, AI secrets |
| `strangers` | names held by containers that are not the lab's: a stopped Camunda one, or one that may not be removed |
| `volumes` | the versions that have written to the lab's volumes |
| `proc` | each process: request, stage, point in it, and the local variables `cfg`, `envFiles`, the settings an install wants |

| Actions | Code |
|---|---|
| `Update` | `config.Update` (config.go:96) with the mutation of its caller (`Mutated`) |
| `Check`, `WriteSecrets`, `DeleteSecretsFile` | `ai.ValidateForEnable` and the callers, `ai.go` |
| `EnsureLook`, `EnsureFetch`, `EnsureUnzip` | `versions.Ensure`: marker, download and removal of the directory, unpacking in place |
| `ComposeDown`, `Clear` | `Down` (lab.go:166), and the one in `startStack` and `Recover`, whose error is dropped |
| `Reconcile`, `ComposeUp`, `ComposeUpFails`, `Remediate` | `startStack` and its repair of name conflicts (`startup.go`) |
| `Recreate`, `RemoveMonitoring` | `UpService` one service after another, `RemoveByName` |
| `SyncResourcesEnv`, `Erase` | `SetResources`, `Nuke` |
| `Crash`, and `Hit` inside the others | the process dies; the step meets a failure, having done any part of its work |

A stage whose error the code drops (`_ = l.Down`) is "try stop": `Aborted` goes on.

Abstractions. What Camunda's compose files contain is the parameter `Upstream`.
`docker compose down` removes the containers of the services in the files it is given,
and with volumes also orphans; `up` makes all, and fails where a name is taken. An
update of `config.yaml` is one step (its flock and its rename), so the loss of lock
files in a nuke is outside the model. Secrets are there or not, and a request brings
some. The docker process of a killed command does not go on by itself.

### What is checked

* `Applied`: a command that ran without company and reports success has done what it
  says, whatever earlier commands left half done: after a start every configured
  service runs from the configured version, resources and secrets.
* `AISupportKept`: only two steps ever leave AI enabled for a version or profile that has
  none: the update of an install, and that of a command that enables AI and has had
  company since it began. Whatever else runs, fails or dies, a switch of version or
  profile does not: it changes AI in the same update (switch.go:26-36, 51-54).
* `SettingsKept`: what a step changes in `config.yaml` its own command is about. An
  install is about version, profile and resources even where it was not told them: it
  writes back what it loaded before the download.
* `AISupported`, `InstallRepairs`, `EmptyDisks`: below.

**`lab_all`** (2 processes, 2 commands out of 16, one failure or death, a new lab or one
on 8.9 with AI and monitoring, and three choices of strangers; the processes are
symmetric): the first three and the types. Two commands are one that leaves something half done and
one that comes after it, or two that interleave; a failure is possible at every kind
of step. The services are one that every stack has, `connectors` and the monitoring
ones (made anew alone), those of overlays, and one only another profile has. To keep the
run small, nuke and the commands that choose a version with AI or without run alone
(`Alone`); `enable-ai` has any company. An install of 8.8 over a lab with AI is among the
commands. Deadlock checking is off because the instance ends with its commands.

**`lab_ai`**, **`lab_repair`** and **`lab_disks`** show where the code departs from what
it says:

* *`AISupported`*: docs/cli-reference.md:159 says of AI "Requires Camunda **8.9+** and
  profile **light** or **full**". With three commands of four kinds, no failure and nobody
  made to wait, the code breaks it in both ways `AISupportKept` names. Install records
  version and profile and leaves AI on (lab.go:121-126), so that an install of 8.8 after
  one of 8.9 with AI does it. `EnableAI` checks the settings it loaded (ai.go:13-17) and
  enables AI under the lock whatever they are by then (23): a change to the profile modeler
  in between does it. TLC reports the first it meets; with either of the two left out of the
  requests it finds the other. The overlay is left out then (overlay.go:90-181), so
  what follows is a configuration that calls enabled what does not run.
* *`InstallRepairs`*: unpacking that fails after the marker file leaves a version
  directory every later install takes for whole; it fails with "run camunda install
  first".
* *`EmptyDisks`*: after a switch whose download failed, nuke cannot stop the stack,
  ignores that, deletes the lab home and reports success; the volumes stay.

### What is proved (`LabLifecycleProofs`)

For any processes, requests, compose files, strangers and failures, from
`ConstantsAssumption`:

* `TypesKept`: `Spec => []TypeOK`;
* `SettingsAreKept`: `Spec => SettingsKept`;
* `AISupportStaysKept`: `Spec => AISupportKept`, for any users;
* `CommandsDoWhatTheySay`: `Spec => []Applied`.

The argument. `Placed`: a process is at a point of its stage, and the stage is one of
its kind of command (`FollowingBelongs`, by cases on the command). `StepMoved`: every
step leaves its process in its stage, in the next one, or at the end, and touches no
other process. The stage gives `SettingsKept`, because it decides which settings an
update writes. For `AISupportKept`, which is about one step: the update that enables AI
does not look at version and profile, so for a process that has run alone since it began
(`Unaccompanied`: nobody else is busy) `Enabling` says that from the check on the settings
support AI. `AIInv` is the conjunction, and `StepKeepsSupport` goes through the updates.

`Applied` needs to know of the process that has run alone since it began (`SoloInv`):
the stages of its command it can be in (`InChain`, with `ChainFollows`: they follow each
other, and only the last one ends the command); that the settings it has read and the
secrets its compose files were chosen by are those there are (`Known`); and what the
stages before this one have left for enabling and disabling AI, which make only the
connectors anew (`Reached`). Each of these rests on nobody else taking a step, not on
what was there when the command began, which is why earlier failures do no harm.

## 6. Files that change together: backup and generated tests

### `Restore`

`restore` (backup/restore.go, validate.go, manifest.go) checks an archive, extracts it into staging
directories, and puts file after file in its place: what stands there is renamed to a
`.camunda-lab.restore-backup` file beside it, the staged file takes the place, and when
all are placed the backup files go. A failure undoes the steps in reverse.
`Create` (backup/create.go), which reads file after file while others write them, is
in the module too.

| State | Code |
|---|---|
| `files`, `stage`, `aside` | what stands at each destination, in the staging directories, in the backup files |
| `archive` | the archive file: entries with name, type, size and content, the manifest's list and version, whether gzip and tar can be read |
| `restore`, `backup` | the local variables of the two operations |
| `before`, `touched` | history: the destinations when the restore began, and what other programs wrote since |

| Actions | Code |
|---|---|
| `BeginRestore`, `CheckLab` | the flags, and the question whether the lab runs |
| `Validate`, `Extract` | the two readings of the open archive: limits, duplicates, types, paths, the manifest, and in the second that the entries look as they did; it may be written over in between (`Rewrite`) |
| `Preflight`, `MakeDirectory`, `DirectoriesMade` | what stands in the way (links, a directory for a file), and the directories that are missing |
| `Look`, `MoveAside`, `Place`, `NextFile` | the commit, one rename a step |
| `UndoRemove`, `UndoReturn`, `Undone`, `RemoveDirectory`, `RolledBack` | the rollback; each of its steps may fail, which makes it incomplete |
| `Forget`, `Restored` | removal of the backup files |
| `BeginBackup`, `ReadFile`, `writeBackupArchive` | `Create`, file by file, while somebody edits |
| `Edit`, `Rewrite`, `DieRestoring` | other programs at the files and at the archive; a death |

### `ArtifactWriter`

`Write` (testgen/write.go) publishes generated tests: staging directory, identities of
what is at each destination, then for each artifact a check, the rename of what is there
into the stage, and the rename of the artifact to its place; at last all are looked at
again. A failure removes what was published and returns what was saved; what cannot be
returned is moved to a recovery directory that the error names. Files are told apart by
identity, as with `os.SameFile`; directories are held open, so a destination is a place in
the directory that was opened, even if that directory has been moved away since (`moved`).

| Actions | Code |
|---|---|
| `OpenStage`, `Prepare`, `Prepared` | the stage, the directories, the artifact in the stage and the identity of its destination |
| `CheckDestination`, `Backup`, `Publish`, `verifyPublished` | one artifact after the other, then all |
| `Cleanup`, `Cleaned`, `RemoveArtifact`, `RestoreBackup` | the end after success, and the rollback |
| `cleanStage`, `OpenRecovery`, `Relocate`, `Relocated`, `Close` | what is left in the stage, and the recovery directory |
| `Interfere`, `Move`, `DieWriting` | another program puts a file at a destination or takes one away, or moves a directory; a death |

### What is checked

Both are topics of the run **`workbench`** (section 7), a behaviour being a restore or a
generation. Restore: ten archives (two valid, the others each wrong in one way the
validation tells apart), four lab homes, of which the archive with keys goes to an empty
one and one that has files, and the others to one with the directory of the project's
models and one with a link in its place; two
failures or a death at any step, one edit by another program and one replacement of the
archive; two failures are one that begins a rollback and one inside it. Generation: two
artifacts, one in a subdirectory, any of a file, a special file or nothing at each
destination, two changes by others, one directory moved, three failures: one in the
commit, one in the rollback and one in the recovery.

* `OriginalsKept`: a file the lab had is at its place or in the backup file beside it
  until every file of the archive is in place.
* `AllOrNothing`: "restored" means every file is in place, and an error that does not
  call the rollback incomplete means that nothing has changed or been added.
* `BackupRestorable`: a backup that was written passes the validation of a restore,
  although its files were read one after the other while they were edited. The limits of
  the restore leave room for all files: `Create` checks no limit (create.go:39-113), and a
  backup of more than 10,000 files, or with a file of more than 64 MiB, is written without
  a word and refused by `Restore` (restore.go:176-203). No document promises more.
* `OriginalsSaved`, `PublishedTogether`, `RecoveryReported`: the same of the writer,
  with what its error says about the files that are not back in their place.

They are stated for files no other program wrote meanwhile (`touched`, `robbed`): a
rename replaces whatever stands there, and no document promises otherwise. A restore
that finds the lab stopped does not ask again; the model has the step and no property.

No deadlock check: the commands end.

### What is proved (`RestoreProofs`, `ArtifactWriterProofs`)

Of a restore, for any names and directories above them, any tree, any archive of any
length, any limits, failures, a death and edits by others at any step:

* `RestoreLosesNothing`: `RestoreSpec => []OriginalsKept`;
* `RestoreSaysWhatItDid`: `RestoreSpec => []AllOrNothing`;
* `BackupsAreRestorable`: `WithinLimits => (RestoreSpec => []BackupRestorable)`, where
  `WithinLimits` says that all names there are, at one byte each, fit the two limits on the
  archive.

From `RestoreAssumption`: there are finitely many names, what is above a name is a
strict order and closed, in an initial tree the directory of what is there is there, and
`Order` has no name twice and has the manifest's.
The argument. `PlanKnown` and `Staged`: the plan of a restore has each file once, and
what it has not placed yet is in the stage. `PlacedSoFar` and `Kept`: at each point of
the commit and of the rollback, which files are placed, which are moved aside, and which
still stand as they were; the rollback goes back through the same positions
(`Positions`). `MadeInOrder`, `MadeNew` and `BeforeRooted`: the directories a restore made
are new, the outer ones first, so that the rollback can remove them all and finds them
empty, unless somebody has put something there. `Ended` ties the outcome to these.
`OriginalsKept` says nothing of a file that was placed by a plan that names it twice, and
`AllOrNothing` nothing of a restore under way, so neither is inductive. A selection of a
sequence is `Part`, its elements at chosen positions in order; what it keeps of order and
distinctness is proved with the cardinality of initial segments (`RankGrows`,
`RankTaken`).

The archive of a backup changes only when it is written, so `BackupRestorable` is
inductive with the types; the work is in `NewArchiveValid`. The names of the archive are
the chosen part of `Order` (`HeldNames`), and the manifest lists the payload in the order
in which the restore reads it. Its size is a fold over the entries. The function that the
fold defines is shown to exist by its solution for entries of one byte, and to have that
value by a least counterexample (`OneByteEach`).

Of the writer, for any number of artifacts, any files at the destinations and any
failures, a death and changes by others at any step, from `WriterAssumption`:

* `WriterLosesNothing`: `WriterSpec => []OriginalsSaved`;
* `WriterPublishesTogether`: `WriterSpec => []PublishedTogether`;
* `WriterReportsRecovery`: `WriterSpec => []RecoveryReported`.

The argument. `Progress`, `Noted` and `Held` say how far the writer is, and that what it
notes as published, moved or retained is what it did. `ItemKnown` and `KeptItem` say of
each artifact where the file is that stood at its destination: in its place while the
writer has not come to it (`Pending`), moved from then on, and back again once the
rollback, which goes through the artifacts from the last to the first, has undone it
(`Undone`); an artifact that could not be removed is among the reported failures.
`Returned` is about what the stage still holds when the writer closes it. `Late` takes
over where the positions say nothing any more.

## 7. The workbench

The commands a developer runs against a project or a cluster. Each module is one part;
`MCWorkbench` makes one run, **`workbench`**, of them and of the two of section 6, in which
a behaviour has one `topic`. They end, so there is no deadlock check.

| Module | Code | State | Steps | What others do meanwhile |
|---|---|---|---|---|
| `ClusterSearch` | `cluster/inventory_search.go`, `inventory.go` | the items that match, the search with its limits, cursor and what it got | `BeginSearch`, `NextPage` (`Paged`), `Exactly`, `ListInventory`, `Definitions`, `ReadXML`, `InventoryBuilt` | items come and go (`Churn`); a cluster with cursors only when there is more, with one on every page, or that answers anything |
| `IncidentResolve` | `incidents/` | the incident, what surrounds it, each command | `Begin`, `Revalidate`, `ResolveIncident`, `Refresh`, `ShowIncident` | a second command, other users (`Elsewhere`), requests and answers that are lost |
| `Diagnostics` | `doctor/deep.go`, `smoke/` | the diagnosis with its budget, time and what it skipped; the waiting command; the endpoints that answer | `BeginDoctor`, `Check`, `Aggregate`; `BeginWait`, `WaitLoop`, `ProbeEndpoint`, `Probed` | endpoints start and stop to answer |
| `UIDaemon` | `ui/daemon.go`, `server.go` | server processes, the pid file, commands | `BeginEnsure`, `Spawn`, `writePIDFile`, `waitReady`, `BeginStop`, `Stopped`, `Run` | commands overlap or are interrupted, servers die, answer too late or are started in a terminal |
| `UpdateCheck` | `update/` | the latest release, the cache, the mutex, the requests | `Ask`, `Lock`, `Request` | releases appear, time passes, requests fail |
| `BpmnDiff` | `diff/diff.go` | two documents and the changes | `CompareDocuments` (colour refinement, `PairInPasses`) | |
| `DriftPlan` | `drift/`, `plan/`, `inventory/`, `cluster/inventory.go` | project, commits, deployed versions, the comparison and what it has yet to read | `ReadWorking`, `ReadDeployed`, `BuildResolved`, `buildBaselineInventory`, `inspectEffectiveWorkingFilter`, `workingChanges`, `buildThreeWayReport` | a user edits, moves, commits and deploys, between any two reads |
| `Scan` | `scan/walk.go`, `toolkit/service.go` | inodes, the walk with the descriptors it holds, findings and counts | `NextRoot`, `OpenRequestedPath`, `NextEntry`, `Leave`, `OpenFile`, `Verify`, `inspectFile`, `FinishRoot`, `ReportScan` | another process writes, moves, replaces and removes |
| `ProcessGraph` | `bpmn/graph.go`, `lint/`, `explain/` | a process and what was said of it | `Inspect` | |
| `ReviewRun` | `toolkit/service.go`, `review/` | the request, what was gathered | `BeginReview`, `ParseInput`, `Linted`, `AskNext`, `Reviewed` | the provider fails, answers nothing or too little; the caller cancels |
| `Fronts` | `cli/`, `ui/api/` | an operation and its result, the command's exit code, the route's answer | a command per operation (`LintCommand`, …, over `developerCommand`) and a route (`bpmnLint`, …, over `Route`) | |

### What is checked, and on what

* `SearchComplete` (three keys, pages of one and two, limits of pages and of items, one
  item that comes or goes): a search that calls itself complete has every item that
  matched from its beginning to its end and none that never did; a search for one item
  never returns another, whatever the cluster answers.
* `ReportsHonest` (two commands, one lost request or answer): a resolution claims a
  change only for a request of its own that was accepted; an error never says it was not.
* `WellMeansWell` (two services, three budgets, a call that cannot be
  interrupted takes 2): a report without a required failure skipped nothing it should
  have looked at; the diagnosis takes no longer than its overall time and one such call.
  The doctor and the wait each run alone: they share nothing.
* `StopStops` (three commands, one port, two servers): a stop leaves no server on its
  port, after commands that ran one after the other. With overlapping commands
  (`disturbed`) it need not, and with two ports it does not: there is one pid file, a
  second start overwrites it, and a stop signals whatever it names (daemon.go:75).
  `--stop` is documented only as "Stop the background Lab UI" (docs/cli-reference.md:116).
* `LatestFresh` (three requests, two releases, a clock up to 3 against a lifetime of 2):
  an answer without an error is no older than the cache may be.
* `DiffSilentIffSame` (two or three elements with defaults and flows, messages, calls
  between processes, nesting and boundary events, each with ids kept and exchanged):
  nothing is reported exactly if the documents are the same but for their ids, which the
  reference definition says by bijections. Excluded: processes that call each other in a
  cycle, a default flow of another element, missing and duplicate ids.
* `ExitTruthful` (two resources, two contents, two steps of the user, three
  repositories): what exit codes 0 and 1 still say when everything is read piece by piece.
  The working tree is read file after file (inventory/local.go:42-62) and the cluster page
  after page and then document after document (cluster/inventory.go:65-81), with the user
  at work in between. With 0, every kind was compared, and each resource agreed, at some
  moments of the run, in the project and in the cluster, and for drift with the commit. It
  does **not** say that project and cluster agreed as a whole at any moment: a tree A, A,
  a cluster A, B, the first file read, both edited to B, the second read, compare as equal
  though they never were. Nor does it say anything of a resource that was moved, meanwhile,
  from a file yet to be read to one that was: it is in no file that was read
  (`history.moved`). If nobody works meanwhile the moments are one, and 0 is what it
  seems. No document promises more. An inventory that names no kind as unsupported, which
  the run has besides one that does, is what tests inject; the client of the cluster never
  builds one, see below.
* `ScanHonest`, `ScannedInPlace` (six trees of depth two, rules of all kinds, one
  interference at any step; with two it was run once, 5.2 million states, with the same
  result): a completed scan has found every secret that stood in an unexcused file from
  beginning to end, what it reports was there, and a file counts as scanned only while it
  is what its path leads to. The first is about paths of up to `MaxDepth` = 2 names. An
  ignore file is read in one step, and so is the way down each time a file is verified.
* `PathsToldOnce`, `SilentTimersReached`, `QuietFinishes` (512 and more flow graphs with a
  loop, a gateway with and without default; subprocesses and transactions with a boundary
  timer): paths and cycles against their definitions; the linter is silent only about timers
  a token reaches; an explanation has nothing to tell exactly if every way on ends. The
  converse of the second fails: timers behind boundary events or in event subprocesses are
  reported although reachable, which the rule's "basic graph walk" (docs/superpowers/plans/
  2026-07-17-bpmn-lint.md:36) does not exclude. `HappyPath` may end at a loop, although
  graph.go:95 calls it "start-to-terminal".
  The reference of the third, `Finishing`, is a least fixpoint and knows nothing of
  dead ends or cycles: an element is finishing if all it leads on to is, or it is an end
  event, and, for a subprocess, if its starts are. Its limits are the code's, and they are
  real: `summarizeScopes` looks at the process and at elements of type `subProcess`
  (explain/graph.go:19-26), while a transaction and an ad-hoc subprocess hold elements too
  (bpmn/parse.go:199) and are walked through by the linter (lint/rules_timer.go:69-76). Of
  one that loops or stops inside, the explanation tells nothing, and `Finishing` takes it
  to end; so with boundary events, by which a token may leave an activity and go round.
* `ReviewHonest` (six lists of inputs, prompts that fit, fit without the model, or do
  not): a review is failed exactly if its findings are, complete only if every process
  was narrated from its whole model, and one that requires the AI has a narrative of
  each process or returns an error.
* `FrontsAgree` (every operation with every combination of findings, completeness and
  errors, and failures of the front itself): a command exits with 0, or a route answers ok,
  only without failures and findings and, for scan, plan and drift, of a whole result; and
  always when there is nothing amiss at all. Asked both without failures of their own, the
  two agree, on a partial result as well. 1 of a developer's command is a finding and
  nothing else, 2 is never one. The exit codes come from a wrapper that classifies every
  error not classified yet (cli/developer_helpers.go:41-49), `ok` from a formula of each
  handler.

**`fronts_partial`** shows where the code departs from what it says.
docs/api-reference.md:73: "Plan, drift, incidents, and trace routes follow their domain
schemas but always set `ok` honestly — incomplete remote inventory never reports success."
A search of incidents that was cut off returns a partial result and no error
(incidents/service.go:68-72), and the route answers `ok: true` for whatever has no error
(ui/api/handlers_toolkit.go:626-632); the routes of traces do too (731-732, 811-812).
`IncompleteNeverOk` is that sentence; plan and drift keep to it, as their policy is unknown
for a partial inventory, which `FrontsAgree` includes.

One more disagreement takes a single step and no interleaving, so that no run states it.
Every inventory the client builds names decisions and forms as unsupported
(cluster/inventory.go:71-74), and a plan with any unsupported kind is unknown with exit code
2 (plan/plan.go:175-177); drift refuses on such plans. So `plan` and `drift` end with 2
whenever nothing fails, also for projects of processes only, and never with 0 or 1, while
cli/execute.go:11-12 says "0 success, 1 policy/findings/diff/drift, 2 tool failures".
`Build` of `DriftPlan` has it: what `ExitTruthful` says of 0 and 1 needs
`unsupported = {}`.

### What is proved

| Theorem | For every | Inductive because |
|---|---|---|
| `LatestStaysFresh` (`WorkbenchProofs`): `LatestFresh` | number of requests, releases, clock | releases only grow (`ReleasesGrow`), and a cache without an error holds what was the latest when it was fetched (`CacheTruthful`) |
| `StopsStop` (`WorkbenchProofs`): `StopStops` | number of commands and servers, one port (`OnePort`) | while nothing disturbs the commands one is at work, every server that lives is the one the pid file names, and one that starts has a command that waits for it (`FileNamesTheLiving`, `StartsForSomebody`) |
| `WellStaysWell` (`WorkbenchProofs`): `WellMeansWell` | services, budget, findings and durations | a check was skipped only for a finding before it that failed or has no need of it (`SkipsJustified`), and the time used is within the budget and one call (`InTime`); the wait likewise has probed every endpoint |
| `ReportsStayHonest` (`ToolkitProofs`): `ReportsHonest` | number of commands and lost requests | what a command holds in its hands is bound to what the cluster accepted of it at each point (`HonestSoFar`) |
| `FrontsStayAgreed` (`ToolkitProofs`): `FrontsAgree` | operation and result, partial ones included | what a front can learn (`FactsOf`) determines the exit code and the answer, handler by handler: the code has a formula of its own in each |
| `ReviewsStayHonest` (`ToolkitProofs`): `ReviewHonest` | list of inputs, prompts and answers | the narratives and findings so far belong to the inputs read so far |
| `ExitCodesStayTruthful` (`ToolkitProofs`): `ExitTruthful` | resources, contents, repositories, number of edits, moves, commits and deployments, between any two reads | of each resource that was read, what was read is what it was in one of the projects, or clusters, there were since the command began, unless it was moved; a commit does not change (`ReadSoFar`); a plan that is ready compared every resource of the project (`BuildTells`) |
| `SearchesStayComplete` (`ClientProofs`): `SearchComplete` | keys, limits, page sizes, number of changes | whatever matched throughout and comes no later than the cursor has been read (`Covered`); a page of a cluster that keeps to its contract has no gap (`AnswerIs`), and only a page taken whole moves the cursor or completes the search (`PageTaken`) |
| `SearchesKeepTheirTypes` (`ClientProofs`): `SearchTypes` | as above, and a cluster that answers anything | the room left for items bounds what a page adds (`FirstOfIs`) |
| `ScansAreHonest` (`ScanProofs`): `ScanHonest` | names, trees of any depth and shape, ignore files, files, roots, number of interferences | see below |
| `ScansInPlace` (`ScanProofs`): `ScannedInPlace` | as above | the directories a scan holds open are a way down from the root of the project (`Linked`), so a verification of all of them is one of the path |
| `SilentTimersAreReached` (`WorkbenchProofs`): `SilentTimersReached` | process: elements, flows, nesting | see below |
| `PathsAreTold` (`WorkbenchProofs`): `PathsToldOnce` | as above | see below |
| `QuietProcessesFinish` (`WorkbenchProofs`): `QuietFinishes` | as above | see below |

The proof of the scan is the longest of the project, because its promise is about a tree
that changes under it. `ScanInvariant` says, at each point of the walk: the open
directories are linked from the root, each by the entry it was opened by (`Chain`,
`Linked`); along a path that nobody has touched, what the scan holds is what is there:
the directories, the ignore rules that were in force and the names still to do
(`Sees`, `Sight`, `Reads`); every path of this kind below a root that is done or under way
is told, or excused, or still ahead (`Covers`, `Closes`); what was discovered is counted
once (`Counted`); what was found was there (`Seen`); nothing free is in the tree
(`Allocated`). A path that is touched leaves `steady`, so an interference has to be shown
to disturb only claims about paths it took away (`OtherKeeps`). The reference definition
of what excuses a path (`Excused`) goes through the ignore files from the root down; that
the walk's one list of rules says the same is proved from the last rule that matches. From
`ScanAssumption`: names are positive, new files and directories are empty of entries, and
no entry leads to an inode that is free.

The proofs about processes are about recursive functions over sets of elements and over
paths. From `GraphAssumption`: elements and flows are finitely many with positive numbers,
and nesting is well-founded, as it is for what a parser reads from nested XML elements.
Each function is shown to obey its equation by giving a solution (the closure under the
flows, the set of the simple paths), and to have its value by a least counterexample
(`LeastOf`), which takes the place of an induction over the data. `QuietProcessesFinish` is
an equivalence. That a quiet process finishes (`QuietIsFinishing`): of the elements outside of
a set closed under the rules of `Finishing` take those of a scope that is nested innermost
(`InnermostExists`); each leads on to another of them, so some way goes round
(`LeadingOnGoesRound`), and it is one of the cycles that would have been told. That one
which finishes is quiet: the elements off a cycle, and those that are not a given dead end,
are closed under the rules (`FinishingIsQuiet`).

The services of a diagnosis are distinct from its other checks (`ServicesAssumption`),
as service names of the compose file are from the dotted names of the checks; the inputs
of a review are inputs (`ReviewAssumption`); keys are positive numbers and finitely many
(`SearchAssumption`), 0 being the empty cursor. `OnePort` is the hypothesis that makes
`StopStops` true, see above.

## 8. What stays with TLC

The theorems are about safety. Not proved, and checked on the instances only:

* liveness (`LockReleased`, `EveryCallReturns`, `FollowEnds`): the prover has no rules for
  fairness and ENABLED that would carry these arguments;
* `DiffSilentIffSame`: it is true of the instance, and not of every pair of documents, so
  there is no theorem. `Compare` tells elements apart by colour refinement, which does not
  tell apart all graphs: with four equal tasks between a start and an end event, two loops
  of two tasks each and one loop of all four have the same colours, and TLC shows that
  `Compare` then reports nothing, though ids are kept and two flows lead elsewhere. Tasks
  with names of their own have colours of their own, so a real process hardly meets it;
* `WorkbenchTypes`: the types of the modules of `MCWorkbench`. The theorems have their own:
  `SearchTypes` and the typed part of each inductive invariant.

## 9. Not modelled

Parsing and formatting: BPMN and DMN XML and their canonical form, YAML, the tar and
gzip formats, test templates, prompts, reports and tables. They appear as the choice of
their outcome where a step depends on it. `env` validation and redaction of profiles,
project discovery and scaffolding and service URLs keep no state. Flags, prompts and output
of the command line, and sessions, encoding and downloads of the Lab UI's routes, are left
out; of both, `Fronts` has how they end. The web client is presentation. What runs
concurrently in the handlers is what runs concurrently in the models of the services.
The SSO proxy forwards requests. Of the toolkit service the publication of artifacts by
plain writes is left out; generation goes through `ArtifactWriter`. Of the lab's
lifecycle, the commands that only read are left out.

Docker, the Camunda cluster, the token endpoint, GitHub, Git and the operating system are
outside `src/` and appear only through what the code asks of them.
