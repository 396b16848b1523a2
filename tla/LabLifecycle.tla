----------------------------- MODULE LabLifecycle -----------------------------
(***************************************************************************)
(* The commands that install, start, stop and change the lab               *)
(* (src/internal/lab, with versions, overlay and compose below it).        *)
(*                                                                         *)
(* A command is a chain of stages, and a stage some steps; each step       *)
(* reads or changes one of: config.yaml (under its flock), the other files *)
(* of the lab home, docker.  No lock spans two steps, so commands of the   *)
(* CLI and handlers of the Lab UI interleave between any two, and a        *)
(* command may fail or die between any two.                                *)
(*                                                                         *)
(* Docker is modelled by what the code asks of it: the containers of the   *)
(* compose project by service, the containers of others that hold a name   *)
(* the lab needs, and which versions have written to the volumes.          *)
(***************************************************************************)
EXTENDS Integers, Sequences

CONSTANTS
  Procs,        \* CLI commands and Lab UI handlers that run at once
  Requests,     \* what they are asked to do
  Alone,        \* the requests a user makes only while nothing else runs
  Services,     \* the names of compose services
  Upstream,     \* the services of Camunda's file of each version and profile
  Labs,         \* the settings of the labs found at first, None for no lab
  Strangers,    \* the containers of others found at first
  FailPoints,   \* the steps that may fail
  Crashes,      \* whether a command may die
  MaxCommands, MaxFaults,  \* the bounds on commands and on failures
  None

Versions == {"8.7", "8.8", "8.9", "8.10"}
Profiles == {"light", "full", "modeler"}
Resources == {"small", "balanced", "power"}
Monitoring == <<"prometheus", "grafana", "elasticsearch-exporter">>

KnownFixedNames ==
  {"postgres", "keycloak", "elasticsearch", "zeebe", "operate", "tasklist",
   "connectors", "optimize", "identity", "console", "web-modeler", "mailpit"}

Config == [version : Versions, profile : Profiles, resources : Resources,
           ai : BOOLEAN, monitoring : BOOLEAN]

Defaults == [version |-> "8.8", profile |-> "light", resources |-> "balanced",
             ai |-> FALSE, monitoring |-> FALSE]

Overlays == {"elasticsearch-8.10", "elasticsearch-cors", "elasticvue",
             "http-headers", "csrf-disabled", "connectors-ai-secrets",
             "monitoring"}

(* A request names a value for each setting, or None to keep what is.      *)
Request == [kind : {"install", "up", "down", "restart", "switch", "profile",
                    "resources", "enable-ai", "disable-ai",
                    "enable-monitoring", "disable-monitoring", "service",
                    "recover", "nuke"},
            version : Versions \cup {None}, profile : Profiles \cup {None},
            resources : Resources \cup {None}, service : Services \cup {None},
            ai : BOOLEAN, wipe : BOOLEAN]

Image == [version : Versions, resources : Resources \cup {None}, ai : BOOLEAN]

ASSUME ConstantsAssumption ==
  /\ None \notin Procs \cup Services \cup Versions \cup Profiles \cup Resources
  /\ None \notin Config /\ None \notin Image
  /\ Requests \subseteq Request /\ Alone \subseteq Requests
  /\ Upstream \in [Versions -> [Profiles -> SUBSET Services]]
  /\ {"elasticsearch", "elasticvue", "connectors"} \subseteq Services
  /\ {Monitoring[i] : i \in 1..3} \subseteq Services
  /\ Labs \subseteq Config \cup {None}
  /\ Strangers \subseteq [Services -> {"none", "leftover", "running"}]
  /\ Crashes \in BOOLEAN
  /\ MaxCommands \in Nat /\ MaxFaults \in Nat

VARIABLES
  config,     \* config.yaml, or None
  dist,       \* the profiles whose compose file each version directory has
  overlays,   \* the files of the overlays directory
  resEnv,     \* the setting resources.env was written for, or None
  secrets,    \* whether ai.env exists
  containers, \* what each service's container was made from, or None
  strangers,  \* who else holds the name of a service: nobody, a stopped
              \* Camunda container, or one that may not be removed
  volumes,    \* the versions that have written to the lab's volumes
  proc,       \* each process: its command and where it is in it
  solo,       \* history: the process of the last command, if it had no company
  commands, faults

home == <<dist, overlays, resEnv, secrets>>
docker == <<containers, strangers, volumes>>
vars == <<config, home, docker, proc, solo, commands, faults>>
-------------------------------------------------------------------------------
(* Versions and overlays.                                                  *)

SupportsAIFeature(v, p) == v \in {"8.9", "8.10"} /\ p \in {"light", "full"}

HasHostElasticsearch(v, p) ==
  p = "full" \/ (p = "light" /\ v \in {"8.7", "8.8"})

(* The files by which Ensure knows a distribution: docker-compose.yaml and *)
(* docker-compose-core.yaml, which are of these profiles.                  *)
Markers(v) == IF v = "8.7" THEN {"light", "full"} ELSE {"light"}

ComposeOverrideFiles(c) ==
  {o \in Overlays :
    \/ o = "elasticsearch-8.10" /\ c.version = "8.10" /\ c.profile = "full"
    \/ o \in {"elasticsearch-cors", "elasticvue"}
       /\ HasHostElasticsearch(c.version, c.profile)
    \/ o = "http-headers" /\ c.profile = "full"
    \/ o = "csrf-disabled" /\ c.profile \in {"light", "full"}
    \/ o = "connectors-ai-secrets" /\ c.ai
       /\ SupportsAIFeature(c.version, c.profile)
    \/ o = "monitoring" /\ c.monitoring}

(* The services an overlay adds; the others change services there are.     *)
AddedBy(o) ==
  CASE o = "elasticsearch-8.10" -> {"elasticsearch"}
    [] o = "elasticvue" -> {"elasticvue"}
    [] o = "monitoring" -> {Monitoring[i] : i \in 1..3}
    [] OTHER -> {}

ServicesOf(c) ==
  Upstream[c.version][c.profile]
    \cup UNION {AddedBy(o) : o \in ComposeOverrideFiles(c)}

(* config.Load: the settings there are, or the defaults.                   *)
Loaded(c) == IF c = None THEN Defaults ELSE c
-------------------------------------------------------------------------------
(* Commands as chains of stages: what comes after each stage of a command, *)
(* and first of all after "begin".                                         *)

EnableAI(stage) ==
  CASE stage = "begin" -> "validate"
    [] stage = "validate" -> "secrets"
    [] stage = "secrets" -> "enable"
    [] stage = "enable" -> "connectors"
    [] OTHER -> "end"

Install(r, stage) ==
  CASE stage = "begin" -> "ensure"
    [] stage = "ensure" -> "settings"
    [] stage = "settings" /\ r.ai -> "check"
    [] stage = "settings" /\ ~r.ai -> "start"
    [] stage = "check" -> "start"
    [] stage = "start" /\ r.ai -> EnableAI("begin")
    [] OTHER -> EnableAI(stage)

Switch(r, stage) ==
  CASE stage = "begin" /\ r.ai -> "precheck"
    [] stage = "begin" /\ ~r.ai -> "try stop"
    [] stage = "precheck" -> "try stop"
    [] stage = "try stop" -> "version"
    [] stage = "version" -> "ensure"
    [] stage = "ensure" -> "start"
    [] stage = "start" /\ r.ai -> EnableAI("begin")
    [] OTHER -> EnableAI(stage)

SetProfile(stage) ==
  CASE stage = "begin" -> "try stop"
    [] stage = "try stop" -> "profile"
    [] stage = "profile" -> "start"
    [] OTHER -> "end"

SetResources(stage) ==
  CASE stage = "begin" -> "resources"
    [] stage = "resources" -> "sync"
    [] OTHER -> "end"

(* Mutant: the connectors are made anew before the setting is changed.     *)
DisableAILate(r, stage) ==
  CASE stage = "begin" -> "connectors"
    [] stage = "connectors" -> "disable"
    [] OTHER -> "end"

DisableAI(r, stage) ==
  CASE stage = "begin" -> "disable"
    [] stage = "disable" /\ r.wipe -> "forget"
    [] stage = "disable" /\ ~r.wipe -> "connectors"
    [] stage = "forget" -> "connectors"
    [] OTHER -> "end"

EnableMonitoring(stage) ==
  CASE stage = "begin" -> "monitor"
    [] stage = "monitor" -> "monitoring"
    [] OTHER -> "end"

DisableMonitoring(stage) ==
  CASE stage = "begin" -> "unmonitor"
    [] stage = "unmonitor" -> "remove"
    [] OTHER -> "end"

Restart(stage) ==
  CASE stage = "begin" -> "stop"
    [] stage = "stop" -> "start"
    [] OTHER -> "end"

Nuke(stage) ==
  CASE stage = "begin" -> "try stop"
    [] stage = "try stop" -> "erase"
    [] OTHER -> "end"

Single(only, stage) == IF stage = "begin" THEN only ELSE "end"

Following(r, stage) ==
  CASE r.kind = "install" -> Install(r, stage)
    [] r.kind = "up" -> Single("start", stage)
    [] r.kind = "down" -> Single("stop", stage)
    [] r.kind = "restart" -> Restart(stage)
    [] r.kind = "switch" -> Switch(r, stage)
    [] r.kind = "profile" -> SetProfile(stage)
    [] r.kind = "resources" -> SetResources(stage)
    [] r.kind = "enable-ai" -> EnableAI(stage)
    [] r.kind = "disable-ai" -> DisableAI(r, stage)
    [] r.kind = "enable-monitoring" -> EnableMonitoring(stage)
    [] r.kind = "disable-monitoring" -> DisableMonitoring(stage)
    [] r.kind = "service" -> Single("service", stage)
    [] r.kind = "recover" -> Single("recover", stage)
    [] r.kind = "nuke" -> Nuke(stage)

(* Stages that load the config, resolve the files of its stack, and ask    *)
(* compose something about them.                                           *)
Composing == {"start", "stop", "try stop", "connectors", "monitoring",
              "service", "recover"}
Stopping == {"stop", "try stop"}
Updating == {"settings", "version", "profile", "resources", "enable",
             "disable", "monitor", "unmonitor"}
Stages == Composing \cup Updating \cup
          {"ensure", "check", "precheck", "validate", "secrets", "forget",
           "sync", "remove", "erase"}

Entry(stage) == CASE stage \in Composing -> "load"
                  [] stage = "ensure" -> "look"
                  [] stage = "end" -> "idle"
                  [] OTHER -> stage

Points == {"idle", "load", "resolve", "down", "clear", "reconcile", "up",
           "remediate", "again", "recreate", "look", "fetch", "unzip"}
            \cup (Stages \ (Composing \cup {"ensure"}))

Process == [req : Requests \cup {None}, want : Config,
            stage : Stages \cup {"end"}, at : Points,
            cfg : Config, env : BOOLEAN, turn : 1..3,
            hit : BOOLEAN, result : {"none", "ok", "failed", "crashed"}]

TypeOK ==
  /\ config \in Config \cup {None}
  /\ dist \in [Versions -> SUBSET Profiles]
  /\ overlays \subseteq Overlays
  /\ resEnv \in Resources \cup {None}
  /\ secrets \in BOOLEAN
  /\ containers \in [Services -> Image \cup {None}]
  /\ strangers \in [Services -> {"none", "leftover", "running"}]
  /\ volumes \subseteq Versions
  /\ proc \in [Procs -> Process]
  /\ solo \in Procs \cup {None}
  /\ commands \in Nat /\ faults \in Nat

Idle == [req |-> None, want |-> Defaults, stage |-> "end", at |-> "idle",
         cfg |-> Defaults, env |-> FALSE, turn |-> 1, hit |-> FALSE,
         result |-> "none"]

(* No lab home, or that of a lab which has been installed and runs.        *)
Init ==
  /\ config \in Labs
  /\ LET c == Loaded(config)
         there == config # None
     IN  /\ dist = [v \in Versions |->
                     IF there /\ v = c.version THEN Profiles ELSE {}]
         /\ overlays = IF there THEN ComposeOverrideFiles(c) ELSE {}
         /\ resEnv = IF there THEN c.resources ELSE None
         /\ secrets = (there /\ c.ai)
         /\ containers = [s \in Services |->
              IF there /\ s \in ServicesOf(c)
              THEN [version |-> c.version, resources |-> c.resources,
                    ai |-> s = "connectors" /\ c.ai]
              ELSE None]
         /\ volumes = IF there THEN {c.version} ELSE {}
  /\ strangers \in {x \in Strangers :
                      \A s \in Services : containers[s] # None => x[s] = "none"}
  /\ proc = [p \in Procs |-> Idle]
  /\ solo = None
  /\ commands = 0 /\ faults = 0
-------------------------------------------------------------------------------
(* How a process goes on: to a point of its stage, to the next stage, or,  *)
(* when its stage has failed, to the end unless the command ignores that.  *)

Goto(p, point) == proc' = [proc EXCEPT ![p].at = point]

Advanced(q) ==
  LET next == Following(q.req, q.stage)
  IN  [q EXCEPT !.stage = next, !.at = Entry(next),
                !.result = IF next = "end" THEN "ok" ELSE "none"]

Aborted(q) ==
  IF q.stage = "try stop"
  THEN Advanced(q)
  ELSE [q EXCEPT !.stage = "end", !.at = "idle", !.result = "failed"]

Advance(p) == proc' = [proc EXCEPT ![p] = Advanced(@)]
Abort(p) == proc' = [proc EXCEPT ![p] = Aborted(@)]

(* The step at this point meets a failure of the disk, network or docker.  *)
Hit(p, point) ==
  /\ point \in FailPoints
  /\ faults < MaxFaults
  /\ faults' = faults + 1
  /\ proc' = [proc EXCEPT ![p] = Aborted([@ EXCEPT !.hit = TRUE])]

NoHit == UNCHANGED <<solo, commands, faults>>

Busy(p) == proc[p].at # "idle"
Others(p) == Procs \ {p}

(* The settings a request asks for; what it leaves open stays as it is.    *)
Want(r) ==
  LET c == Loaded(config)
      Or(value, old) == IF value = None THEN old ELSE value
  IN  [c EXCEPT !.version = Or(r.version, @), !.profile = Or(r.profile, @),
                !.resources = Or(r.resources, @)]

(* A command begins.  A user who waits makes a request of Alone while      *)
(* nothing runs, and nothing else until it has ended.                      *)
Begin(p, r) ==
  /\ ~Busy(p) /\ commands < MaxCommands
  /\ \A o \in Others(p) : Busy(o) => r \notin Alone /\ proc[o].req \notin Alone
  /\ proc' = [proc EXCEPT ![p] =
       [Idle EXCEPT !.req = r, !.want = Want(r), !.stage = Following(r, "begin"),
                    !.at = Entry(Following(r, "begin"))]]
  /\ solo' = IF \E o \in Others(p) : Busy(o) THEN None ELSE p
  /\ commands' = commands + 1
  /\ UNCHANGED <<config, home, docker, faults>>

(* The process of a command dies.                                          *)
Crash(p) ==
  /\ Crashes /\ Busy(p) /\ faults < MaxFaults
  /\ faults' = faults + 1
  /\ proc' = [proc EXCEPT ![p].stage = "end", ![p].at = "idle",
                          ![p].hit = TRUE, ![p].result = "crashed"]
  /\ UNCHANGED <<config, home, docker, solo, commands>>
-------------------------------------------------------------------------------
(* Settings and secrets.                                                   *)

(* Each mutation as its command applies it to the settings under the lock. *)
DropAI(c) ==
  [c EXCEPT !.ai = @ /\ SupportsAIFeature(c.version, c.profile)]

(* Mutants: a profile update that writes the version; a switch that leaves *)
(* AI as it is.                                                            *)
MutatedField(at, want, c) ==
  CASE at = "settings" -> [c EXCEPT !.version = want.version,
                                    !.profile = want.profile,
                                    !.resources = want.resources]
    [] at = "profile" -> DropAI([c EXCEPT !.profile = want.version])
    [] OTHER -> c

MutatedKeepingAI(at, want, c) ==
  CASE at = "settings" -> [c EXCEPT !.version = want.version,
                                    !.profile = want.profile,
                                    !.resources = want.resources]
    [] at = "version" -> [c EXCEPT !.version = want.version]
    [] at = "enable" -> [c EXCEPT !.ai = TRUE]
    [] OTHER -> c

Mutated(at, want, c) ==
  CASE at = "settings" -> [c EXCEPT !.version = want.version,
                                    !.profile = want.profile,
                                    !.resources = want.resources]
    [] at = "version" -> DropAI([c EXCEPT !.version = want.version])
    [] at = "profile" -> DropAI([c EXCEPT !.profile = want.profile])
    [] at = "resources" -> [c EXCEPT !.resources = want.resources]
    [] at = "enable" -> [c EXCEPT !.ai = TRUE]
    [] at = "disable" -> [c EXCEPT !.ai = FALSE]
    [] at = "monitor" -> [c EXCEPT !.monitoring = TRUE]
    [] at = "unmonitor" -> [c EXCEPT !.monitoring = FALSE]

(* Mutant: what is mutated and written is the settings loaded earlier.     *)
UpdateStale(p) ==
  /\ proc[p].at \in Updating
  /\ \/ /\ config' = Mutated(proc[p].at, proc[p].want, proc[p].cfg)
        /\ Advance(p) /\ NoHit
     \/ /\ Hit(p, "update") /\ UNCHANGED <<config, solo, commands>>
  /\ UNCHANGED <<home, docker>>

(* config.Update: load, mutate and write under the flock.                  *)
Update(p) ==
  /\ proc[p].at \in Updating
  /\ \/ /\ config' = Mutated(proc[p].at, proc[p].want, Loaded(config))
        /\ Advance(p) /\ NoHit
     \/ /\ Hit(p, "update") /\ UNCHANGED <<config, solo, commands>>
  /\ UNCHANGED <<home, docker>>

(* ai.ValidateForEnable with what the command knows of version and profile *)
Supported(q) ==
  LET c == Loaded(config)
  IN  \/ q.at = "check" /\ SupportsAIFeature(q.want.version, q.want.profile)
      \/ q.at = "precheck" /\ SupportsAIFeature(q.want.version, c.profile)
      \/ q.at = "validate" /\ SupportsAIFeature(c.version, c.profile)

Check(p) ==
  /\ proc[p].at \in {"check", "precheck", "validate"}
  /\ IF Supported(proc[p]) THEN Advance(p) ELSE Abort(p)
  /\ NoHit /\ UNCHANGED <<config, home, docker>>

WriteSecrets(p) ==
  /\ proc[p].at = "secrets"
  /\ \/ secrets' = TRUE /\ Advance(p) /\ NoHit
     \/ Hit(p, "secrets") /\ UNCHANGED <<secrets, solo, commands>>
  /\ UNCHANGED <<config, dist, overlays, resEnv, docker>>

DeleteSecretsFile(p) ==
  /\ proc[p].at = "forget"
  /\ \/ secrets' = FALSE /\ Advance(p) /\ NoHit
     \/ Hit(p, "forget") /\ UNCHANGED <<secrets, solo, commands>>
  /\ UNCHANGED <<config, dist, overlays, resEnv, docker>>

SyncResourcesEnv(p) ==
  /\ proc[p].at = "sync"
  /\ \/ resEnv' = proc[p].want.resources /\ Advance(p) /\ NoHit
     \/ Hit(p, "sync") /\ UNCHANGED <<resEnv, solo, commands>>
  /\ UNCHANGED <<config, dist, overlays, secrets, docker>>

(* Nuke: everything under the lab home goes; when a file cannot be removed *)
(* any part of the rest may stay.                                          *)
Erase(p) ==
  /\ proc[p].at = "erase"
  /\ \/ /\ config' = None /\ secrets' = FALSE /\ resEnv' = None
        /\ dist' = [v \in Versions |-> {}] /\ overlays' = {}
        /\ Advance(p) /\ NoHit
     \/ /\ Hit(p, "erase") /\ UNCHANGED <<solo, commands>>
        /\ config' \in {config, None} /\ secrets' \in {secrets, FALSE}
        /\ resEnv' \in {resEnv, None} /\ overlays' \in {overlays, {}}
        /\ \E gone \in SUBSET Versions :
             dist' = [v \in Versions |-> IF v \in gone THEN {} ELSE dist[v]]
  /\ UNCHANGED docker
-------------------------------------------------------------------------------
(* versions.Ensure: a distribution is taken for present by its marker,     *)
(* otherwise fetched, the directory removed and the archive unpacked.      *)

EnsureLook(p) ==
  /\ proc[p].at = "look"
  /\ IF dist[proc[p].want.version] \cap Markers(proc[p].want.version) # {}
     THEN Advance(p) ELSE Goto(p, "fetch")
  /\ NoHit /\ UNCHANGED <<config, home, docker>>

EnsureFetch(p) ==
  /\ proc[p].at = "fetch"
  /\ \/ /\ dist' = [dist EXCEPT ![proc[p].want.version] = {}]
        /\ Goto(p, "unzip") /\ NoHit
     \/ Hit(p, "fetch") /\ UNCHANGED <<dist, solo, commands>>
  /\ UNCHANGED <<config, overlays, resEnv, secrets, docker>>

EnsureUnzip(p) ==
  /\ proc[p].at = "unzip"
  /\ \/ /\ dist' = [dist EXCEPT ![proc[p].want.version] = Profiles]
        /\ Advance(p) /\ NoHit
     \/ /\ Hit(p, "unzip") /\ UNCHANGED <<solo, commands>>
        /\ \E part \in SUBSET Profiles :
             dist' = [dist EXCEPT ![proc[p].want.version] = @ \cup part]
  /\ UNCHANGED <<config, overlays, resEnv, secrets, docker>>
-------------------------------------------------------------------------------
(* Compose.                                                                *)

Load(p) ==
  /\ proc[p].at = "load"
  /\ proc' = [proc EXCEPT ![p].cfg = Loaded(config), ![p].at = "resolve"]
  /\ NoHit /\ UNCHANGED <<config, home, docker>>

AfterResolve(q) ==
  CASE q.stage \in Stopping -> "down"
    [] q.stage \in {"start", "recover"} -> "clear"
    [] OTHER -> "recreate"

(* lab.resolve: find the compose file, write the overlays and resources.env*)
(* and choose the env files.                                               *)
Resolve(p) ==
  LET q == proc[p]
  IN  /\ q.at = "resolve"
      /\ \/ /\ q.cfg.profile \in dist[q.cfg.version]
            /\ overlays' = overlays \cup ComposeOverrideFiles(q.cfg)
            /\ resEnv' = q.cfg.resources
            /\ proc' = [proc EXCEPT ![p].env = q.cfg.ai /\ secrets,
                                    ![p].turn = 1,
                                    ![p].at = AfterResolve(q)]
            /\ NoHit
         \/ /\ q.cfg.profile \notin dist[q.cfg.version]
            /\ Abort(p) /\ NoHit /\ UNCHANGED <<overlays, resEnv>>
         \/ /\ q.cfg.profile \in dist[q.cfg.version]
            /\ Hit(p, "resolve") /\ UNCHANGED <<resEnv, solo, commands>>
            /\ \E written \in SUBSET ComposeOverrideFiles(q.cfg) :
                 overlays' = overlays \cup written
      /\ UNCHANGED <<config, dist, secrets, docker>>

(* The -f files, and the --env-file files, are where compose looks.        *)
FilesPresent(q) ==
  /\ q.cfg.profile \in dist[q.cfg.version]
  /\ ComposeOverrideFiles(q.cfg) \subseteq overlays

EnvPresent(q) == resEnv # None /\ (q.env => secrets)

(* Whether this down is asked to remove the volumes.                       *)
Wiping(q) ==
  \/ q.req.kind \in {"nuke", "recover"}
  \/ q.req.kind = "switch" /\ q.stage = "try stop" /\ q.req.wipe

Removed(gone) == [s \in Services |-> IF s \in gone THEN None ELSE containers[s]]

(* compose down: the containers of the services in its files; with         *)
(* volumes also the orphans.                                               *)
Doomed(q) ==
  IF Wiping(q) THEN Services ELSE ServicesOf(q.cfg)

Stopped(q) ==
  /\ FilesPresent(q)
  /\ containers' = Removed(Doomed(q))
  /\ volumes' = IF Wiping(q) THEN {} ELSE volumes

(* It fails, having removed some of them.                                  *)
StopFails(q) ==
  /\ \E gone \in SUBSET Doomed(q) : containers' = Removed(gone)
  /\ UNCHANGED volumes

ComposeDown(p) ==
  LET q == proc[p]
  IN  /\ q.at = "down"
      /\ \/ Stopped(q) /\ Advance(p) /\ NoHit
         \/ ~FilesPresent(q) /\ Abort(p) /\ NoHit
            /\ UNCHANGED <<containers, volumes>>
         \/ StopFails(q) /\ Hit(p, "down") /\ UNCHANGED <<solo, commands>>
      /\ UNCHANGED <<config, home, strangers>>

(* startStack and Recover: the same, with its error ignored.               *)
Clear(p) ==
  LET q == proc[p]
  IN  /\ q.at = "clear"
      /\ \/ Stopped(q) /\ NoHit
         \/ ~FilesPresent(q) /\ NoHit /\ UNCHANGED <<containers, volumes>>
         \/ /\ "clear" \in FailPoints /\ faults < MaxFaults
            /\ StopFails(q)
            /\ faults' = faults + 1 /\ UNCHANGED <<solo, commands>>
      /\ Goto(p, "reconcile")
      /\ UNCHANGED <<config, home, strangers>>

(* CanSafelyRemove: our own, and stopped ones of Camunda.                  *)
RemoveByName(names) ==
  /\ containers' = Removed(names)
  /\ strangers' = [s \in Services |->
       IF s \in names /\ strangers[s] = "leftover" THEN "none" ELSE strangers[s]]

Reconcile(p) ==
  /\ proc[p].at = "reconcile"
  /\ RemoveByName(KnownFixedNames)
  /\ IF proc[p].stage = "recover" THEN Advance(p) ELSE Goto(p, "up")
  /\ NoHit /\ UNCHANGED <<config, home, volumes>>

ImageOf(q, s) ==
  [version |-> q.cfg.version, resources |-> resEnv,
   ai |-> s = "connectors" /\ q.env
          /\ "connectors-ai-secrets" \in ComposeOverrideFiles(q.cfg)]

Made(q, new) ==
  [s \in Services |-> IF s \in new THEN ImageOf(q, s) ELSE containers[s]]

Conflicts(q) == {s \in ServicesOf(q.cfg) : strangers[s] # "none"}

(* compose up: all services of the files, or some when it fails.           *)
ComposeUp(p) ==
  LET q == proc[p]
  IN  /\ q.at \in {"up", "again"}
      /\ FilesPresent(q) /\ EnvPresent(q) /\ Conflicts(q) = {}
      /\ containers' = Made(q, ServicesOf(q.cfg))
      /\ volumes' = volumes \cup {q.cfg.version}
      /\ Advance(p) /\ NoHit /\ UNCHANGED <<config, home, strangers>>

ComposeUpFails(p) ==
  LET q == proc[p]
      some == {s \in ServicesOf(q.cfg) : strangers[s] = "none"}
  IN  /\ q.at \in {"up", "again"}
      /\ \/ /\ ~FilesPresent(q) \/ ~EnvPresent(q)
            /\ Abort(p) /\ NoHit /\ UNCHANGED <<containers, volumes>>
         \/ /\ FilesPresent(q) /\ EnvPresent(q) /\ Conflicts(q) # {}
            /\ \E new \in SUBSET some : containers' = Made(q, new)
            /\ volumes' \in {volumes, volumes \cup {q.cfg.version}}
            /\ IF q.at = "up" THEN Goto(p, "remediate") ELSE Abort(p)
            /\ NoHit
         \/ /\ Hit(p, "up") /\ UNCHANGED <<solo, commands>>
            /\ \E new \in SUBSET some : containers' = Made(q, new)
            /\ volumes' \in {volumes, volumes \cup {q.cfg.version}}
      /\ UNCHANGED <<config, home, strangers>>

(* tryRemediateNameConflicts: of the names compose reports, those that may *)
(* be removed are, and if there was one compose is asked once more.        *)
Remediate(p) ==
  LET q == proc[p]
  IN  /\ q.at = "remediate"
      /\ \E reported \in SUBSET Conflicts(q) :
           /\ RemoveByName(reported)
           /\ IF \E s \in reported : strangers[s] = "leftover"
              THEN Goto(p, "again") ELSE Abort(p)
      /\ NoHit /\ UNCHANGED <<config, home, volumes>>

(* UpService: one service is made anew; for monitoring one after the other. *)
Target(q) ==
  CASE q.stage = "connectors" -> "connectors"
    [] q.stage = "monitoring" -> Monitoring[q.turn]
    [] q.stage = "service" -> q.req.service

Recreate(p) ==
  LET q == proc[p]
      s == Target(q)
      Can == /\ FilesPresent(q) /\ EnvPresent(q)
             /\ s \in ServicesOf(q.cfg) /\ strangers[s] = "none"
  IN  /\ q.at = "recreate"
      /\ \/ /\ Can
            /\ containers' = Made(q, {s})
            /\ proc' = [proc EXCEPT ![p] =
                 IF q.stage = "monitoring" /\ q.turn < 3
                 THEN [q EXCEPT !.turn = @ + 1]
                 ELSE Advanced(q)]
            /\ NoHit
         \/ ~Can /\ Abort(p) /\ NoHit /\ UNCHANGED containers
         \/ /\ Hit(p, "recreate") /\ UNCHANGED <<solo, commands>>
            /\ containers' \in {containers, Removed({s})}
      /\ UNCHANGED <<config, home, strangers, volumes>>

(* DisableMonitoring: its three containers, by name, until one fails.      *)
RemoveMonitoring(p) ==
  /\ proc[p].at = "remove"
  /\ \/ /\ containers' = Removed({Monitoring[i] : i \in 1..3})
        /\ Advance(p) /\ NoHit
     \/ /\ Hit(p, "remove") /\ UNCHANGED <<solo, commands>>
        /\ \E n \in 0..2 : containers' = Removed({Monitoring[i] : i \in 1..n})
  /\ UNCHANGED <<config, home, strangers, volumes>>
-------------------------------------------------------------------------------
Step(p) ==
  \/ Update(p) \/ Check(p) \/ WriteSecrets(p) \/ DeleteSecretsFile(p)
  \/ SyncResourcesEnv(p) \/ Erase(p)
  \/ EnsureLook(p) \/ EnsureFetch(p) \/ EnsureUnzip(p)
  \/ Load(p) \/ Resolve(p) \/ ComposeDown(p) \/ Clear(p) \/ Reconcile(p)
  \/ ComposeUp(p) \/ ComposeUpFails(p) \/ Remediate(p) \/ Recreate(p)
  \/ RemoveMonitoring(p)

Next == \E p \in Procs : Step(p) \/ Crash(p) \/ \E r \in Requests : Begin(p, r)

Spec == Init /\ [][Next]_vars
-------------------------------------------------------------------------------
(* AI is enabled only where it can be: the claim of docs/cli-reference.md, *)
(* "Requires Camunda 8.9+ and profile light or full".  It is broken.       *)
AISupported ==
  config # None /\ config.ai => SupportsAIFeature(config.version, config.profile)

(* How it is broken, and that nothing else does: an install records a      *)
(* version or profile without AI and leaves AI on (lab.go:121), or AI is   *)
(* enabled by a command that checked the settings before another one, in   *)
(* company with it, changed them (ai.go:17).  Never a switch of version or *)
(* profile, in whatever company and after whatever failed or died, and     *)
(* never a command that enables AI while nothing else runs.                *)
AISupportKept ==
  [][AISupported /\ ~AISupported' =>
       \E p \in Procs :
         /\ proc'[p] # proc[p]
         /\ \/ /\ proc[p].at = "settings"
               /\ ~SupportsAIFeature(proc[p].want.version, proc[p].want.profile)
            \/ proc[p].at = "enable" /\ solo # p]_config

Ended(p) == proc[p].at = "idle" /\ proc[p].result = "ok"
EndedKind(kinds) == solo # None /\ Ended(solo) /\ proc[solo].req.kind \in kinds

(* A command that nothing else ran beside and that reports success has     *)
(* done what it says, whatever failed or died before it: after a start     *)
(* every service of the configured stack runs as it is configured          *)
(* (lab.go:146, startup.go:15), after a stop none does, AI secrets and     *)
(* monitoring are in or out.                                               *)
Applied ==
  LET c == Loaded(config)
      secretsIn == "connectors-ai-secrets" \in ComposeOverrideFiles(c) /\ secrets
  IN  /\ EndedKind({"install", "up", "restart", "switch", "profile"}) =>
           \A s \in ServicesOf(c) : containers[s] =
             [version |-> c.version, resources |-> c.resources,
              ai |-> s = "connectors" /\ secretsIn]
      /\ EndedKind({"down"}) => \A s \in ServicesOf(c) : containers[s] = None
      /\ EndedKind({"enable-ai"}) => containers["connectors"].ai
      /\ EndedKind({"disable-ai"}) => ~containers["connectors"].ai
      /\ \A i \in 1..3 :
           /\ EndedKind({"enable-monitoring"}) => containers[Monitoring[i]] # None
           /\ EndedKind({"disable-monitoring"}) => containers[Monitoring[i]] = None

(* The settings a command is about.                                        *)
Asked(q) ==
  CASE q.req.kind = "install" -> {"version", "profile", "resources", "ai"}
    [] q.req.kind = "switch" -> {"version", "ai"}
    [] q.req.kind = "profile" -> {"profile", "ai"}
    [] q.req.kind = "resources" -> {"resources"}
    [] q.req.kind \in {"enable-ai", "disable-ai"} -> {"ai"}
    [] q.req.kind \in {"enable-monitoring", "disable-monitoring"} ->
         {"monitoring"}
    [] q.req.kind = "nuke" -> DOMAIN Defaults
    [] OTHER -> {}

(* No command undoes the settings of another: what a step changes in       *)
(* config.yaml its command is about, though commands run for minutes       *)
(* between reading the settings and writing them (config.go:96).           *)
SettingsKept ==
  [][\A f \in DOMAIN Defaults :
       Loaded(config')[f] # Loaded(config)[f] =>
         \E p \in Procs : proc'[p] # proc[p] /\ f \in Asked(proc[p])]_config

(* An install that meets no failure of its own ends well, whatever earlier *)
(* commands left: it is what the error of lab.go:359 sends the user to.    *)
InstallRepairs ==
  solo # None =>
    (proc[solo].req.kind = "install" /\ ~Busy(solo) /\ ~proc[solo].hit
       => Ended(solo))

(* After nuke, or a switch that wipes, no older version has left data in   *)
(* the volumes (docs/cli-reference.md:190).                                *)
EmptyDisks ==
  /\ EndedKind({"nuke"}) => volumes = {}
  /\ EndedKind({"switch"}) /\ proc[solo].req.wipe =>
       volumes \subseteq {proc[solo].want.version}
===============================================================================
