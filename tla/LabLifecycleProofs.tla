-------------------------- MODULE LabLifecycleProofs --------------------------
(***************************************************************************)
(* Theorems about LabLifecycle, for any processes, requests and failures.  *)
(*                                                                         *)
(* The argument: a command is at a point of its stage and its stage is one *)
(* of its kind of command (Placed).  While a command runs alone nobody     *)
(* changes the settings between its check of AI support and the update     *)
(* that enables AI (Enabling).                                             *)
(*                                                                         *)
(* For Applied: a process that has run alone so far knows the settings as  *)
(* they are, those its files were resolved from (Known), it is in a stage  *)
(* its command goes through (InChain), and what enabling and disabling AI  *)
(* rest on has been reached in the stages before (Reached).  Nothing else  *)
(* changes settings, secrets or containers, so the last stage of a command *)
(* finds what the stages before it have done.                              *)
(***************************************************************************)
EXTENDS LabLifecycle, TLAPS

(* The commands a stage is part of.                                        *)
Belongs(stage, r) ==
  /\ stage = "settings" => r.kind = "install"
  /\ stage = "version" => r.kind = "switch"
  /\ stage = "profile" => r.kind = "profile"
  /\ stage = "resources" => r.kind = "resources"
  /\ stage = "disable" => r.kind = "disable-ai"
  /\ stage = "monitor" => r.kind = "enable-monitoring"
  /\ stage = "unmonitor" => r.kind = "disable-monitoring"
  /\ stage = "erase" => r.kind = "nuke"
  /\ stage \in {"validate", "secrets", "enable"} =>
       \/ r.kind = "enable-ai"
       \/ r.ai /\ r.kind \in {"install", "switch"}

(* The stages that are a single step, the point of the same name.          *)
Simple == Stages \ (Composing \cup {"ensure"})
Ensuring == {"look", "fetch", "unzip"}

(* Where a process may be.                                                 *)
Placed(q) ==
  /\ q.stage = "end" <=> q.at = "idle"
  /\ q.at # "idle" => q.req \in Request /\ Belongs(q.stage, q.req)
  /\ q.stage \in Simple \/ q.at \in Simple => q.at = q.stage
  /\ q.stage = "ensure" <=> q.at \in Ensuring

(* A stage is followed by one of the same kind of command, AI is enabled   *)
(* right after its check, and no stage follows itself.                     *)
LEMMA FollowingBelongs ==
  ASSUME NEW r \in Request, NEW s \in Stages \cup {"begin"}, Belongs(s, r)
  PROVE  /\ Following(r, s) \in (Stages \cup {"end"}) \ {s}
         /\ Belongs(Following(r, s), r)
         /\ Following(r, s) = "secrets" => s = "validate"
         /\ Following(r, s) = "enable" => s = "secrets"
<1> USE DEF Belongs, Stages, Composing, Updating
<1>1. CASE r.kind = "install"
  <2>1. CASE r.ai
    BY <1>1, <2>1, ZenonT(40) DEF Following, Install, EnableAI
  <2>2. CASE ~r.ai
    BY <1>1, <2>2, ZenonT(40) DEF Following, Install, EnableAI
  <2> QED
    BY <2>1, <2>2
<1>2. CASE r.kind = "switch"
  <2>1. CASE r.ai
    BY <1>2, <2>1, ZenonT(40) DEF Following, Switch, EnableAI
  <2>2. CASE ~r.ai
    BY <1>2, <2>2, ZenonT(40) DEF Following, Switch, EnableAI
  <2> QED
    BY <2>1, <2>2
<1>3. CASE r.kind \in {"up", "down", "service", "recover"}
  BY <1>3, ZenonT(40) DEF Following, Single
<1>4. CASE r.kind = "restart"
  BY <1>4 DEF Following, Restart
<1>5. CASE r.kind = "profile"
  BY <1>5 DEF Following, SetProfile
<1>6. CASE r.kind = "resources"
  BY <1>6 DEF Following, SetResources
<1>7. CASE r.kind = "nuke"
  BY <1>7 DEF Following, Nuke
<1>8. CASE r.kind = "enable-ai"
  BY <1>8 DEF Following, EnableAI
<1>9. CASE r.kind = "disable-ai"
  BY <1>9, ZenonT(40) DEF Following, DisableAI
<1>10. CASE r.kind \in {"enable-monitoring", "disable-monitoring"}
  BY <1>10, ZenonT(40) DEF Following, EnableMonitoring, DisableMonitoring
<1> QED
  BY <1>1, <1>2, <1>3, <1>4, <1>5, <1>6, <1>7, <1>8, <1>9, <1>10 DEF Request

(* The entry of a stage is a point of it.                                  *)
LEMMA EntryPlaced ==
  ASSUME NEW r \in Request, NEW s \in Stages \cup {"end"}, Belongs(s, r),
         NEW q, q.req = r, q.stage = s, q.at = Entry(s)
  PROVE  Placed(q) /\ Entry(s) \in Points
BY DEF Placed, Entry, Points, Simple, Ensuring, Stages, Composing, Updating

(* A process goes on within its command, to the next stage or to the end.  *)
LEMMA AdvancedPlaced ==
  ASSUME NEW q \in Process, Placed(q), q.at # "idle"
  PROVE  /\ Advanced(q) \in Process /\ Placed(Advanced(q))
         /\ Advanced(q).req = q.req /\ Advanced(q).want = q.want
         /\ Advanced(q).stage = Following(q.req, q.stage)
         /\ Advanced(q) # q
<1> DEFINE next == Following(q.req, q.stage)
<1>1. q.req \in Request /\ q.stage \in Stages /\ Belongs(q.stage, q.req)
  BY DEF Placed, Process
<1>2. next \in (Stages \cup {"end"}) \ {q.stage} /\ Belongs(next, q.req)
  BY <1>1, FollowingBelongs
<1> HIDE DEF next
<1>3. /\ Advanced(q) = [q EXCEPT !.stage = next, !.at = Entry(next),
                                 !.result = IF next = "end" THEN "ok" ELSE "none"]
  BY DEF Advanced, next
<1>4. /\ Advanced(q).req = q.req /\ Advanced(q).stage = next
      /\ Advanced(q).at = Entry(next) /\ Advanced(q).want = q.want
  BY <1>3 DEF Process
<1>5. Placed(Advanced(q)) /\ Entry(next) \in Points
  BY <1>1, <1>2, <1>4, EntryPlaced
<1>6. Advanced(q) \in Process
  BY <1>2, <1>3, <1>5 DEF Process
<1>7. Advanced(q) # q
  BY <1>2, <1>4
<1> QED
  BY <1>4, <1>5, <1>6, <1>7 DEF next

LEMMA AbortedPlaced ==
  ASSUME NEW q \in Process, Placed(q), q.at # "idle"
  PROVE  /\ Aborted(q) \in Process /\ Placed(Aborted(q))
         /\ Aborted(q).req = q.req /\ Aborted(q).want = q.want
         /\ Aborted(q).stage \in {Following(q.req, q.stage), "end"}
<1>1. CASE q.stage = "try stop"
  BY <1>1, AdvancedPlaced DEF Aborted
<1>2. CASE q.stage # "try stop"
  <2>1. Aborted(q) = [q EXCEPT !.stage = "end", !.at = "idle", !.result = "failed"]
    BY <1>2 DEF Aborted
  <2>2. Aborted(q) \in Process
    BY <2>1 DEF Process, Points
  <2>3. /\ Aborted(q).req = q.req /\ Aborted(q).want = q.want
        /\ Aborted(q).stage = "end" /\ Aborted(q).at = "idle"
    BY <2>1 DEF Process
  <2>4. Placed(Aborted(q))
    BY <2>3 DEF Placed, Simple, Ensuring, Stages, Composing, Updating
  <2> QED
    BY <2>2, <2>3, <2>4
<1> QED
  BY <1>1, <1>2
-------------------------------------------------------------------------------
ProcTypes == proc \in [Procs -> Process] /\ \A p \in Procs : Placed(proc[p])

(* Process p goes on within its command.                                   *)
Moved(p) ==
  /\ proc' \in [Procs -> Process]
  /\ \A o \in Others(p) : proc'[o] = proc[o]
  /\ Busy(p) /\ Placed(proc'[p])
  /\ proc'[p].req = proc[p].req /\ proc'[p].want = proc[p].want
  /\ proc'[p].stage \in
       {proc[p].stage, Following(proc[p].req, proc[p].stage), "end"}

LEMMA MoveAdvance ==
  ASSUME NEW p \in Procs, ProcTypes, Busy(p), Advance(p)
  PROVE  Moved(p) /\ proc'[p] # proc[p]
BY AdvancedPlaced DEF ProcTypes, Busy, Others, Advance, Moved

LEMMA MoveAbort ==
  ASSUME NEW p \in Procs, ProcTypes, Busy(p), Abort(p)
  PROVE  Moved(p)
BY AbortedPlaced DEF ProcTypes, Busy, Others, Abort, Moved

LEMMA MoveHit ==
  ASSUME NEW p \in Procs, ProcTypes, Busy(p), NEW point, Hit(p, point)
  PROVE  Moved(p)
<1> DEFINE q == [proc[p] EXCEPT !.hit = TRUE]
<1>1. q \in Process /\ q.at = proc[p].at /\ q.stage = proc[p].stage
      /\ q.req = proc[p].req /\ q.want = proc[p].want
  BY DEF ProcTypes, Process
<1>2. Placed(q)
  BY <1>1 DEF ProcTypes, Placed
<1>3. proc' = [proc EXCEPT ![p] = Aborted(q)]
  BY DEF Hit
<1> HIDE DEF q
<1> QED
  BY <1>1, <1>2, <1>3, AbortedPlaced DEF ProcTypes, Busy, Others, Moved

(* A step inside a stage.                                                  *)
LEMMA MoveInside ==
  ASSUME NEW p \in Procs, ProcTypes, Busy(p), NEW q \in Process,
         proc' = [proc EXCEPT ![p] = q],
         q.req = proc[p].req, q.want = proc[p].want, q.stage = proc[p].stage,
         \/ q.at = proc[p].at
         \/ /\ q.at \notin Simple \cup {"idle"} /\ proc[p].at \notin Simple
            /\ q.at \in Ensuring <=> proc[p].at \in Ensuring
  PROVE  Moved(p)
BY DEF ProcTypes, Busy, Others, Moved, Placed

LEMMA ResolvedProcess ==
  ASSUME NEW q \in Process, NEW env \in BOOLEAN, NEW point \in Points
  PROVE  [q EXCEPT !.env = env, !.turn = 1, !.at = point] \in Process
<1> DEFINE a == [q EXCEPT !.env = env]
           b == [a EXCEPT !.turn = 1]
<1>1. a \in Process
  BY DEF Process
<1> HIDE DEF a
<1>2. b \in Process
  BY <1>1 DEF Process
<1> HIDE DEF b
<1>3. [b EXCEPT !.at = point] \in Process
  BY <1>2 DEF Process
<1> QED
  BY <1>3 DEF a, b

LEMMA GotoMoved ==
  ASSUME NEW p \in Procs, ProcTypes, Busy(p), NEW point \in Points, Goto(p, point),
         point \notin Simple \cup {"idle"}, proc[p].at \notin Simple,
         point \in Ensuring <=> proc[p].at \in Ensuring
  PROVE  Moved(p)
<1>1. [proc[p] EXCEPT !.at = point] \in Process
  BY DEF ProcTypes, Process
<1>2. /\ [proc[p] EXCEPT !.at = point].req = proc[p].req
      /\ [proc[p] EXCEPT !.at = point].want = proc[p].want
      /\ [proc[p] EXCEPT !.at = point].stage = proc[p].stage
      /\ [proc[p] EXCEPT !.at = point].at = point
  BY DEF ProcTypes, Process
<1> QED
  BY <1>1, <1>2, MoveInside DEF Goto

(* Every step of a command moves its process within the command.           *)
LEMMA StepMoved ==
  ASSUME NEW p \in Procs, TypeOK, ProcTypes, Step(p)
  PROVE  Moved(p)
<1>0. {"resolve", "down", "clear", "recreate"} \subseteq Points
  BY DEF Points
<1>types. proc[p] \in Process
  BY DEF ProcTypes
<1>busy. Busy(p)
  <2>1. CASE Update(p) \/ Check(p)
    BY <2>1 DEF Busy, Update, Check, Updating
  <2>2. CASE WriteSecrets(p) \/ DeleteSecretsFile(p) \/ SyncResourcesEnv(p)
             \/ Erase(p) \/ RemoveMonitoring(p)
    BY <2>2 DEF Busy, WriteSecrets, DeleteSecretsFile, SyncResourcesEnv, Erase,
                RemoveMonitoring
  <2>3. CASE EnsureLook(p) \/ EnsureFetch(p) \/ EnsureUnzip(p) \/ Load(p) \/ Resolve(p)
    BY <2>3 DEF Busy, EnsureLook, EnsureFetch, EnsureUnzip, Load, Resolve
  <2>4. CASE ComposeDown(p) \/ Clear(p) \/ Reconcile(p) \/ ComposeUp(p)
             \/ ComposeUpFails(p) \/ Remediate(p) \/ Recreate(p)
    BY <2>4 DEF Busy, ComposeDown, Clear, Reconcile, ComposeUp, ComposeUpFails,
                Remediate, Recreate
  <2> QED
    BY <2>1, <2>2, <2>3, <2>4 DEF Step
<1>1. CASE Update(p) \/ Check(p) \/ WriteSecrets(p) \/ DeleteSecretsFile(p)
  BY <1>busy, <1>1, MoveAdvance, MoveAbort, MoveHit
     DEF Update, Check, WriteSecrets, DeleteSecretsFile,
         Simple, Ensuring, Stages, Composing, Updating, Points
<1>2. CASE SyncResourcesEnv(p) \/ Erase(p) \/ RemoveMonitoring(p)
  BY <1>busy, <1>2, MoveAdvance, MoveHit DEF SyncResourcesEnv, Erase, RemoveMonitoring
<1>3. CASE EnsureLook(p) \/ EnsureFetch(p) \/ EnsureUnzip(p)
  BY <1>busy, <1>3, MoveAdvance, MoveHit, GotoMoved DEF EnsureLook, EnsureFetch, EnsureUnzip,
         Simple, Ensuring, Stages, Composing, Updating, Points
<1>4. CASE Load(p)
  <2> DEFINE q == [proc[p] EXCEPT !.cfg = Loaded(config), !.at = "resolve"]
  <2>1. Loaded(config) \in Config
    BY DEF TypeOK, Loaded, Defaults, Config, Versions, Profiles, Resources
  <2>2. q \in Process /\ q.req = proc[p].req /\ q.want = proc[p].want
        /\ q.stage = proc[p].stage /\ q.at = "resolve"
    BY <1>0, <1>types, <2>1 DEF Process
  <2>3. proc' = [proc EXCEPT ![p] = q] /\ proc[p].at = "load"
    BY <1>4 DEF Load, ProcTypes
  <2> HIDE DEF q
  <2> QED
    BY <1>busy, <2>2, <2>3, MoveInside
     DEF Simple, Ensuring, Stages, Composing, Updating, Points
<1>5. CASE Resolve(p)
  <2>1. CASE Abort(p) \/ Hit(p, "resolve")
    BY <1>busy, <2>1, MoveAbort, MoveHit
  <2>2. CASE proc' = [proc EXCEPT ![p].env = proc[p].cfg.ai /\ secrets,
                                  ![p].turn = 1, ![p].at = AfterResolve(proc[p])]
    <3> DEFINE env == proc[p].cfg.ai /\ secrets
               point == AfterResolve(proc[p])
               q == [proc[p] EXCEPT !.env = env, !.turn = 1, !.at = point]
    <3>1. AfterResolve(proc[p]) \in {"down", "clear", "recreate"}
      BY DEF AfterResolve
    <3>2. env \in BOOLEAN
      OBVIOUS
    <3> HIDE DEF env
    <3>3. point \in Points
      BY <1>0, <3>1
    <3> HIDE DEF point
    <3>4. q \in Process /\ q.req = proc[p].req /\ q.want = proc[p].want
          /\ q.stage = proc[p].stage /\ q.at = point
      BY <1>types, <3>2, <3>3, ResolvedProcess DEF Process
    <3>5. proc' = [proc EXCEPT ![p] = q] /\ proc[p].at = "resolve"
      BY <1>5, <2>2 DEF Resolve, ProcTypes, env, point
    <3> HIDE DEF q
    <3> QED
      BY <1>busy, <3>1, <3>4, <3>5, MoveInside
     DEF point, Simple, Ensuring, Stages, Composing, Updating, Points
  <2> QED
    BY <1>5, <2>1, <2>2 DEF Resolve
<1>6. CASE ComposeDown(p) \/ Clear(p) \/ Reconcile(p)
  BY <1>busy, <1>6, MoveAdvance, MoveAbort, MoveHit, GotoMoved
     DEF ComposeDown, Clear, Reconcile,
         Simple, Ensuring, Stages, Composing, Updating, Points
<1>7. CASE ComposeUp(p) \/ ComposeUpFails(p) \/ Remediate(p)
  BY <1>busy, <1>7, MoveAdvance, MoveAbort, MoveHit, GotoMoved
     DEF ComposeUp, ComposeUpFails, Remediate,
         Simple, Ensuring, Stages, Composing, Updating, Points
<1>8. CASE Recreate(p)
  <2>1. CASE Abort(p) \/ Hit(p, "recreate") \/ Advance(p)
    BY <1>busy, <2>1, MoveAdvance, MoveAbort, MoveHit
  <2>2. CASE /\ proc[p].turn < 3
             /\ proc' = [proc EXCEPT ![p] = [proc[p] EXCEPT !.turn = @ + 1]]
    <3> DEFINE q == [proc[p] EXCEPT !.turn = @ + 1]
    <3>1. proc[p].turn + 1 \in 1..3
      BY <1>types, <2>2 DEF Process
    <3>2. q \in Process /\ q.req = proc[p].req /\ q.want = proc[p].want
          /\ q.stage = proc[p].stage /\ q.at = proc[p].at
      BY <1>types, <3>1 DEF Process
    <3>3. proc' = [proc EXCEPT ![p] = q]
      BY <2>2
    <3> HIDE DEF q
    <3> QED
      BY <1>busy, <3>2, <3>3, MoveInside
     DEF Simple, Ensuring, Stages, Composing, Updating, Points
  <2> QED
    BY <1>8, <2>1, <2>2 DEF Recreate, Advance
<1> QED
  BY <1>1, <1>2, <1>3, <1>4, <1>5, <1>6, <1>7, <1>8 DEF Step
-------------------------------------------------------------------------------
LEMMA LoadedType == config \in Config \cup {None} => Loaded(config) \in Config
BY DEF Loaded, Defaults, Config, Versions, Profiles, Resources

(* A process that has not begun a command is well placed.                  *)
LEMMA IdleType == Idle \in Process /\ Placed(Idle)
<1>1. Defaults \in Config
  BY DEF Defaults, Config, Versions, Profiles, Resources
<1>2. Idle \in Process
  BY <1>1 DEF Idle, Process, Points
<1>3. Placed(Idle)
  BY DEF Idle, Placed, Simple, Ensuring, Stages, Composing, Updating
<1> QED
  BY <1>2, <1>3

(* A command begins with the settings it wants and a first stage of its    *)
(* kind, which neither writes secrets nor enables AI.                      *)
LEMMA BeginPlaced ==
  ASSUME NEW p \in Procs, NEW r \in Requests, TypeOK, ProcTypes, Begin(p, r)
  PROVE  /\ proc' \in [Procs -> Process]
         /\ \A o \in Others(p) : proc'[o] = proc[o]
         /\ Placed(proc'[p]) /\ proc'[p].req = r /\ proc'[p].want = Want(r)
         /\ proc'[p].stage \notin {"secrets", "enable"}
<1> DEFINE first == Following(r, "begin")
<1>1. r \in Request /\ Belongs("begin", r)
  BY ConstantsAssumption DEF Belongs
<1>2. first \in Stages \cup {"end"} /\ Belongs(first, r)
      /\ first \notin {"secrets", "enable"}
  BY <1>1, FollowingBelongs
<1>3. Want(r) \in Config
  <2>1. Loaded(config) \in Config
    BY LoadedType DEF TypeOK
  <2>2. /\ r.version \in Versions \cup {None} /\ r.profile \in Profiles \cup {None}
        /\ r.resources \in Resources \cup {None}
    BY <1>1 DEF Request
  <2> QED
    BY <2>1, <2>2 DEF Want, Config
<1> DEFINE want == Want(r)
           q == [Idle EXCEPT !.req = r, !.want = want, !.stage = first,
                             !.at = Entry(first)]
<1> HIDE DEF first
<1>4. want \in Config
  BY <1>3
<1> HIDE DEF want
<1>5. /\ q.req = r /\ q.want = want /\ q.stage = first /\ q.at = Entry(first)
  BY DEF Idle
<1>6. Placed(q) /\ Entry(first) \in Points
  BY <1>1, <1>2, <1>5, EntryPlaced
<1>7. q \in Process
  <2>1. Idle \in Process
    BY IdleType
  <2> DEFINE a == [Idle EXCEPT !.req = r]
             b == [a EXCEPT !.want = want]
             c == [b EXCEPT !.stage = first]
  <2>2. a \in Process
    BY <1>1, <2>1 DEF Process
  <2> HIDE DEF a
  <2>3. b \in Process
    BY <1>4, <2>2 DEF Process
  <2> HIDE DEF b
  <2>4. c \in Process
    BY <1>2, <2>3 DEF Process
  <2> HIDE DEF c
  <2>5. [c EXCEPT !.at = Entry(first)] \in Process
    BY <1>6, <2>4 DEF Process
  <2> QED
    BY <2>5 DEF a, b, c
<1>8. proc' = [proc EXCEPT ![p] = q]
  BY DEF Begin, want, first
<1> HIDE DEF q
<1> QED
  BY <1>2, <1>5, <1>6, <1>7, <1>8 DEF ProcTypes, Others, want

LEMMA CrashPlaced ==
  ASSUME NEW p \in Procs, ProcTypes, Crash(p)
  PROVE  /\ proc' \in [Procs -> Process]
         /\ \A o \in Others(p) : proc'[o] = proc[o]
         /\ Placed(proc'[p]) /\ proc'[p].req = proc[p].req
         /\ proc'[p].want = proc[p].want /\ proc'[p].stage = "end"
<1> DEFINE q == [proc[p] EXCEPT !.stage = "end", !.at = "idle", !.hit = TRUE,
                                !.result = "crashed"]
<1>1. proc[p] \in Process
  BY DEF ProcTypes
<1>2. q \in Process /\ q.req = proc[p].req /\ q.want = proc[p].want
      /\ q.stage = "end" /\ q.at = "idle"
  BY <1>1 DEF Process, Points
<1>3. Placed(q)
  BY <1>2 DEF Placed, Simple, Ensuring, Stages, Composing, Updating
<1>4. proc' = [proc EXCEPT ![p] = q]
  BY DEF Crash, ProcTypes
<1> HIDE DEF q
<1> QED
  BY <1>2, <1>3, <1>4 DEF ProcTypes, Others
-------------------------------------------------------------------------------
(* What each step writes has its type.                                     *)

LEMMA MutatedType ==
  ASSUME NEW at \in Updating, NEW want \in Config, NEW c \in Config
  PROVE  Mutated(at, want, c) \in Config
BY DEF Updating, Mutated, DropAI, SupportsAIFeature, Config

Contents == <<config, dist, overlays, resEnv, secrets, containers, strangers, volumes>>

ContentTypes ==
  /\ config \in Config \cup {None}
  /\ dist \in [Versions -> SUBSET Profiles]
  /\ overlays \subseteq Overlays
  /\ resEnv \in Resources \cup {None}
  /\ secrets \in BOOLEAN
  /\ containers \in [Services -> Image \cup {None}]
  /\ strangers \in [Services -> {"none", "leftover", "running"}]
  /\ volumes \subseteq Versions

LEMMA RemovedType ==
  ASSUME ContentTypes, NEW gone
  PROVE  Removed(gone) \in [Services -> Image \cup {None}]
BY DEF ContentTypes, Removed

LEMMA MadeType ==
  ASSUME ContentTypes, NEW q \in Process, NEW new
  PROVE  Made(q, new) \in [Services -> Image \cup {None}]
<1>1. q.cfg.version \in Versions /\ q.env \in BOOLEAN
  BY DEF Process, Config
<1>2. ASSUME NEW s \in Services PROVE ImageOf(q, s) \in Image
  BY <1>1 DEF ImageOf, Image, ContentTypes
<1> QED
  BY <1>2 DEF Made, ContentTypes

(* A step keeps the types of what it writes.                               *)
LEMMA StepContents ==
  ASSUME NEW p \in Procs, TypeOK, ProcTypes, Step(p)
  PROVE  ContentTypes'
<1>types. proc[p] \in Process /\ proc[p].want \in Config /\ proc[p].cfg \in Config
  BY DEF ProcTypes, Process
<1>contents. ContentTypes
  BY DEF TypeOK, ContentTypes
<1>1. CASE Update(p)
  <2>1. Loaded(config) \in Config
    BY LoadedType DEF TypeOK
  <2>2. Mutated(proc[p].at, proc[p].want, Loaded(config)) \in Config
    BY <1>1, <1>types, <2>1, MutatedType DEF Update
  <2> QED
    BY <1>1, <1>contents, <2>2 DEF Update, home, docker, ContentTypes
<1>2. CASE Check(p) \/ EnsureLook(p) \/ Load(p)
  BY <1>2, <1>contents DEF Check, EnsureLook, Load, home, docker, ContentTypes
<1>3. CASE WriteSecrets(p) \/ DeleteSecretsFile(p)
  BY <1>3, <1>contents DEF WriteSecrets, DeleteSecretsFile, docker, ContentTypes
<1>4. CASE SyncResourcesEnv(p)
  <2>1. proc[p].want.resources \in Resources
    BY <1>types DEF Config
  <2> QED
    BY <1>4, <1>contents, <2>1 DEF SyncResourcesEnv, docker, ContentTypes
<1>5. CASE Erase(p)
  BY <1>5, <1>contents DEF Erase, docker, ContentTypes
<1>6. CASE EnsureFetch(p) \/ EnsureUnzip(p)
  BY <1>6, <1>contents DEF EnsureFetch, EnsureUnzip, docker, ContentTypes
<1>7. CASE Resolve(p)
  <2>1. proc[p].cfg.resources \in Resources
    BY <1>types DEF Config
  <2>2. ComposeOverrideFiles(proc[p].cfg) \subseteq Overlays
    BY DEF ComposeOverrideFiles
  <2> QED
    BY <1>7, <1>contents, <2>1, <2>2 DEF Resolve, docker, ContentTypes
<1>8. CASE ComposeDown(p)
  BY <1>8, <1>contents, RemovedType
     DEF ComposeDown, Stopped, StopFails, home, ContentTypes
<1>9. CASE Clear(p)
  BY <1>9, <1>contents, RemovedType
     DEF Clear, Stopped, StopFails, home, ContentTypes
<1>10. CASE Reconcile(p) \/ Remediate(p)
  BY <1>10, <1>contents, RemovedType
     DEF Reconcile, Remediate, RemoveByName, home, ContentTypes
<1>11. CASE ComposeUp(p) \/ ComposeUpFails(p)
  <2>1. proc[p].cfg.version \in Versions
    BY <1>types DEF Config
  <2>2. \A new : Made(proc[p], new) \in [Services -> Image \cup {None}]
    BY <1>types, <1>contents, MadeType
  <2>3. containers' \in [Services -> Image \cup {None}]
    <3>1. containers \in [Services -> Image \cup {None}]
      BY <1>contents DEF ContentTypes
    <3> QED
      BY <1>11, <2>2, <3>1 DEF ComposeUp, ComposeUpFails
  <2>4. volumes' \subseteq Versions
    BY <1>11, <1>contents, <2>1 DEF ComposeUp, ComposeUpFails, ContentTypes
  <2> QED
    BY <1>11, <1>contents, <2>3, <2>4 DEF ComposeUp, ComposeUpFails, home, ContentTypes
<1>12. CASE Recreate(p) \/ RemoveMonitoring(p)
  <2>1. containers' \in [Services -> Image \cup {None}]
    <3>1. \A new : Made(proc[p], new) \in [Services -> Image \cup {None}]
      BY <1>types, <1>contents, MadeType
    <3>2. \A gone : Removed(gone) \in [Services -> Image \cup {None}]
      BY <1>contents, RemovedType
    <3>3. containers \in [Services -> Image \cup {None}]
      BY <1>contents DEF ContentTypes
    <3> QED
      BY <1>12, <3>1, <3>2, <3>3 DEF Recreate, RemoveMonitoring
  <2> QED
    BY <1>12, <1>contents, <2>1 DEF Recreate, RemoveMonitoring, home, ContentTypes
<1> QED
  BY <1>1, <1>2, <1>3, <1>4, <1>5, <1>6, <1>7, <1>8, <1>9, <1>10, <1>11, <1>12 DEF Step

(* A step of a command does not begin one.                                 *)
LEMMA StepCounters ==
  ASSUME NEW p \in Procs, TypeOK, Step(p)
  PROVE  solo' = solo /\ commands' = commands /\ faults' \in Nat
<1>faults. faults \in Nat
  BY DEF TypeOK
<1> USE <1>faults DEF NoHit, Hit
<1>0. CASE Update(p) \/ Check(p)
  BY <1>0 DEF Update, Check
<1>1. CASE WriteSecrets(p) \/ DeleteSecretsFile(p) \/ SyncResourcesEnv(p)
  BY <1>1 DEF WriteSecrets, DeleteSecretsFile, SyncResourcesEnv
<1>6. CASE Erase(p)
  <2>1. NoHit \/ (Hit(p, "erase") /\ UNCHANGED <<solo, commands>>)
    BY <1>6, Zenon DEF Erase
  <2> QED
    BY <2>1
<1>2. CASE EnsureLook(p) \/ EnsureFetch(p) \/ EnsureUnzip(p) \/ Load(p) \/ Resolve(p)
  BY <1>2 DEF EnsureLook, EnsureFetch, EnsureUnzip, Load, Resolve
<1>3. CASE ComposeDown(p) \/ Clear(p) \/ Reconcile(p)
  BY <1>3 DEF ComposeDown, Clear, Reconcile
<1>4. CASE ComposeUp(p) \/ ComposeUpFails(p) \/ Remediate(p)
  BY <1>4 DEF ComposeUp, ComposeUpFails, Remediate
<1>5. CASE Recreate(p) \/ RemoveMonitoring(p)
  BY <1>5 DEF Recreate, RemoveMonitoring
<1> QED
  BY <1>0, <1>1, <1>2, <1>3, <1>4, <1>5, <1>6 DEF Step
-------------------------------------------------------------------------------
(* The types hold initially and are kept.                                  *)
LEMMA InitTypes == Init => TypeOK /\ ProcTypes
<1> SUFFICES ASSUME Init PROVE TypeOK /\ ProcTypes
  OBVIOUS
<1> DEFINE c == Loaded(config)
           there == config # None
<1>1. config \in Config \cup {None} /\ c \in Config
  BY ConstantsAssumption, LoadedType DEF Init
<1>2. /\ c.version \in Versions /\ c.resources \in Resources /\ c.ai \in BOOLEAN
  BY <1>1 DEF Config
<1>3. /\ dist = [v \in Versions |->
                   IF there /\ v = c.version THEN Profiles ELSE {}]
      /\ overlays = IF there THEN ComposeOverrideFiles(c) ELSE {}
      /\ resEnv = IF there THEN c.resources ELSE None
      /\ secrets = (there /\ c.ai)
      /\ volumes = IF there THEN {c.version} ELSE {}
  BY DEF Init
<1>4. containers = [s \in Services |->
         IF there /\ s \in ServicesOf(c)
         THEN [version |-> c.version, resources |-> c.resources,
               ai |-> s = "connectors" /\ c.ai]
         ELSE None]
  BY DEF Init
<1> HIDE DEF c, there
<1>5. /\ dist \in [Versions -> SUBSET Profiles] /\ overlays \subseteq Overlays
      /\ resEnv \in Resources \cup {None} /\ volumes \subseteq Versions
  BY <1>2, <1>3 DEF ComposeOverrideFiles
<1>6. secrets \in BOOLEAN
  BY <1>3
<1>7. containers \in [Services -> Image \cup {None}]
  <2>1. ASSUME NEW s \in Services
        PROVE  [version |-> c.version, resources |-> c.resources,
                ai |-> s = "connectors" /\ c.ai] \in Image
    BY <1>2 DEF Image
  <2> QED
    BY <1>4, <2>1
<1>8. proc \in [Procs -> Process] /\ ProcTypes
  BY IdleType DEF Init, ProcTypes
<1>9. /\ strangers \in [Services -> {"none", "leftover", "running"}]
      /\ solo \in Procs \cup {None} /\ commands \in Nat /\ faults \in Nat
  BY ConstantsAssumption DEF Init
<1> QED
  BY <1>1, <1>5, <1>6, <1>7, <1>8, <1>9 DEF TypeOK

LEMMA NextTypes == TypeOK /\ ProcTypes /\ [Next]_vars => TypeOK' /\ ProcTypes'
<1> SUFFICES ASSUME TypeOK, ProcTypes, [Next]_vars PROVE TypeOK' /\ ProcTypes'
  OBVIOUS
<1>1. CASE UNCHANGED vars
  BY <1>1 DEF vars, home, docker, TypeOK, ProcTypes
<1>2. ASSUME NEW p \in Procs, Step(p) PROVE TypeOK' /\ ProcTypes'
  <2>1. Moved(p) /\ ContentTypes' /\ solo' = solo /\ commands' = commands
        /\ faults' \in Nat
    BY <1>2, StepMoved, StepContents, StepCounters
  <2>2. proc' \in [Procs -> Process] /\ ProcTypes'
    BY <2>1 DEF Moved, Others, ProcTypes
  <2> QED
    BY <2>1, <2>2 DEF TypeOK, ContentTypes
<1>3. ASSUME NEW p \in Procs, Crash(p) PROVE TypeOK' /\ ProcTypes'
  <2>1. proc' \in [Procs -> Process] /\ ProcTypes'
    BY <1>3, CrashPlaced DEF Others, ProcTypes
  <2> QED
    BY <1>3, <2>1 DEF Crash, home, docker, TypeOK
<1>4. ASSUME NEW p \in Procs, NEW r \in Requests, Begin(p, r)
      PROVE  TypeOK' /\ ProcTypes'
  <2>1. proc' \in [Procs -> Process] /\ ProcTypes'
    BY <1>4, BeginPlaced DEF Others, ProcTypes
  <2> QED
    BY <1>4, <2>1 DEF Begin, home, docker, TypeOK
<1> QED
  BY <1>1, <1>2, <1>3, <1>4 DEF Next

(* The variables keep their types, whatever the commands, their            *)
(* interleaving, their failures and their deaths (lab.go, switch.go,       *)
(* ai.go, monitoring.go, nuke.go).                                         *)
THEOREM TypesKept == Spec => []TypeOK
<1>1. Spec => [](TypeOK /\ ProcTypes)
  BY InitTypes, NextTypes, PTL DEF Spec
<1> QED
  BY <1>1, PTL
-------------------------------------------------------------------------------
(* The settings a step changes are those its stage is about.               *)
LEMMA StepConfig ==
  ASSUME NEW p \in Procs, TypeOK, ProcTypes, Step(p), config' # config
  PROVE  \/ /\ proc[p].at \in Updating /\ proc[p].at = proc[p].stage
            /\ config' = Mutated(proc[p].at, proc[p].want, Loaded(config))
            /\ Advance(p)
         \/ proc[p].at = "erase" /\ proc[p].stage = "erase" /\ config' = None
<1>1. Update(p) \/ Erase(p)
  BY DEF Step, Check, WriteSecrets, DeleteSecretsFile, SyncResourcesEnv,
    EnsureLook, EnsureFetch, EnsureUnzip, Load, Resolve, ComposeDown, Clear,
    Reconcile, ComposeUp, ComposeUpFails, Remediate, Recreate, RemoveMonitoring
<1>2. CASE Update(p)
  BY <1>2 DEF Update, ProcTypes, Placed, Simple, Stages, Composing, Updating
<1>3. CASE Erase(p)
  <2>1. config' = None /\ proc[p].at = "erase"
    BY <1>3 DEF Erase
  <2> QED
    BY <2>1 DEF ProcTypes, Placed, Simple, Stages, Composing, Updating
<1> QED
  BY <1>1, <1>2, <1>3

(* No command undoes the settings of another, however long it runs between *)
(* reading the settings and writing them (config.go:96, and the callers of *)
(* config.Update).                                                         *)
THEOREM SettingsAreKept == Spec => SettingsKept
<1> DEFINE Kept == \A f \in DOMAIN Defaults :
              Loaded(config')[f] # Loaded(config)[f] =>
                \E p \in Procs : proc'[p] # proc[p] /\ f \in Asked(proc[p])
<1>1. TypeOK /\ ProcTypes /\ [Next]_vars => [Kept]_config
  <2> SUFFICES ASSUME TypeOK, ProcTypes, Next, config' # config,
                      NEW f \in DOMAIN Defaults,
                      Loaded(config')[f] # Loaded(config)[f]
               PROVE  \E p \in Procs : proc'[p] # proc[p] /\ f \in Asked(proc[p])
    BY DEF vars
  <2>1. PICK p \in Procs : Step(p)
    BY DEF Next, Crash, Begin
  <2>2. proc[p].req \in Request /\ Belongs(proc[p].stage, proc[p].req)
    BY <2>1, StepMoved DEF Moved, Busy, ProcTypes, Placed
  <2>3. CASE /\ proc[p].at \in Updating /\ proc[p].at = proc[p].stage
             /\ config' = Mutated(proc[p].at, proc[p].want, Loaded(config))
             /\ Advance(p)
    <3>1. proc'[p] # proc[p]
      BY <2>1, <2>3, StepMoved, MoveAdvance DEF Moved
    <3>2. f \in {"version", "profile", "resources", "ai", "monitoring"}
      BY DEF Defaults
    <3>3. Loaded(config) \in Config
      BY LoadedType DEF TypeOK
    <3>4. config' \in Config
      BY <2>3, <3>3, MutatedType DEF ProcTypes, Process
    <3>5. Loaded(config') = Mutated(proc[p].stage, proc[p].want, Loaded(config))
      BY <2>3, <3>4, ConstantsAssumption DEF Loaded
    <3>6. f \in Asked(proc[p])
      <4> DEFINE c == Loaded(config)
                 d == Loaded(config')
      <4>1. c \in Config /\ d = Mutated(proc[p].stage, proc[p].want, c) /\ d[f] # c[f]
        BY <3>3, <3>5
      <4> HIDE DEF c, d
      <4>2. CASE proc[p].stage \in {"settings", "version"}
        BY <2>2, <3>2, <4>1, <4>2 DEF Mutated, DropAI, Asked, Belongs, Config
      <4>3. CASE proc[p].stage \in {"profile", "resources"}
        BY <2>2, <3>2, <4>1, <4>3 DEF Mutated, DropAI, Asked, Belongs, Config
      <4>4. CASE proc[p].stage \in {"enable", "disable"}
        BY <2>2, <3>2, <4>1, <4>4 DEF Mutated, Asked, Belongs, Config
      <4>5. CASE proc[p].stage \in {"monitor", "unmonitor"}
        BY <2>2, <3>2, <4>1, <4>5 DEF Mutated, Asked, Belongs, Config
      <4> QED
        BY <2>3, <4>2, <4>3, <4>4, <4>5 DEF Updating
    <3> QED
      BY <3>1, <3>6
  <2>4. CASE proc[p].at = "erase" /\ proc[p].stage = "erase" /\ config' = None
    <3>1. Erase(p)
      BY <2>1, <2>4 DEF Step, Update, Updating, Check, WriteSecrets,
        DeleteSecretsFile, SyncResourcesEnv, EnsureLook, EnsureFetch, EnsureUnzip,
        Load, Resolve, ComposeDown, Clear, Reconcile, ComposeUp, ComposeUpFails,
        Remediate, Recreate, RemoveMonitoring
    <3>2. proc'[p] # proc[p]
      <4>1. CASE Advance(p)
        BY <2>1, <4>1, StepMoved, MoveAdvance DEF Moved
      <4>2. CASE Hit(p, "erase")
        <5> DEFINE q == [proc[p] EXCEPT !.hit = TRUE]
        <5>1. q \in Process /\ q.stage = "erase"
          BY <2>4 DEF ProcTypes, Process
        <5>2. proc'[p] = Aborted(q)
          BY <4>2 DEF Hit, ProcTypes
        <5> HIDE DEF q
        <5>3. proc'[p].at = "idle"
          BY <5>1, <5>2 DEF Aborted, Process
        <5> QED
          BY <2>4, <5>3
      <4> QED
        BY <3>1, <4>1, <4>2 DEF Erase
    <3>3. proc[p].req.kind = "nuke"
      BY <2>2, <2>4 DEF Belongs
    <3> QED
      BY <3>2, <3>3 DEF Asked
  <2> QED
    BY <2>1, <2>3, <2>4, StepConfig
<1>2. Spec => [](TypeOK /\ ProcTypes)
  BY InitTypes, NextTypes, PTL DEF Spec
<1> QED
  BY <1>1, <1>2, PTL DEF Spec, SettingsKept
-------------------------------------------------------------------------------
(* A process that has run alone so far is alone now.                       *)
Unaccompanied == \A p \in Procs : solo = p => \A o \in Others(p) : ~Busy(o)

(* From its check on, the settings of a process that enables AI and has    *)
(* run alone so far support it.                                            *)
Enabling ==
  \A p \in Procs : solo = p /\ proc[p].stage \in {"secrets", "enable"} =>
    SupportsAIFeature(Loaded(config).version, Loaded(config).profile)

AIInv == Unaccompanied /\ Enabling

LEMMA InitAI == Init => AIInv
<1> SUFFICES ASSUME Init PROVE AIInv
  OBVIOUS
<1>1. \A p \in Procs : proc[p].stage = "end" /\ solo # p
  BY ConstantsAssumption DEF Init, Idle
<1> QED
  BY <1>1 DEF AIInv, Unaccompanied, Enabling

(* A process comes to a stage that enables AI from the one before it.      *)
LEMMA StepEnabling ==
  ASSUME NEW p \in Procs, TypeOK, ProcTypes, AIInv, Step(p), solo' = solo
  PROVE  Enabling'
<1> SUFFICES ASSUME NEW o \in Procs, solo = o, proc'[o].stage \in {"secrets", "enable"}
             PROVE  SupportsAIFeature(Loaded(config').version, Loaded(config').profile)
  BY DEF Enabling
<1>1. Moved(p)
  BY StepMoved
<1>2. o = p
  BY <1>1 DEF AIInv, Unaccompanied, Moved, Others
<1>3. proc[p].req \in Request /\ proc[p].stage \in Stages
      /\ Belongs(proc[p].stage, proc[p].req)
  BY <1>1 DEF Moved, Busy, ProcTypes, Placed, Process
<1>4. proc[p].stage \in {"validate", "secrets", "enable"}
  BY <1>1, <1>2, <1>3, FollowingBelongs DEF Moved
<1>5. proc[p].at = proc[p].stage
  BY <1>4 DEF ProcTypes, Placed, Simple, Stages, Composing, Updating
<1>6. config' = config
  <2>1. ASSUME config' # config PROVE FALSE
    <3>1. proc[p].stage = "enable" /\ Advance(p)
      BY <1>4, <1>5, <2>1, StepConfig DEF Updating
    <3>2. proc'[p].stage = Following(proc[p].req, proc[p].stage)
      BY <1>1, <3>1, AdvancedPlaced DEF Advance, Moved, Busy, ProcTypes
    <3> QED
      BY <1>2, <1>3, <3>1, <3>2, FollowingBelongs
  <2> QED
    BY <2>1
<1>7. CASE proc[p].stage \in {"secrets", "enable"}
  BY <1>2, <1>6, <1>7 DEF AIInv, Enabling
<1>8. CASE proc[p].stage = "validate"
  <2>1. Check(p)
    BY <1>5, <1>8 DEF Step, Update, Updating, WriteSecrets, DeleteSecretsFile,
      SyncResourcesEnv, Erase, EnsureLook, EnsureFetch, EnsureUnzip, Load, Resolve,
      ComposeDown, Clear, Reconcile, ComposeUp, ComposeUpFails, Remediate,
      Recreate, RemoveMonitoring
  <2>2. CASE Supported(proc[p])
    BY <1>5, <1>6, <1>8, <2>2 DEF Supported
  <2>3. CASE ~Supported(proc[p])
    <3>1. proc'[p].stage = "end"
      BY <1>8, <2>1, <2>3 DEF Check, Abort, Aborted, ProcTypes, Process
    <3> QED
      BY <1>2, <3>1
  <2> QED
    BY <2>2, <2>3
<1> QED
  BY <1>4, <1>7, <1>8

LEMMA NextAI ==
  ASSUME TypeOK, ProcTypes, AIInv, [Next]_vars
  PROVE  AIInv'
<1>1. CASE UNCHANGED vars
  BY <1>1 DEF vars, AIInv, Unaccompanied, Enabling, Busy, Others
<1>2. ASSUME NEW p \in Procs, Step(p) PROVE AIInv'
  <2>1. Moved(p) /\ solo' = solo
    BY <1>2, StepMoved, StepCounters
  <2>2. Unaccompanied'
    BY <2>1 DEF AIInv, Unaccompanied, Moved, Busy, Others
  <2> QED
    BY <1>2, <2>1, <2>2, StepEnabling DEF AIInv
<1>3. ASSUME NEW p \in Procs, Crash(p) PROVE AIInv'
  <2>1. /\ \A o \in Others(p) : proc'[o] = proc[o]
        /\ proc'[p].stage = "end" /\ ~Busy(p)' /\ config' = config /\ solo' = solo
    BY <1>3, CrashPlaced DEF Crash, Placed, Busy
  <2> QED
    BY <2>1 DEF AIInv, Unaccompanied, Enabling, Busy, Others
<1>4. ASSUME NEW p \in Procs, NEW r \in Requests, Begin(p, r) PROVE AIInv'
  <2>1. /\ \A o \in Others(p) : proc'[o] = proc[o]
        /\ proc'[p].stage \notin {"secrets", "enable"}
    BY <1>4, BeginPlaced
  <2>2. solo' = IF \E o \in Others(p) : Busy(o) THEN None ELSE p
    BY <1>4 DEF Begin
  <2>3. \A o \in Procs : solo' = o => o = p /\ \A q \in Others(p) : ~Busy(q)
    BY <2>2, ConstantsAssumption
  <2> QED
    BY <2>1, <2>3 DEF AIInv, Unaccompanied, Enabling, Busy, Others
<1> QED
  BY <1>1, <1>2, <1>3, <1>4 DEF Next

(* An update takes AI out of its support only as AISupportKept says.       *)
LEMMA StepKeepsSupport ==
  ASSUME NEW p \in Procs, TypeOK, ProcTypes, AIInv, AISupported, Step(p), config' # config,
         ~AISupported'
  PROVE  /\ proc'[p] # proc[p]
         /\ \/ /\ proc[p].at = "settings"
               /\ ~SupportsAIFeature(proc[p].want.version, proc[p].want.profile)
            \/ proc[p].at = "enable" /\ solo # p
<1> DEFINE c == Loaded(config)
           d == config'
           stage == proc[p].stage
<1>1. /\ proc[p].at \in Updating /\ proc[p].at = stage
      /\ d = Mutated(stage, proc[p].want, c) /\ Advance(p)
  BY StepConfig DEF AISupported
<1>2. c \in Config /\ proc[p].want \in Config /\ Busy(p)
  BY LoadedType, StepMoved DEF TypeOK, ProcTypes, Process, Moved
<1>3. proc'[p] # proc[p]
  BY <1>1, <1>2, MoveAdvance
<1>4. c.ai => SupportsAIFeature(c.version, c.profile)
  BY DEF AISupported, Loaded, Defaults
<1>5. stage = "enable" /\ solo = p => SupportsAIFeature(c.version, c.profile)
  BY DEF AIInv, Enabling
<1>6. d.ai /\ ~SupportsAIFeature(d.version, d.profile)
  BY DEF AISupported
<1> HIDE DEF c, d, stage
<1>7. CASE stage = "settings"
  BY <1>1, <1>2, <1>3, <1>6, <1>7 DEF Mutated, Config, SupportsAIFeature
<1>8. CASE stage \in {"version", "profile"}
  BY <1>1, <1>2, <1>6, <1>8 DEF Mutated, DropAI, Config, SupportsAIFeature
<1>9. CASE stage = "enable"
  BY <1>1, <1>2, <1>3, <1>5, <1>6, <1>9 DEF Mutated, Config, SupportsAIFeature
<1>10. CASE stage \in {"resources", "disable", "monitor", "unmonitor"}
  BY <1>1, <1>2, <1>4, <1>6, <1>10 DEF Mutated, Config, SupportsAIFeature
<1> QED
  BY <1>1, <1>7, <1>8, <1>9, <1>10 DEF Updating

(* AI leaves what supports it only by an install that records a version or *)
(* profile without it (lab.go:121), or by a command that enables it in     *)
(* company (ai.go:17 checks, ai.go:23 enables): a switch turns it off in   *)
(* the update that makes it unsupported (switch.go:26, 49), and what a     *)
(* command has checked stays so while nothing else runs.                   *)
THEOREM AISupportStaysKept == Spec => AISupportKept
<1>1. Init => TypeOK /\ ProcTypes /\ AIInv
  BY InitTypes, InitAI
<1>2. TypeOK /\ ProcTypes /\ AIInv /\ [Next]_vars => (TypeOK /\ ProcTypes /\ AIInv)'
  BY NextTypes, NextAI
<1>3. TypeOK /\ ProcTypes /\ AIInv /\ [Next]_vars =>
        [AISupported /\ ~AISupported' =>
           \E p \in Procs :
             /\ proc'[p] # proc[p]
             /\ \/ /\ proc[p].at = "settings"
                   /\ ~SupportsAIFeature(proc[p].want.version, proc[p].want.profile)
                \/ proc[p].at = "enable" /\ solo # p]_config
  <2> SUFFICES ASSUME TypeOK, ProcTypes, AIInv, [Next]_vars, config' # config,
                      AISupported, ~AISupported'
               PROVE  \E p \in Procs :
                        /\ proc'[p] # proc[p]
                        /\ \/ /\ proc[p].at = "settings"
                              /\ ~SupportsAIFeature(proc[p].want.version, proc[p].want.profile)
                           \/ proc[p].at = "enable" /\ solo # p
    OBVIOUS
  <2>1. PICK p \in Procs : Step(p)
    BY DEF Next, vars, Crash, Begin
  <2> QED
    BY <2>1, StepKeepsSupport
<1> QED
  BY <1>1, <1>2, <1>3, PTL DEF Spec, AISupportKept
-------------------------------------------------------------------------------
(* A command nothing else runs beside.                                     *)

AIStages == {"validate", "secrets", "enable", "connectors"}

(* The stages a command goes through.                                      *)
InChain(s, r) ==
  /\ r.kind = "install" =>
       s \in {"ensure", "settings", "check", "start"} \/ (r.ai /\ s \in AIStages)
  /\ r.kind = "switch" =>
       s \in {"precheck", "try stop", "version", "ensure", "start"} \/ (r.ai /\ s \in AIStages)
  /\ r.kind = "up" => s = "start"
  /\ r.kind = "down" => s = "stop"
  /\ r.kind = "restart" => s \in {"stop", "start"}
  /\ r.kind = "profile" => s \in {"try stop", "profile", "start"}
  /\ r.kind = "enable-ai" => s \in AIStages
  /\ r.kind = "disable-ai" => s \in {"disable", "forget", "connectors"}
  /\ r.kind = "enable-monitoring" => s \in {"monitor", "monitoring"}
  /\ r.kind = "disable-monitoring" => s \in {"unmonitor", "remove"}

Starters == {"install", "up", "restart", "switch", "profile"}
Judged == Starters \cup {"down", "enable-ai", "disable-ai", "enable-monitoring", "disable-monitoring"}

(* The last of them.                                                       *)
LastIn(s, r) ==
  /\ r.kind \in {"install", "switch"} => s = IF r.ai THEN "connectors" ELSE "start"
  /\ r.kind \in {"up", "restart", "profile"} => s = "start"
  /\ r.kind = "down" => s = "stop"
  /\ r.kind \in {"enable-ai", "disable-ai"} => s = "connectors"
  /\ r.kind = "enable-monitoring" => s = "monitoring"
  /\ r.kind = "disable-monitoring" => s = "remove"

(* What comes before a stage of enabling AI.                               *)
Preceded(s, next, r) ==
  /\ r.kind \in {"install", "switch"} =>
       /\ next = "validate" => s = "start"
       /\ next = "connectors" => s = "enable"
  /\ r.kind = "enable-ai" =>
       /\ next = "validate" => s = "begin"
       /\ next = "connectors" => s = "enable"
  /\ r.kind \in {"install", "switch", "enable-ai"} =>
       /\ next = "secrets" => s = "validate"
       /\ next = "enable" => s = "secrets"
  /\ r.kind = "disable-ai" =>
       /\ next = "forget" => s = "disable"
       /\ next = "connectors" => s \in {"disable", "forget"}

ChainGoesOn(s, next, r) ==
  /\ next # "end" => InChain(next, r)
  /\ next = "end" => s # "begin" /\ LastIn(s, r)
  /\ r.kind \in Judged /\ s \in {"connectors", "monitoring"} => next = "end"
  /\ Preceded(s, next, r)

(* Each stage leads to the next of its kind of command, or ends it.      *)
LEMMA ChainFollows ==
  ASSUME NEW r \in Request, NEW s \in Stages \cup {"begin"}, s = "begin" \/ InChain(s, r)
  PROVE  ChainGoesOn(s, Following(r, s), r)
<1> USE DEF ChainGoesOn, InChain, LastIn, Preceded, AIStages, Judged, Starters
<1>1. CASE r.kind = "install"
  <2>1. CASE r.ai
    BY <1>1, <2>1, ZenonT(40) DEF Following, Install, EnableAI
  <2>2. CASE ~r.ai
    BY <1>1, <2>2, ZenonT(40) DEF Following, Install, EnableAI
  <2> QED
    BY <2>1, <2>2
<1>2. CASE r.kind = "switch"
  <2>1. CASE r.ai
    BY <1>2, <2>1, ZenonT(40) DEF Following, Switch, EnableAI
  <2>2. CASE ~r.ai
    BY <1>2, <2>2, ZenonT(40) DEF Following, Switch, EnableAI
  <2> QED
    BY <2>1, <2>2
<1>3. CASE r.kind \in {"up", "down", "service", "recover"}
  BY <1>3, ZenonT(40) DEF Following, Single
<1>4. CASE r.kind = "restart"
  BY <1>4, ZenonT(40) DEF Following, Restart
<1>5. CASE r.kind = "profile"
  BY <1>5, ZenonT(40) DEF Following, SetProfile
<1>6. CASE r.kind = "resources"
  BY <1>6, ZenonT(40) DEF Following, SetResources
<1>7. CASE r.kind = "nuke"
  BY <1>7, ZenonT(40) DEF Following, Nuke
<1>8. CASE r.kind = "enable-ai"
  BY <1>8, ZenonT(40) DEF Following, EnableAI
<1>9. CASE r.kind = "disable-ai"
  BY <1>9, ZenonT(40) DEF Following, DisableAI
<1>10. CASE r.kind = "enable-monitoring"
  BY <1>10, ZenonT(40) DEF Following, EnableMonitoring
<1>11. CASE r.kind = "disable-monitoring"
  BY <1>11, ZenonT(40) DEF Following, DisableMonitoring
<1> QED
  BY <1>1, <1>2, <1>3, <1>4, <1>5, <1>6, <1>7, <1>8, <1>9, <1>10, <1>11 DEF Request

(* Whether AI is on adds no service to a stack.                            *)
LEMMA SameServices ==
  ASSUME NEW c \in Config, NEW d \in Config, d.version = c.version, d.profile = c.profile,
         d.monitoring = c.monitoring
  PROVE  ServicesOf(d) = ServicesOf(c)
<1>1. \A o \in Overlays : o # "connectors-ai-secrets" =>
        (o \in ComposeOverrideFiles(d) <=> o \in ComposeOverrideFiles(c))
  BY DEF ComposeOverrideFiles
<1>2. AddedBy("connectors-ai-secrets") = {}
  BY DEF AddedBy
<1>3. ComposeOverrideFiles(c) \subseteq Overlays /\ ComposeOverrideFiles(d) \subseteq Overlays
  BY DEF ComposeOverrideFiles
<1>4. UNION {AddedBy(o) : o \in ComposeOverrideFiles(d)}
        = UNION {AddedBy(o) : o \in ComposeOverrideFiles(c)}
  BY <1>1, <1>2, <1>3
<1> QED
  BY <1>4 DEF ServicesOf

(* A stack consists of the services the compose files name.              *)
LEMMA ServicesKnown == ASSUME NEW c \in Config PROVE ServicesOf(c) \subseteq Services
<1>1. \A o : AddedBy(o) \subseteq Services
  BY ConstantsAssumption DEF AddedBy
<1>2. Upstream[c.version][c.profile] \subseteq Services
  <2>1. c.version \in Versions /\ c.profile \in Profiles
    BY DEF Config
  <2> QED
    BY <2>1, ConstantsAssumption
<1> QED
  BY <1>1, <1>2 DEF ServicesOf

(* The services other than the connectors run as they are configured.      *)
OthersRun ==
  LET c == Loaded(config)
  IN  \A s \in ServicesOf(c) \ {"connectors"} :
        containers[s] = [version |-> c.version, resources |-> c.resources, ai |-> FALSE]

AIPossible == SupportsAIFeature(Loaded(config).version, Loaded(config).profile)

(* What has been done when a command of this request is at this stage.     *)
Reached(s, r) ==
  /\ r.kind \in {"install", "switch"} /\ s \in AIStages => OthersRun
  /\ r.kind = "enable-ai" =>
       /\ s \in {"secrets", "enable", "connectors"} => AIPossible
       /\ s \in {"enable", "connectors"} => secrets
       /\ s = "connectors" => Loaded(config).ai
  /\ r.kind = "disable-ai" /\ s \in {"forget", "connectors"} => ~Loaded(config).ai

Running == {"down", "clear", "reconcile", "up", "remediate", "again", "recreate"}

Position(q) ==
  q.at # "idle" =>
    /\ InChain(q.stage, q.req)
    /\ q.at \in {"up", "remediate", "again"} => q.stage = "start"
    /\ q.at \in {"clear", "reconcile"} => q.stage \in {"start", "recover"}
    /\ q.at = "down" => q.stage \in Stopping
    /\ q.at = "recreate" => q.stage \in Composing \ (Stopping \cup {"start", "recover"})

(* What a process knows is so: the settings it has read, the resources it  *)
(* has written, whether there were secrets, and what it has made.          *)
Known(q) ==
  /\ q.at \in {"resolve"} \cup Running => q.cfg = Loaded(config)
  /\ q.at \in Running => resEnv = q.cfg.resources /\ (q.env <=> q.cfg.ai /\ secrets)
  /\ q.at = "recreate" /\ q.stage = "monitoring" =>
       \A i \in 1..3 : i < q.turn => containers[Monitoring[i]] # None

SoloInv ==
  solo # None =>
    /\ \A o \in Others(solo) : ~Busy(o)
    /\ Position(proc[solo]) /\ Known(proc[solo])
    /\ Reached(proc[solo].stage, proc[solo].req)

AppliedInv == SoloInv /\ Applied

(* Only a command that has ended well has to have done what it says.       *)
LEMMA NotYetApplied ==
  ASSUME solo # None => proc[solo].at # "idle" \/ proc[solo].result # "ok"
                          \/ proc[solo].req.kind \notin Judged
  PROVE  Applied
BY DEF Applied, EndedKind, Ended, Judged, Starters

(* What a step that goes on, or gives up, does to its process.             *)
LEMMA AdvancedIs ==
  ASSUME NEW q \in Process
  PROVE  LET next == Following(q.req, q.stage)
         IN  /\ Advanced(q).stage = next /\ Advanced(q).at = Entry(next)
             /\ Advanced(q).req = q.req
             /\ Advanced(q).result = IF next = "end" THEN "ok" ELSE "none"
BY DEF Advanced, Process

(* A stage is entered at a point where nothing is known yet.               *)
LEMMA EntryIs ==
  ASSUME NEW s \in Stages \cup {"end"}
  PROVE  /\ Entry(s) \notin {"resolve"} \cup Running
         /\ Entry(s) = "idle" <=> s = "end"
BY DEF Entry, Running, Stages, Composing, Updating

(* The process under way is the one that was alone.                        *)
Here(p) ==
  /\ TypeOK /\ ProcTypes /\ SoloInv /\ Applied
  /\ p = solo /\ solo' = solo /\ p \in Procs /\ Busy(p)

(* What is known of the process under way.                               *)
LEMMA HereIs ==
  ASSUME NEW p, Here(p)
  PROVE  /\ solo # None /\ proc[p] \in Process /\ proc[p].req \in Request
         /\ proc[p].stage \in Stages
         /\ InChain(proc[p].stage, proc[p].req) /\ Position(proc[p]) /\ Known(proc[p])
         /\ Reached(proc[p].stage, proc[p].req) /\ Placed(proc[p])
         /\ \A o \in Others(p) : ~Busy(o)
         /\ ChainGoesOn(proc[p].stage, Following(proc[p].req, proc[p].stage), proc[p].req)
         /\ Following(proc[p].req, proc[p].stage) \in Stages \cup {"end"}
<1>1. solo # None /\ proc[p] \in Process /\ Placed(proc[p]) /\ proc[p].at # "idle"
  BY ConstantsAssumption DEF Here, ProcTypes, Busy
<1>2. /\ Position(proc[p]) /\ Known(proc[p]) /\ Reached(proc[p].stage, proc[p].req)
      /\ \A o \in Others(p) : ~Busy(o)
  BY <1>1 DEF Here, SoloInv
<1>3. /\ proc[p].req \in Request /\ proc[p].stage \in Stages
      /\ InChain(proc[p].stage, proc[p].req) /\ Belongs(proc[p].stage, proc[p].req)
  BY <1>1, <1>2 DEF Placed, Position, Process
<1> QED
  BY <1>1, <1>2, <1>3, ChainFollows, FollowingBelongs

(* A process that goes on: what the next stage rests on has to be so.      *)
LEMMA GoesOn ==
  ASSUME NEW p, Here(p), Advance(p), NEW r, NEW next, r = proc[p].req,
         next = Following(r, proc[p].stage),
         Reached(next, r)', next = "end" /\ r.kind \in Judged => Applied'
  PROVE  AppliedInv'
<1> DEFINE q == proc[p]
<1>1. /\ solo' # None /\ solo' = p /\ \A o \in Others(p) : proc'[o] = proc[o]
      /\ proc'[p] = Advanced(q)
  BY HereIs DEF Here, Advance, ProcTypes, Others
<1>2. /\ proc'[p].stage = next /\ proc'[p].at = Entry(next) /\ proc'[p].req = q.req
      /\ proc'[p].result = IF next = "end" THEN "ok" ELSE "none"
  BY <1>1, HereIs, AdvancedIs
<1>3. /\ next \in Stages \cup {"end"} /\ ChainGoesOn(q.stage, next, q.req)
      /\ \A o \in Others(p) : ~Busy(o)
  BY HereIs
<1>4. Reached(next, r)' /\ (next = "end" /\ r.kind \in Judged => Applied')
  OBVIOUS
<1>5. /\ Entry(next) \notin {"resolve"} \cup Running
      /\ Entry(next) = "idle" <=> next = "end"
  BY <1>3, EntryIs
<1>6. Position(proc'[p]) /\ Known(proc[p])'
  BY <1>2, <1>3, <1>5 DEF Position, Known, Running, ChainGoesOn
<1>7. Reached(proc[p].stage, proc[p].req)'
  BY <1>2, <1>4 DEF Reached
<1>8. SoloInv'
  BY <1>1, <1>3, <1>6, <1>7 DEF SoloInv, Busy, Others, Position
<1>9. Applied'
  <2>1. CASE next = "end" /\ q.req.kind \in Judged
    BY <1>4, <2>1
  <2>2. CASE next # "end"
    <3>1. proc'[solo'].at # "idle"
      BY <1>1, <1>2, <1>5, <2>2
    <3> QED
      BY <3>1 DEF Applied, EndedKind, Ended
  <2>3. CASE q.req.kind \notin Judged
    <3>1. proc'[solo'].req.kind \notin Judged
      BY <1>1, <1>2, <2>3
    <3> QED
      BY <3>1 DEF Applied, EndedKind, Judged, Starters
  <2> QED
    BY <2>1, <2>2, <2>3
<1> QED
  BY <1>8, <1>9 DEF AppliedInv

(* A process whose stage has failed; only a stop that is tried may fail.   *)
LEMMA StopsHere ==
  ASSUME NEW p, Here(p), NEW hit \in BOOLEAN, NEW q \in Process, q = [proc[p] EXCEPT !.hit = hit],
         proc' = [proc EXCEPT ![p] = Aborted(q)]
  PROVE  AppliedInv'
<1>1. /\ solo' # None /\ solo' = p /\ (\A o \in Others(p) : proc'[o] = proc[o])
      /\ proc'[p] = Aborted(q)
  BY HereIs DEF Here, ProcTypes, Others
<1>2. q.stage = proc[p].stage /\ q.req = proc[p].req
  BY HereIs DEF Process
<1>3. CASE q.stage # "try stop"
  <2>1. /\ proc'[p].stage = "end" /\ proc'[p].at = "idle" /\ proc'[p].result = "failed"
    <3>1. Aborted(q) = [q EXCEPT !.stage = "end", !.at = "idle", !.result = "failed"]
      BY <1>3 DEF Aborted
    <3>2. /\ Aborted(q).stage = "end" /\ Aborted(q).at = "idle" /\ Aborted(q).result = "failed"
      BY <3>1 DEF Process
    <3> QED
      BY <1>1, <3>2
  <2>2. SoloInv'
    BY <1>1, <2>1, HereIs DEF SoloInv, Busy, Others, Position, Known, Running, Reached, AIStages
  <2>3. Applied'
    BY <1>1, <2>1 DEF Applied, EndedKind, Ended
  <2> QED
    BY <2>2, <2>3 DEF AppliedInv
<1>4. CASE q.stage = "try stop"
  <2> PICK r, next : r = q.req /\ next = Following(r, "try stop")
    OBVIOUS
  <2>1. /\ proc'[p].stage = next /\ proc'[p].at = Entry(next) /\ proc'[p].req = q.req
        /\ proc'[p].result = IF next = "end" THEN "ok" ELSE "none"
    BY <1>1, <1>4, AdvancedIs DEF Aborted
  <2>2. /\ next \in Stages \cup {"end"} /\ ChainGoesOn("try stop", next, q.req)
        /\ \A o \in Others(p) : ~Busy(o)
        /\ InChain("try stop", q.req)
    BY <1>2, <1>4, HereIs
  <2>3. Reached(next, r)'
    BY <2>2 DEF ChainGoesOn, Preceded, Reached, InChain, AIStages, LastIn
  <2>4. next = "end" => q.req.kind \notin Judged
    BY <2>2 DEF ChainGoesOn, LastIn, InChain, AIStages, Judged, Starters
  <2>5. /\ Entry(next) \notin {"resolve"} \cup Running
        /\ Entry(next) = "idle" <=> next = "end"
    BY <2>2, EntryIs
  <2>6. Position(proc'[p]) /\ Known(proc[p])'
    BY <2>1, <2>2, <2>5 DEF Position, Known, Running, ChainGoesOn
  <2>7. Reached(proc[p].stage, proc[p].req)'
    BY <2>1, <2>3 DEF Reached
  <2>8. SoloInv'
    BY <1>1, <2>2, <2>6, <2>7 DEF SoloInv, Busy, Others, Position
  <2>9. Applied'
    BY <1>1, <2>1, <2>4, <2>5 DEF Applied, EndedKind, Ended, Judged, Starters
  <2> QED
    BY <2>8, <2>9 DEF AppliedInv
<1> QED
  BY <1>3, <1>4

(* A process that dies or gives up.                                      *)
LEMMA AbortHere == ASSUME NEW p, Here(p), Abort(p) PROVE AppliedInv'
<1>1. proc[p] \in Process /\ proc[p].hit \in BOOLEAN
  BY HereIs DEF Process
<1>2. proc[p] = [proc[p] EXCEPT !.hit = proc[p].hit]
  BY <1>1 DEF Process
<1>3. proc' = [proc EXCEPT ![p] = Aborted(proc[p])]
  BY DEF Abort
<1> QED
  BY <1>1, <1>2, <1>3, StopsHere

(* A failure that ends the stage of the process.                         *)
LEMMA HitHere == ASSUME NEW p, Here(p), NEW point, Hit(p, point) PROVE AppliedInv'
<1>1. [proc[p] EXCEPT !.hit = TRUE] \in Process
  BY HereIs DEF Process
<1>2. proc' = [proc EXCEPT ![p] = Aborted([proc[p] EXCEPT !.hit = TRUE])]
  BY DEF Hit
<1> QED
  BY <1>1, <1>2, StopsHere

(* A process that stays in its stage.                                      *)
LEMMA InsideHere ==
  ASSUME NEW p, Here(p), NEW q \in Process, proc' = [proc EXCEPT ![p] = q],
         q.stage = proc[p].stage, q.req = proc[p].req, q.at # "idle",
         Position(q), Known(proc[p])', Reached(proc[p].stage, proc[p].req)'
  PROVE  AppliedInv'
<1>1. /\ solo' # None /\ solo' = p /\ (\A o \in Others(p) : proc'[o] = proc[o])
      /\ proc'[p] = q
  BY HereIs DEF Here, ProcTypes, Others
<1>2. SoloInv'
  BY <1>1, HereIs DEF SoloInv, Busy, Others
<1>3. Applied'
  BY <1>1 DEF Applied, EndedKind, Ended
<1> QED
  BY <1>2, <1>3 DEF AppliedInv
-------------------------------------------------------------------------------
(* What was reached stays so while nothing it rests on changes.          *)
LEMMA ReachedStays ==
  ASSUME NEW s, NEW r, Reached(s, r), UNCHANGED <<config, secrets, containers>>
  PROVE  Reached(s, r)'
BY DEF Reached, OthersRun, AIPossible

LEMMA ReachedKept ==
  ASSUME NEW s, NEW r, NEW p, Reached(s, r), UNCHANGED <<config, secrets, containers>>,
         proc'[p].stage = s, proc'[p].req = r
  PROVE  Reached(proc[p].stage, proc[p].req)'
<1>1. /\ OthersRun' = OthersRun /\ AIPossible' = AIPossible
      /\ secrets' = secrets /\ Loaded(config)' = Loaded(config)
  BY DEF OthersRun, AIPossible
<1> HIDE DEF OthersRun, AIPossible, Loaded
<1> QED
  BY <1>1 DEF Reached

(* An update writes what its command is about, and no more.                *)
LEMMA UpdateHere == ASSUME NEW p, Here(p), Update(p) PROVE AppliedInv'
<1> DEFINE q == proc[p]
           c == Loaded(config)
<1> PICK r, next : r = proc[p].req /\ next = Following(r, proc[p].stage)
  OBVIOUS
<1>0. /\ q.stage = q.at /\ q.at \in Updating /\ r \in Request /\ q.want \in Config
      /\ InChain(q.stage, r) /\ ChainGoesOn(q.stage, next, r)
      /\ Reached(q.stage, r)
  BY HereIs DEF Update, Placed, Simple, Stages, Composing, Updating, Process
<1>1. CASE Hit(p, "update")
  BY <1>1, HitHere
<1>2. CASE config' = Mutated(q.at, q.want, c) /\ Advance(p) /\ UNCHANGED <<secrets, containers>>
  <2>1. c \in Config /\ config' \in Config /\ Loaded(config)' = config'
    <3>1. c \in Config
      BY LoadedType DEF Here, TypeOK
    <3>2. config' \in Config
      BY <1>0, <1>2, <3>1, MutatedType
    <3> QED
      BY <3>1, <3>2, ConstantsAssumption DEF Loaded
  <2>2. next = "end" => r.kind \notin Judged
    BY <1>0 DEF ChainGoesOn, LastIn, Judged, Starters, Updating
  <2>3. Reached(next, r)'
    <3>1. CASE q.stage = "enable"
      <4>1. config' = [c EXCEPT !.ai = TRUE]
        BY <1>0, <1>2, <3>1 DEF Mutated
      <4>2. /\ config'.version = c.version /\ config'.profile = c.profile
            /\ config'.resources = c.resources /\ config'.monitoring = c.monitoring
            /\ config'.ai
        BY <2>1, <4>1 DEF Config
      <4>3. ServicesOf(config') = ServicesOf(c)
        BY <2>1, <4>2, SameServices
      <4>4. OthersRun => OthersRun'
        BY <1>2, <2>1, <4>2, <4>3 DEF OthersRun
      <4>5. AIPossible => AIPossible'
        BY <2>1, <4>2 DEF AIPossible
      <4> QED
        BY <1>0, <1>2, <2>1, <3>1, <4>2, <4>4, <4>5
        DEF Reached, ChainGoesOn, Preceded, AIStages, InChain
    <3>2. CASE q.stage = "disable"
      <4>1. config' = [c EXCEPT !.ai = FALSE]
        BY <1>0, <1>2, <3>2 DEF Mutated
      <4>2. ~Loaded(config)'.ai
        BY <2>1, <4>1 DEF Config
      <4> QED
        BY <1>0, <3>2, <4>2 DEF Reached, ChainGoesOn, Preceded, AIStages, InChain
    <3>3. CASE q.stage \notin {"enable", "disable"}
      BY <1>0, <3>3 DEF Reached, ChainGoesOn, Preceded, AIStages, InChain, Updating
    <3> QED
      BY <3>1, <3>2, <3>3
  <2> QED
    BY <1>2, <2>2, <2>3, GoesOn
<1> QED
  BY <1>1, <1>2 DEF Update, home, docker

(* Precheck and validation change nothing.                               *)
LEMMA CheckHere == ASSUME NEW p, Here(p), Check(p) PROVE AppliedInv'
<1> DEFINE q == proc[p]
<1> PICK r, next : r = proc[p].req /\ next = Following(r, proc[p].stage)
  OBVIOUS
<1>0. /\ q.stage = q.at /\ q.at \in {"check", "precheck", "validate"} /\ r \in Request
      /\ InChain(q.stage, r) /\ ChainGoesOn(q.stage, next, r)
      /\ Reached(q.stage, r) /\ UNCHANGED <<config, secrets, containers>>
  BY HereIs DEF Check, Placed, Simple, Stages, Composing, Updating, Process, home, docker
<1>1. CASE Abort(p)
  BY <1>1, AbortHere
<1>2. CASE Supported(q) /\ Advance(p)
  <2>1. next = "end" => r.kind \notin Judged
    BY <1>0 DEF ChainGoesOn, LastIn, Judged, Starters
  <2>2. Reached(next, r)'
    <3>1. q.stage = "validate" => AIPossible
      BY <1>0, <1>2 DEF Supported, AIPossible
    <3>2. Reached(next, r)
      BY <1>0, <3>1 DEF Reached, ChainGoesOn, Preceded, AIStages, InChain
    <3> QED
      BY <1>0, <3>2, ReachedStays
  <2> QED
    BY <1>2, <2>1, <2>2, GoesOn
<1> QED
  BY <1>1, <1>2 DEF Check

(* Secrets are written when AI is enabled, deleted when it is disabled.  *)
LEMMA SecretsHere ==
  ASSUME NEW p, Here(p), WriteSecrets(p) \/ DeleteSecretsFile(p)
  PROVE  AppliedInv'
<1> DEFINE q == proc[p]
<1> PICK r, next : r = proc[p].req /\ next = Following(r, proc[p].stage)
  OBVIOUS
<1>0. /\ q.stage = q.at /\ q.at \in {"secrets", "forget"} /\ r \in Request
      /\ InChain(q.stage, r) /\ ChainGoesOn(q.stage, next, r)
      /\ Reached(q.stage, r) /\ UNCHANGED <<config, containers>>
  BY HereIs DEF WriteSecrets, DeleteSecretsFile, Placed, Simple, Stages, Composing, Updating,
                Process, docker
<1>1. CASE \E point \in {"secrets", "forget"} : Hit(p, point)
  BY <1>1, HitHere
<1>2. CASE Advance(p) /\ (q.stage = "secrets" => secrets')
  <2>1. next = "end" => r.kind \notin Judged
    BY <1>0 DEF ChainGoesOn, LastIn, Judged, Starters
  <2>2. (OthersRun => OthersRun') /\ (AIPossible => AIPossible') /\ Loaded(config)' = Loaded(config)
    BY <1>0 DEF OthersRun, AIPossible
  <2>3. Reached(next, r)'
    <3> QED
      BY <1>0, <1>2, <2>2 DEF Reached, ChainGoesOn, Preceded, AIStages, InChain
  <2> QED
    BY <1>2, <2>1, <2>3, GoesOn
<1> QED
  BY <1>0, <1>1, <1>2 DEF WriteSecrets, DeleteSecretsFile

(* Synchronising the resources and erasing are not of the commands judged. *)
LEMMA OtherCommandsHere ==
  ASSUME NEW p, Here(p), SyncResourcesEnv(p) \/ Erase(p)
  PROVE  AppliedInv'
<1> PICK r, next : r = proc[p].req /\ next = Following(r, proc[p].stage)
  OBVIOUS
<1>0. /\ proc[p].stage \in {"sync", "erase"} /\ InChain(proc[p].stage, r) /\ r \in Request
  BY HereIs DEF SyncResourcesEnv, Erase, Placed, Simple, Stages, Composing, Updating
<1>1. r.kind \notin Judged
  BY <1>0 DEF InChain, AIStages, Judged, Starters
<1>2. Reached(next, r)'
  BY <1>1 DEF Reached, Judged, Starters
<1>3. CASE \E point \in {"sync", "erase"} : Hit(p, point)
  BY <1>3, HitHere
<1>4. CASE Advance(p)
  BY <1>1, <1>2, <1>4, GoesOn
<1> QED
  BY <1>3, <1>4, Zenon DEF SyncResourcesEnv, Erase

(* A distribution that is fetched concerns no service that runs.           *)
LEMMA EnsureHere ==
  ASSUME NEW p, Here(p), EnsureLook(p) \/ EnsureFetch(p) \/ EnsureUnzip(p)
  PROVE  AppliedInv'
<1> PICK r, next : r = proc[p].req /\ next = Following(r, proc[p].stage)
  OBVIOUS
<1>0. /\ proc[p].stage = "ensure" /\ InChain("ensure", r) /\ ChainGoesOn("ensure", next, r)
      /\ proc[p].at \in Ensuring /\ proc[p] \in Process
  BY HereIs DEF EnsureLook, EnsureFetch, EnsureUnzip, Placed, Ensuring
<1>1. CASE Hit(p, "fetch") \/ Hit(p, "unzip")
  BY <1>1, HitHere
<1>2. CASE Advance(p)
  <2>1. next = "end" => r.kind \notin Judged
    BY <1>0 DEF ChainGoesOn, LastIn, Judged, Starters
  <2>2. Reached(next, r)'
    BY <1>0 DEF Reached, ChainGoesOn, Preceded, AIStages, InChain
  <2> QED
    BY <1>2, <2>1, <2>2, GoesOn
<1>3. ASSUME NEW point \in {"fetch", "unzip"}, Goto(p, point) PROVE AppliedInv'
  <2> PICK q : q = [proc[p] EXCEPT !.at = point]
    OBVIOUS
  <2>1. /\ q \in Process /\ q.at = point /\ q.stage = "ensure" /\ q.req = r
    BY <1>0 DEF Process, Points
  <2>2. proc' = [proc EXCEPT ![p] = q]
    BY <1>3 DEF Goto, Here, ProcTypes
  <2>3. proc'[p] = q
    BY <2>2 DEF Here, ProcTypes
  <2>4. Position(q) /\ Known(proc[p])'
    BY <1>0, <2>1, <2>3 DEF Position, Known, Running
  <2>5. Reached(proc[p].stage, proc[p].req)'
    BY <2>1, <2>3 DEF Reached, AIStages
  <2> QED
    BY <1>0, <2>1, <2>2, <2>4, <2>5, InsideHere
<1> QED
  BY <1>1, <1>2, <1>3 DEF EnsureLook, EnsureFetch, EnsureUnzip
-------------------------------------------------------------------------------
(* Compose: a command reads the settings, resolves the files, and asks.    *)

(* Reading the settings.                                                 *)
LEMMA LoadHere == ASSUME NEW p, Here(p), Load(p) PROVE AppliedInv'
<1> PICK q : q = [proc[p] EXCEPT !.cfg = Loaded(config), !.at = "resolve"]
  OBVIOUS
<1>0. /\ proc[p] \in Process /\ InChain(proc[p].stage, proc[p].req)
      /\ Reached(proc[p].stage, proc[p].req) /\ UNCHANGED <<config, secrets, containers>>
  BY HereIs DEF Load, home, docker
<1>1. Loaded(config) \in Config
  BY LoadedType DEF Here, TypeOK
<1>2. /\ q \in Process /\ q.at = "resolve" /\ q.stage = proc[p].stage /\ q.req = proc[p].req
      /\ q.cfg = Loaded(config)
  BY <1>0, <1>1 DEF Process, Points
<1>3. proc' = [proc EXCEPT ![p] = q]
  BY DEF Load, Here, ProcTypes
<1>4. proc'[p] = q /\ Loaded(config)' = Loaded(config)
  BY <1>0, <1>3 DEF Here, ProcTypes
<1>5. Position(q) /\ Known(proc[p])'
  BY <1>0, <1>2, <1>4 DEF Position, Known, Running
<1>6. Reached(proc[p].stage, proc[p].req)'
  BY <1>0, <1>2, <1>4, ReachedKept
<1> QED
  BY <1>2, <1>3, <1>5, <1>6, InsideHere

(* Resolving the files and the secrets they need.                        *)
LEMMA ResolveHere == ASSUME NEW p, Here(p), Resolve(p) PROVE AppliedInv'
<1>0. /\ proc[p] \in Process /\ InChain(proc[p].stage, proc[p].req) /\ proc[p].at = "resolve"
      /\ Known(proc[p]) /\ Placed(proc[p])
      /\ Reached(proc[p].stage, proc[p].req) /\ UNCHANGED <<config, secrets, containers>>
  BY HereIs DEF Resolve, docker
<1>1. CASE Abort(p) \/ Hit(p, "resolve")
  BY <1>1, AbortHere, HitHere
<1>2. CASE /\ resEnv' = proc[p].cfg.resources
           /\ proc' = [proc EXCEPT ![p].env = proc[p].cfg.ai /\ secrets,
                                   ![p].turn = 1, ![p].at = AfterResolve(proc[p])]
  <2> PICK env, point : env = (proc[p].cfg.ai /\ secrets) /\ point = AfterResolve(proc[p])
    OBVIOUS
  <2> PICK q : q = [proc[p] EXCEPT !.env = env, !.turn = 1, !.at = point]
    OBVIOUS
  <2>1. /\ proc[p].stage \in Stopping => point = "down"
        /\ proc[p].stage \in {"start", "recover"} => point = "clear"
        /\ proc[p].stage \notin Stopping \cup {"start", "recover"} => point = "recreate"
    BY DEF AfterResolve, Stopping
  <2>2. env \in BOOLEAN /\ point \in Points
    BY <2>1 DEF Points
  <2>3. q \in Process
    BY <1>0, <2>2, ResolvedProcess
  <2>4. /\ q.at = point /\ q.stage = proc[p].stage /\ q.req = proc[p].req
        /\ q.cfg = proc[p].cfg /\ q.env = env /\ q.turn = 1
    BY <1>0, <2>2 DEF Process
  <2>5. proc' = [proc EXCEPT ![p] = q]
    BY <1>2 DEF Here, ProcTypes
  <2>6. proc'[p] = q /\ Loaded(config)' = Loaded(config)
    BY <1>0, <2>5 DEF Here, ProcTypes
  <2>7. proc[p].stage \in Composing
    BY <1>0, HereIs DEF Placed, Simple, Ensuring, Stages, Composing, Updating
  <2>8. Position(q)
    BY <1>0, <2>1, <2>4, <2>7 DEF Position
  <2>9. Known(proc[p])'
    <3>1. env <=> (proc[p].cfg.ai /\ secrets)
      OBVIOUS
    <3>2. q.env <=> (q.cfg.ai /\ secrets')
      BY <1>0, <2>4, <3>1
    <3>3. q.cfg = Loaded(config)' /\ resEnv' = q.cfg.resources
      BY <1>0, <1>2, <2>4, <2>6 DEF Known
    <3>4. \A i \in 1..3 : ~(i < q.turn)
      BY <2>4
    <3> QED
      BY <2>6, <3>2, <3>3, <3>4 DEF Known
  <2>10. Reached(proc[p].stage, proc[p].req)'
    <3>1. /\ proc'[p].stage = proc[p].stage /\ proc'[p].req = proc[p].req
          /\ secrets' = secrets /\ config' = config /\ containers' = containers
      BY <1>0, <2>4, <2>6
    <3> QED
      BY <1>0, <3>1, ReachedKept
  <2>11. q.at # "idle"
    BY <2>1, <2>4
  <2> QED
    BY <2>3, <2>4, <2>5, <2>8, <2>9, <2>10, <2>11, InsideHere
<1> QED
  BY <1>1, <1>2 DEF Resolve

(* A stage that stops or starts is not one of enabling AI.                 *)
LEMMA NothingReached ==
  ASSUME NEW s, NEW r, s \notin AIStages \cup {"forget"}
  PROVE  Reached(s, r)'
BY DEF Reached, AIStages

(* A stack that is taken down leaves no service.                         *)
LEMMA DownHere == ASSUME NEW p, Here(p), ComposeDown(p) PROVE AppliedInv'
<1> PICK r, next : r = proc[p].req /\ next = Following(r, proc[p].stage)
  OBVIOUS
<1>0. /\ proc[p] \in Process /\ proc[p].at = "down" /\ proc[p].stage \in Stopping
      /\ InChain(proc[p].stage, r) /\ ChainGoesOn(proc[p].stage, next, r)
      /\ proc[p].cfg = Loaded(config) /\ UNCHANGED <<config, secrets>>
  BY HereIs DEF ComposeDown, Position, Known, Running, home
<1>1. CASE Abort(p) \/ Hit(p, "down")
  BY <1>1, AbortHere, HitHere
<1>2. CASE Stopped(proc[p]) /\ Advance(p)
  <2>1. next \notin AIStages \cup {"forget"} \/ r.kind \notin {"install", "switch", "enable-ai", "disable-ai"}
    BY <1>0 DEF ChainGoesOn, Preceded, InChain, AIStages, Stopping
  <2>2. Reached(next, r)'
    BY <2>1 DEF Reached, AIStages
  <2>3. next = "end" /\ r.kind \in Judged => r.kind = "down"
    BY <1>0 DEF ChainGoesOn, LastIn, InChain, AIStages, Judged, Starters, Stopping
  <2>4. ASSUME NEW s \in ServicesOf(proc[p].cfg) PROVE containers'[s] = None
    <3>1. s \in Services /\ s \in Doomed(proc[p])
      BY <1>0, ServicesKnown DEF Process, Doomed
    <3> QED
      BY <1>2, <3>1 DEF Stopped, Removed
  <2>5. next = "end" /\ r.kind \in Judged => Applied'
    <3> SUFFICES ASSUME r.kind = "down" PROVE Applied'
      BY <2>3
    <3>1. proc'[solo'].req.kind = "down"
      BY <1>0, <1>2, AdvancedIs DEF Here, ProcTypes, Advance
    <3>2. \A s \in ServicesOf(Loaded(config)') : containers'[s] = None
      BY <1>0, <2>4
    <3> QED
      BY <3>1, <3>2 DEF Applied, EndedKind
  <2> QED
    BY <1>2, <2>2, <2>5, GoesOn
<1> QED
  BY <1>1, <1>2 DEF ComposeDown

(* Going to another point of a stage that starts.                          *)
LEMMA StartingHere ==
  ASSUME NEW p, Here(p), NEW point \in {"reconcile", "up", "remediate", "again"}, Goto(p, point),
         proc[p].at \in Running, proc[p].stage \in {"start", "recover"},
         point # "reconcile" => proc[p].stage = "start",
         UNCHANGED <<config, secrets, resEnv>>
  PROVE  AppliedInv'
<1> PICK q : q = [proc[p] EXCEPT !.at = point]
  OBVIOUS
<1>0. proc[p] \in Process /\ Known(proc[p]) /\ InChain(proc[p].stage, proc[p].req)
  BY HereIs
<1>1. /\ q \in Process /\ q.at = point /\ q.stage = proc[p].stage /\ q.req = proc[p].req
      /\ q.cfg = proc[p].cfg /\ q.env = proc[p].env
  BY <1>0 DEF Process, Points
<1>2. proc' = [proc EXCEPT ![p] = q]
  BY DEF Goto, Here, ProcTypes
<1>3. proc'[p] = q /\ Loaded(config)' = Loaded(config)
  BY <1>2 DEF Here, ProcTypes
<1>4. Position(q)
  BY <1>0, <1>1 DEF Position
<1>5. Known(proc[p])'
  BY <1>0, <1>1, <1>3 DEF Known, Running
<1>6. Reached(proc[p].stage, proc[p].req)'
  BY <1>1, <1>3 DEF Reached, AIStages
<1> QED
  BY <1>1, <1>2, <1>4, <1>5, <1>6, InsideHere

(* Clearing what is in the way, before services start.                   *)
LEMMA ClearHere ==
  ASSUME NEW p, Here(p), Clear(p) \/ Reconcile(p)
  PROVE  AppliedInv'
<1> PICK r, next : r = proc[p].req /\ next = Following(r, proc[p].stage)
  OBVIOUS
<1>0. /\ proc[p].at \in {"clear", "reconcile"} /\ proc[p].stage \in {"start", "recover"}
      /\ proc[p].at \in Running /\ InChain(proc[p].stage, r)
      /\ UNCHANGED <<config, secrets, resEnv>>
  BY HereIs DEF Clear, Reconcile, Position, Running, home
<1>1. CASE Goto(p, "reconcile")
  BY <1>0, <1>1, StartingHere
<1>2. CASE proc[p].stage # "recover" /\ Goto(p, "up")
  BY <1>0, <1>2, StartingHere
<1>3. CASE proc[p].stage = "recover" /\ Advance(p)
  <2>1. r.kind \notin Judged
    BY <1>0, <1>3 DEF InChain, AIStages, Judged, Starters
  <2>2. Reached(next, r)'
    BY <2>1 DEF Reached, Judged, Starters
  <2> QED
    BY <1>3, <2>1, <2>2, GoesOn
<1> QED
  BY <1>1, <1>2, <1>3 DEF Clear, Reconcile

(* What a service is made from when the settings are known.                *)
LEMMA MadeIs ==
  ASSUME NEW p, Here(p), proc[p].at \in Running, NEW new, NEW s \in Services, s \in new
  PROVE  LET c == Loaded(config)
             image == [version |-> c.version, resources |-> c.resources,
                       ai |-> s = "connectors"
                              /\ ("connectors-ai-secrets" \in ComposeOverrideFiles(c) /\ secrets)]
         IN  Made(proc[p], new)[s] = image /\ image \in Image
<1> PICK c, q : c = Loaded(config) /\ q = proc[p]
  OBVIOUS
<1>1. /\ q.cfg = c /\ resEnv = c.resources /\ (q.env <=> c.ai /\ secrets) /\ c \in Config
  BY HereIs, LoadedType DEF Known, Here, TypeOK
<1>2. "connectors-ai-secrets" \in ComposeOverrideFiles(c) => c.ai
  BY DEF ComposeOverrideFiles
<1>3. (s = "connectors" /\ q.env /\ "connectors-ai-secrets" \in ComposeOverrideFiles(c))
        = (s = "connectors" /\ ("connectors-ai-secrets" \in ComposeOverrideFiles(c) /\ secrets))
  BY <1>1, <1>2
<1>4. Made(q, new)[s] = ImageOf(q, s)
  BY DEF Made
<1>5. ImageOf(q, s) =
        [version |-> c.version, resources |-> c.resources,
         ai |-> s = "connectors" /\ ("connectors-ai-secrets" \in ComposeOverrideFiles(c) /\ secrets)]
  BY <1>1, <1>3 DEF ImageOf
<1>6. [version |-> c.version, resources |-> c.resources,
       ai |-> s = "connectors" /\ ("connectors-ai-secrets" \in ComposeOverrideFiles(c) /\ secrets)]
        \in Image
  BY <1>1 DEF Image, Config
<1> QED
  BY <1>4, <1>5, <1>6

LEMMA MadeIsImage ==
  ASSUME NEW p, Here(p), proc[p].at \in Running, NEW s \in Services
  PROVE  Made(proc[p], {s})[s] \in Image
<1>1. s \in {s}
  OBVIOUS
<1> QED
  BY <1>1, MadeIs

(* All services of the stack are made from the settings there are.         *)
LEMMA UpHere == ASSUME NEW p, Here(p), ComposeUp(p) PROVE AppliedInv'
<1> PICK r, next : r = proc[p].req /\ next = Following(r, proc[p].stage)
  OBVIOUS
<1> PICK c : c = Loaded(config)
  OBVIOUS
<1>0. /\ proc[p].at \in Running /\ proc[p].stage = "start" /\ InChain("start", r)
      /\ ChainGoesOn("start", next, r) /\ proc[p].cfg = c
      /\ containers' = Made(proc[p], ServicesOf(c)) /\ Advance(p)
      /\ UNCHANGED <<config, secrets>>
  BY HereIs DEF ComposeUp, Position, Known, Running, home
<1>1. c \in Config /\ Loaded(config)' = c
  BY <1>0, LoadedType DEF Here, TypeOK
<1>2. ASSUME NEW s \in ServicesOf(c)
      PROVE  containers'[s] =
               [version |-> c.version, resources |-> c.resources,
                ai |-> s = "connectors"
                       /\ ("connectors-ai-secrets" \in ComposeOverrideFiles(c) /\ secrets)]
  BY <1>0, <1>1, ServicesKnown, MadeIs
<1>3. OthersRun'
  <2> SUFFICES ASSUME NEW s \in ServicesOf(c) \ {"connectors"}
               PROVE  containers'[s] = [version |-> c.version, resources |-> c.resources,
                                        ai |-> FALSE]
    BY <1>1 DEF OthersRun
  <2>1. (s = "connectors" /\ ("connectors-ai-secrets" \in ComposeOverrideFiles(c) /\ secrets)) = FALSE
    OBVIOUS
  <2> QED
    BY <1>2, <2>1
<1>4. Reached(next, r)'
  BY <1>0, <1>3 DEF Reached, ChainGoesOn, Preceded, AIStages, InChain
<1>5. next = "end" /\ r.kind \in Judged => Applied'
  <2> SUFFICES ASSUME next = "end", r.kind \in Judged PROVE Applied'
    OBVIOUS
  <2>1. r.kind \in Starters
    BY <1>0 DEF ChainGoesOn, LastIn, InChain, AIStages, Judged, Starters
  <2>2. proc'[solo'].req.kind \in Starters
    BY <1>0, <2>1, AdvancedIs, HereIs DEF Here, ProcTypes, Advance
  <2>3. \A s \in ServicesOf(Loaded(config)') : containers'[s] =
          [version |-> Loaded(config)'.version, resources |-> Loaded(config)'.resources,
           ai |-> s = "connectors"
                  /\ ("connectors-ai-secrets" \in ComposeOverrideFiles(Loaded(config)') /\ secrets')]
    BY <1>0, <1>1, <1>2
  <2> QED
    BY <2>2, <2>3 DEF Applied, EndedKind, Starters
<1> QED
  BY <1>0, <1>4, <1>5, GoesOn

(* A start that fails is tried again, or fails the command.              *)
LEMMA UpFailsHere ==
  ASSUME NEW p, Here(p), ComposeUpFails(p) \/ Remediate(p)
  PROVE  AppliedInv'
<1>0. /\ proc[p].at \in Running /\ proc[p].stage = "start"
      /\ UNCHANGED <<config, secrets, resEnv>>
  BY HereIs DEF ComposeUpFails, Remediate, Position, Running, home
<1>1. CASE Abort(p) \/ Hit(p, "up")
  BY <1>1, AbortHere, HitHere
<1>2. CASE Goto(p, "remediate") \/ Goto(p, "again")
  BY <1>0, <1>2, StartingHere
<1> QED
  BY <1>1, <1>2, Zenon DEF ComposeUpFails, Remediate

(* The connectors are the last a command that enables AI makes anew.       *)
LEMMA RecreateHere == ASSUME NEW p, Here(p), Recreate(p) PROVE AppliedInv'
<1> PICK r, next : r = proc[p].req /\ next = Following(r, proc[p].stage)
  OBVIOUS
<1> PICK c, t : c = Loaded(config) /\ t = Target(proc[p])
  OBVIOUS
<1>0. /\ proc[p] \in Process /\ proc[p].at = "recreate" /\ proc[p].at \in Running
      /\ proc[p].stage \in {"connectors", "monitoring", "service"}
      /\ InChain(proc[p].stage, r) /\ ChainGoesOn(proc[p].stage, next, r)
      /\ proc[p].cfg = c /\ Known(proc[p]) /\ Reached(proc[p].stage, r)
      /\ UNCHANGED <<config, secrets, resEnv>>
  BY HereIs DEF Recreate, Position, Known, Running, home, Composing, Stopping
<1>1. c \in Config /\ Loaded(config)' = c
  BY <1>0, LoadedType DEF Here, TypeOK
<1>2. CASE Abort(p) \/ Hit(p, "recreate")
  BY <1>2, AbortHere, HitHere
<1>3. CASE /\ t \in ServicesOf(c) /\ containers' = Made(proc[p], {t})
           /\ \/ proc[p].stage # "monitoring" \/ ~(proc[p].turn < 3)
           /\ Advance(p)
  <2>0. t \in Services
    BY <1>1, <1>3, ServicesKnown
  <2>1. /\ containers'[t] =
             [version |-> c.version, resources |-> c.resources,
              ai |-> t = "connectors"
                     /\ ("connectors-ai-secrets" \in ComposeOverrideFiles(c) /\ secrets)]
        /\ containers'[t] \in Image
    BY <1>0, <1>3, <2>0, MadeIs
  <2>2. \A s \in Services \ {t} : containers'[s] = containers[s]
    BY <1>3 DEF Made
  <2>3. next = "end" \/ r.kind \notin Judged
    <3>1. proc[p].stage = "service" => r.kind \notin Judged
      BY <1>0 DEF InChain, AIStages, Judged, Starters
    <3> QED
      BY <1>0, <3>1 DEF ChainGoesOn
  <2>4. Reached(next, r)'
    BY <2>3 DEF Reached, AIStages, Judged, Starters
  <2>5. next = "end" /\ r.kind \in Judged => Applied'
    <3> SUFFICES ASSUME next = "end", r.kind \in Judged PROVE Applied'
      OBVIOUS
    <3>1. proc'[solo'].req.kind = r.kind
      BY <1>3, AdvancedIs, HereIs DEF Here, ProcTypes, Advance
    <3>2. CASE r.kind = "enable-monitoring"
      <4>1. proc[p].stage = "monitoring"
        BY <1>0, <3>2 DEF InChain
      <4>2. proc[p].turn = 3
        BY <1>0, <1>3, <4>1 DEF Process
      <4>3. t = Monitoring[3]
        BY <4>1, <4>2 DEF Target
      <4>4. \A i \in {1, 2} : containers[Monitoring[i]] # None
        BY <1>0, <4>1, <4>2 DEF Known
      <4>5. \A i \in {1, 2} : Monitoring[i] \in Services /\ Monitoring[i] # t
        BY <4>3, ConstantsAssumption DEF Monitoring
      <4>6. \A i \in {1, 2, 3} : containers'[Monitoring[i]] # None
        BY <2>1, <2>2, <4>3, <4>4, <4>5, ConstantsAssumption
      <4>7. \A i \in 1..3 : containers'[Monitoring[i]] # None
        BY <4>6
      <4> QED
        BY <3>1, <3>2, <4>7 DEF Applied, EndedKind
    <3>3. CASE r.kind # "enable-monitoring"
      <4>1. proc[p].stage = "connectors" /\ r.kind \in {"install", "switch", "enable-ai", "disable-ai"}
        BY <1>0, <3>3 DEF ChainGoesOn, LastIn, InChain, AIStages, Judged, Starters
      <4>2. t = "connectors"
        BY <4>1 DEF Target
      <4>3. containers'["connectors"].ai
              <=> ("connectors-ai-secrets" \in ComposeOverrideFiles(c) /\ secrets)
        <5>1. containers'[t].ai =
                (t = "connectors" /\ ("connectors-ai-secrets" \in ComposeOverrideFiles(c) /\ secrets))
          BY <2>1
        <5> QED
          BY <4>2, <5>1
      <4>4. CASE r.kind \in {"install", "switch"}
        <5>1. \A s \in ServicesOf(c) \ {"connectors"} :
                containers[s] = [version |-> c.version, resources |-> c.resources, ai |-> FALSE]
          BY <1>0, <4>1, <4>4 DEF Reached, AIStages, OthersRun
        <5>2. ASSUME NEW s \in ServicesOf(c)
              PROVE  containers'[s] =
                       [version |-> c.version, resources |-> c.resources,
                        ai |-> s = "connectors"
                               /\ ("connectors-ai-secrets" \in ComposeOverrideFiles(c) /\ secrets)]
          <6>1. CASE s = t
            BY <2>1, <6>1
          <6>2. CASE s # t
            <7>1. (s = "connectors"
                    /\ ("connectors-ai-secrets" \in ComposeOverrideFiles(c) /\ secrets)) = FALSE
              BY <4>2, <6>2
            <7>2. containers'[s] = [version |-> c.version, resources |-> c.resources, ai |-> FALSE]
              BY <1>1, <2>2, <4>2, <5>1, <6>2, ServicesKnown
            <7> QED
              BY <7>1, <7>2
          <6> QED
            BY <6>1, <6>2
        <5> QED
          BY <1>0, <1>1, <3>1, <4>4, <5>2 DEF Applied, EndedKind
      <4>5. CASE r.kind = "enable-ai"
        <5>1. AIPossible /\ secrets /\ c.ai
          BY <1>0, <4>1, <4>5 DEF Reached
        <5>2. "connectors-ai-secrets" \in ComposeOverrideFiles(c)
          BY <5>1 DEF AIPossible, ComposeOverrideFiles, Overlays
        <5>3. containers'["connectors"].ai
          BY <4>3, <5>1, <5>2
        <5> QED
          BY <3>1, <4>5, <5>3 DEF Applied, EndedKind
      <4>6. CASE r.kind = "disable-ai"
        <5>1. ~c.ai
          BY <1>0, <4>1, <4>6 DEF Reached
        <5>2. "connectors-ai-secrets" \notin ComposeOverrideFiles(c)
          BY <5>1 DEF ComposeOverrideFiles
        <5>3. ~containers'["connectors"].ai
          BY <4>3, <5>2
        <5> QED
          BY <3>1, <4>6, <5>3 DEF Applied, EndedKind
      <4> QED
        BY <4>1, <4>4, <4>5, <4>6
    <3> QED
      BY <3>2, <3>3
  <2> QED
    BY <1>3, <2>4, <2>5, GoesOn
<1>4. CASE /\ t \in ServicesOf(c) /\ containers' = Made(proc[p], {t})
           /\ proc[p].stage = "monitoring" /\ proc[p].turn < 3
           /\ proc' = [proc EXCEPT ![p] = [proc[p] EXCEPT !.turn = @ + 1]]
  <2> PICK q : q = [proc[p] EXCEPT !.turn = @ + 1]
    OBVIOUS
  <2>1. proc[p].turn \in 1..3 /\ proc[p].turn + 1 \in 1..3
    BY <1>0, <1>4 DEF Process
  <2>2. /\ q \in Process /\ q.at = proc[p].at /\ q.stage = proc[p].stage /\ q.req = proc[p].req
        /\ q.cfg = proc[p].cfg /\ q.env = proc[p].env /\ q.turn = proc[p].turn + 1
    BY <1>0, <2>1 DEF Process
  <2>3. proc' = [proc EXCEPT ![p] = q] /\ proc'[p] = q
    BY <1>4 DEF Here, ProcTypes
  <2>4. Position(q)
    BY <2>2, HereIs DEF Position
  <2>5. t = Monitoring[proc[p].turn]
    BY <1>4 DEF Target
  <2>6. containers'[t] # None
    <3>1. t \in Services
      BY <1>1, <1>4, ServicesKnown
    <3>2. Made(proc[p], {t})[t] \in Image
      BY <1>0, <3>1, MadeIsImage
    <3>3. containers'[t] = Made(proc[p], {t})[t]
      BY <1>4
    <3>4. None \notin Image
      BY ConstantsAssumption
    <3> QED
      BY <3>2, <3>3, <3>4
  <2>7. ASSUME NEW i \in 1..3, i < q.turn PROVE containers'[Monitoring[i]] # None
    <3>1. CASE i = proc[p].turn
      BY <2>5, <2>6, <3>1
    <3>2. CASE i < proc[p].turn
      <4>1. containers[Monitoring[i]] # None
        BY <1>0, <1>4, <3>2 DEF Known
      <4>2. Monitoring[i] \in Services
        BY ConstantsAssumption
      <4>3. containers'[Monitoring[i]] # None
        <5>1. CASE Monitoring[i] = t
          BY <2>6, <5>1
        <5>2. CASE Monitoring[i] # t
          BY <1>4, <4>1, <4>2, <5>2 DEF Made
        <5> QED
          BY <5>1, <5>2
      <4> QED
        BY <4>3
    <3> QED
      BY <2>1, <2>2, <2>7, <3>1, <3>2
  <2>8. Known(proc[p])'
    BY <1>0, <1>1, <2>2, <2>3, <2>7 DEF Known
  <2>9. Reached(proc[p].stage, proc[p].req)'
    BY <1>4, <2>2, <2>3 DEF Reached, AIStages
  <2> QED
    BY <1>0, <2>2, <2>3, <2>4, <2>8, <2>9, InsideHere
<1> QED
  BY <1>0, <1>2, <1>3, <1>4 DEF Recreate, Advance

(* Removing the services of monitoring.                                  *)
LEMMA RemoveHere == ASSUME NEW p, Here(p), RemoveMonitoring(p) PROVE AppliedInv'
<1> PICK r, next : r = proc[p].req /\ next = Following(r, proc[p].stage)
  OBVIOUS
<1>0. /\ proc[p].stage = "remove" /\ InChain("remove", r) /\ ChainGoesOn("remove", next, r)
  BY HereIs DEF RemoveMonitoring, Placed, Simple, Stages, Composing, Updating
<1>1. CASE Hit(p, "remove")
  BY <1>1, HitHere
<1>2. CASE containers' = Removed({Monitoring[i] : i \in 1..3}) /\ Advance(p)
  <2>1. Reached(next, r)'
    BY <1>0 DEF Reached, ChainGoesOn, Preceded, AIStages, InChain
  <2>2. next = "end" /\ r.kind \in Judged => Applied'
    <3> SUFFICES ASSUME r.kind \in Judged PROVE Applied'
      OBVIOUS
    <3>1. r.kind = "disable-monitoring"
      BY <1>0 DEF InChain, AIStages, Judged, Starters
    <3>2. proc'[solo'].req.kind = "disable-monitoring"
      BY <1>2, <3>1, AdvancedIs, HereIs DEF Here, ProcTypes, Advance
    <3>3. \A i \in 1..3 : containers'[Monitoring[i]] = None
      <4>1. \A i \in 1..3 : Monitoring[i] \in Services
        BY ConstantsAssumption
      <4> QED
        BY <1>2, <4>1 DEF Removed
    <3> QED
      BY <3>2, <3>3 DEF Applied, EndedKind
  <2> QED
    BY <1>2, <2>1, <2>2, GoesOn
<1> QED
  BY <1>1, <1>2 DEF RemoveMonitoring

(* With no company a step is of the command itself.                        *)
LEMMA StepApplied ==
  ASSUME NEW p \in Procs, TypeOK, ProcTypes, AppliedInv, Step(p)
  PROVE  AppliedInv'
<1>1. Busy(p) /\ solo' = solo
  BY StepMoved, StepCounters DEF Moved
<1>2. CASE solo = None
  BY <1>1, <1>2 DEF AppliedInv, SoloInv, Applied, EndedKind
<1>3. CASE solo # None
  <2>1. p = solo
    BY <1>1, <1>3 DEF AppliedInv, SoloInv, Others
  <2>2. Here(p)
    BY <1>1, <2>1 DEF Here, AppliedInv
  <2> QED
    BY <2>2, UpdateHere, CheckHere, SecretsHere, OtherCommandsHere, EnsureHere, LoadHere,
       ResolveHere, DownHere, ClearHere, UpHere, UpFailsHere, RecreateHere, RemoveHere, Zenon
    DEF Step
<1> QED
  BY <1>2, <1>3

(* At first no process has run.                                          *)
LEMMA InitApplied == Init => AppliedInv
BY DEF Init, AppliedInv, SoloInv, Applied, EndedKind

(* Every step keeps what was known of the process that is alone.         *)
LEMMA NextApplied ==
  ASSUME TypeOK, ProcTypes, AppliedInv, [Next]_vars
  PROVE  AppliedInv'
<1>1. CASE UNCHANGED vars
  <2>1. UNCHANGED <<config, resEnv, secrets, containers, proc, solo>>
    BY <1>1 DEF vars, home, docker
  <2>2. SoloInv'
    BY <2>1 DEF AppliedInv, SoloInv, Position, Known, Reached, OthersRun, AIPossible, Busy, Others
  <2>3. Applied'
    BY <2>1 DEF AppliedInv, Applied, EndedKind, Ended
  <2> QED
    BY <2>2, <2>3 DEF AppliedInv
<1>2. ASSUME NEW p \in Procs, Step(p) PROVE AppliedInv'
  BY <1>2, StepApplied
<1>3. ASSUME NEW p \in Procs, Crash(p) PROVE AppliedInv'
  <2>1. /\ \A o \in Others(p) : proc'[o] = proc[o]
        /\ proc'[p].stage = "end" /\ proc'[p].at = "idle" /\ proc'[p].result = "crashed"
        /\ Busy(p) /\ solo' = solo
    BY <1>3 DEF Crash, ProcTypes, Process, Others
  <2>2. solo # None => p = solo
    BY <2>1 DEF AppliedInv, SoloInv, Others
  <2>3. SoloInv'
    BY <2>1, <2>2 DEF AppliedInv, SoloInv, Busy, Others, Position, Known, Running, Reached, AIStages
  <2>4. Applied'
    BY <2>1, <2>2 DEF Applied, EndedKind, Ended
  <2> QED
    BY <2>3, <2>4 DEF AppliedInv
<1>4. ASSUME NEW p \in Procs, NEW r \in Requests, Begin(p, r) PROVE AppliedInv'
  <2> PICK first : first = Following(r, "begin")
    OBVIOUS
  <2>1. /\ \A o \in Others(p) : proc'[o] = proc[o]
        /\ proc'[p].req = r /\ proc'[p].stage = first /\ proc'[p].at = Entry(first)
    BY <1>4 DEF Begin, ProcTypes, Others, Idle
  <2>2. /\ r \in Request /\ first \in Stages /\ InChain(first, r) /\ Preceded("begin", first, r)
    <3>1. r \in Request /\ Belongs("begin", r)
      BY ConstantsAssumption DEF Belongs
    <3> QED
      BY <3>1, ChainFollows, FollowingBelongs DEF ChainGoesOn
  <2>3. Entry(first) \notin {"resolve", "idle"} \cup Running
    BY <2>2, EntryIs DEF Stages, Composing, Updating
  <2>4. solo' = IF \E o \in Others(p) : Busy(o) THEN None ELSE p
    BY <1>4 DEF Begin
  <2>5. Position(proc'[p]) /\ Known(proc[p])'
    BY <2>1, <2>2, <2>3 DEF Position, Known, Running
  <2>6. Reached(proc[p].stage, proc[p].req)'
    BY <2>1, <2>2 DEF Reached, Preceded, AIStages, InChain
  <2>7. SoloInv'
    BY <2>1, <2>4, <2>5, <2>6 DEF SoloInv, Busy, Others
  <2>8. Applied'
    BY <2>1, <2>3, <2>4 DEF Applied, EndedKind, Ended
  <2> QED
    BY <2>7, <2>8 DEF AppliedInv
<1> QED
  BY <1>1, <1>2, <1>3, <1>4 DEF Next

(* A command that nothing else runs beside and that reports success has    *)
(* done what it says, whatever was there before it and whichever commands  *)
(* failed or died: services run as they are configured, or none does, AI   *)
(* secrets and monitoring are in or out (lab.go:146, startup.go:15).       *)
THEOREM CommandsDoWhatTheySay == Spec => []Applied
<1>1. Init => TypeOK /\ ProcTypes /\ AppliedInv
  BY InitTypes, InitApplied
<1>2. TypeOK /\ ProcTypes /\ AppliedInv /\ [Next]_vars => (TypeOK /\ ProcTypes /\ AppliedInv)'
  BY NextTypes, NextApplied
<1>3. AppliedInv => Applied
  BY DEF AppliedInv
<1> QED
  BY <1>1, <1>2, <1>3, PTL DEF Spec
===============================================================================
