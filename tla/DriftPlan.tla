------------------------------ MODULE DriftPlan ------------------------------
(***************************************************************************)
(* Plan and drift (src/internal/plan, src/internal/drift): a project is    *)
(* compared with what the cluster has, and, for drift, with a Git commit   *)
(* as well.  The three are read one after the other, and the first two of  *)
(* them piece by piece, while a user edits, moves, commits and deploys.    *)
(*                                                                         *)
(* A resource has a kind, and its canonical digest in a snapshot is a      *)
(* number, 0 when it is not there.  The client of the cluster reads        *)
(* processes; its inventory names the kinds it cannot compare.             *)
(***************************************************************************)
EXTENDS Integers, Sequences

CONSTANTS
  Resources,      \* the resources there may be
  KindOf,         \* [Resources -> kinds]
  MaxDigest,      \* bound on the contents a resource may have
  Capabilities,   \* the sets of kinds an inventory may name as unsupported
  Repositories,   \* what may be wrong with a repository, see below
  Deployments,    \* what may have been deployed before
  MaxSteps        \* bound on what the user does

(* A repository: its lines of .gitattributes from the root down, and what  *)
(* each does to the one asset looked at; whether they are too many or too  *)
(* long; what git check-attr says of the filter in the working tree; and   *)
(* whether a submodule, or a pointer of Git LFS, stands for an asset.      *)
Lines == [matches : {"yes", "no", "unclear"}, filter : {"set", "unset", "none"}]

ASSUME DriftAssumption ==
  /\ MaxDigest \in Nat \ {0} /\ MaxSteps \in Nat
  /\ DOMAIN KindOf = Resources
  /\ Capabilities \subseteq SUBSET {"process", "decision", "form"}
  /\ Deployments \subseteq [Resources -> Seq(1..MaxDigest)]
  /\ \A p \in Repositories :
       /\ \A i \in DOMAIN p.lines : p.lines[i] \in Lines
       /\ p.effective \in {"set", "unspecified"} /\ {p.oversized, p.link, p.pointer} \subseteq BOOLEAN

VARIABLES
  tree,         \* the working project
  commits,      \* the commits, the last is HEAD
  cluster,      \* the versions of each resource that were deployed
  repository, unsupported,
  comparison,   \* the command: plan or drift
  history,      \* the projects and clusters there were since it began, and
                \* the resources that were moved from one file to another
  steps

driftVars == <<tree, commits, cluster, repository, unsupported, comparison, history, steps>>

Snapshots == [Resources -> 0..MaxDigest]
-------------------------------------------------------------------------------
(* A mutant: the first version counts.                                     *)
indexFirst(versions) ==
  [r \in Resources |-> IF versions[r] = <<>> THEN 0 ELSE Head(versions[r])]

(* The latest version of each resource.                                    *)
indexDeployed(versions) ==
  [r \in Resources |-> IF versions[r] = <<>> THEN 0 ELSE versions[r][Len(versions[r])]]

sourceStatus(base, work) ==
  CASE base = work -> "IN_SYNC" [] base = 0 /\ work # 0 -> "LOCAL_ONLY" [] OTHER -> "DRIFT"

deploymentStatus(local, remote) ==
  CASE local = remote -> "IN_SYNC" [] remote = 0 /\ local # 0 -> "LOCAL_ONLY"
    [] local = 0 /\ remote # 0 -> "CLUSTER_ONLY" [] OTHER -> "DRIFT"

(* Build: what to do with each resource of a kind that can be compared.    *)
Action(local, remote) ==
  CASE remote = 0 -> "create" [] local = 0 /\ remote # 0 -> "remote-only"
    [] local # remote /\ 0 \notin {local, remote} -> "update" [] OTHER -> "no-change"

Compared(local, remote, unknownKinds) ==
  {r \in Resources : KindOf[r] \notin unknownKinds /\ (local[r] # 0 \/ remote[r] # 0)}

(* The policy of a plan.  A partial inventory, or one of another source    *)
(* than the environment, refuses it; a kind that cannot be compared leaves *)
(* it unknown.                                                             *)
Build(local, versions, unknownKinds, comparable) ==
  LET remote == indexDeployed(versions)
      actions == [r \in Compared(local, remote, unknownKinds) |-> Action(local[r], remote[r])]
      outcome(status, code) ==
        [status |-> status, code |-> code, actions |-> actions,
         unknown |-> {r \in Resources : KindOf[r] \in unknownKinds /\ local[r] # 0}]
  IN  CASE ~comparable -> [outcome("refused", 2) EXCEPT !.actions = [r \in {} |-> ""], !.unknown = {}]
        [] comparable /\ unknownKinds # {} -> outcome("unknown", 2)
        [] OTHER -> LET todo == \E r \in DOMAIN actions : actions[r] \in {"create", "update"}
                    IN  outcome("ready", IF todo THEN 1 ELSE 0)

(* A file of attributes counts line by line, a later one over an earlier.  *)
ActiveFilter(lines) ==
  \E i \in DOMAIN lines :
    /\ lines[i].matches = "yes" /\ lines[i].filter = "set"
    /\ \A j \in DOMAIN lines : (j > i /\ lines[j].matches = "yes") => lines[j].filter # "unset"

inspectFilterRisk(lines) ==
  \/ \E i \in DOMAIN lines : lines[i].matches = "unclear" /\ lines[i].filter # "none"
  \/ ActiveFilter(lines)
-------------------------------------------------------------------------------
DriftInit ==
  /\ tree \in Snapshots
  /\ commits = <<tree>>
  /\ cluster \in Deployments
  /\ repository \in Repositories /\ unsupported \in Capabilities
  /\ comparison = [pc |-> "idle", kind |-> "none", ref |-> 1, base |-> tree, work |-> tree,
                   remote |-> cluster, comparable |-> FALSE, dirty |-> FALSE, failed |-> FALSE,
                   status |-> "none", code |-> 2, actions |-> [r \in {} |-> ""],
                   unknown |-> {}, entries |-> [r \in {} |-> ""], left |-> {}]
  /\ history = [trees |-> {}, clusters |-> {}, moved |-> {}]
  /\ steps = 0

CAt(pc) == comparison.pc = pc
Rest == UNCHANGED <<tree, commits, cluster, repository, unsupported, history, steps>>
To(pc) == [comparison EXCEPT !.pc = pc]
Stop(status, failed) ==
  [comparison EXCEPT !.pc = "ended", !.status = status, !.code = 2, !.failed = failed]

(* A plan, or a drift from a commit.                                       *)
BeginComparison(kind, ref) ==
  /\ CAt("idle") /\ ref \in DOMAIN commits /\ (kind = "plan" => ref = 1)
  /\ comparison' = [comparison EXCEPT !.pc = "working", !.kind = kind, !.ref = ref,
                                       !.left = Resources]
  /\ history' = [trees |-> {tree}, clusters |-> {cluster}, moved |-> {}]
  /\ UNCHANGED <<tree, commits, cluster, repository, unsupported, steps>>

(* BuildLocal reads one file after the other, each resource as its file is *)
(* by then; one that was moved meanwhile may be missed, out of a file that *)
(* is yet to be read into one that was.  An asset that cannot be read, or  *)
(* an id that is there twice, fails it.                                    *)
ReadWorking ==
  /\ CAt("working") /\ Rest
  /\ \/ \E r \in comparison.left : \E d \in {tree[r]} \cup (IF r \in history.moved THEN {0} ELSE {}) :
          comparison' = [comparison EXCEPT !.work[r] = d, !.left = @ \ {r}]
     \/ comparison.left = {} /\ comparison' = [To("deployed") EXCEPT !.left = Resources]
     \/ comparison' = Stop("refused", TRUE)

(* BuildClusterInventory pages through the definitions and then reads the  *)
(* document of each, which never changes: what it has of a resource are    *)
(* the versions there were at some moment of it.  It may fail, be partial, *)
(* or come from another environment than the one that was resolved.        *)
ReadDeployed ==
  /\ CAt("deployed") /\ Rest
  /\ \/ \E r \in comparison.left :
          comparison' = [comparison EXCEPT !.remote[r] = cluster[r], !.left = @ \ {r}]
     \/ /\ comparison.left = {}
        /\ \E comparable \in BOOLEAN :
             comparison' = [To(IF comparison.kind = "plan" THEN "plan" ELSE "baseline")
                              EXCEPT !.comparable = comparable]
     \/ comparison' = Stop("unknown", TRUE)
     \/ /\ comparison.kind = "drift" /\ comparison.left = {}
        /\ comparison' = Stop("refused", TRUE)

BuildResolved ==
  /\ CAt("plan") /\ Rest
  /\ LET p == Build(comparison.work, comparison.remote, unsupported, comparison.comparable)
     IN  comparison' = [To("ended") EXCEPT !.status = p.status, !.code = p.code,
                                           !.actions = p.actions, !.unknown = p.unknown,
                                           !.failed = ~comparison.comparable]

(* The commit is resolved and its blobs are read by their hash.  What may  *)
(* make bytes differ that Git shows alike refuses the comparison.          *)
buildBaselineInventory ==
  /\ CAt("baseline") /\ Rest
  /\ \/ comparison' = Stop("unknown", TRUE)
     \/ comparison' =
          IF repository.link \/ repository.oversized \/ repository.pointer
               \/ inspectFilterRisk(repository.lines)
          THEN Stop("refused", TRUE)
          ELSE [To("filters") EXCEPT !.base = commits[comparison.ref]]

inspectEffectiveWorkingFilter ==
  /\ CAt("filters") /\ Rest
  /\ \/ comparison' = IF repository.effective = "set" THEN Stop("refused", TRUE) ELSE To("changes")
     \/ comparison' = Stop("refused", TRUE)

(* git status, against HEAD as it is by now.                               *)
workingChanges ==
  /\ CAt("changes") /\ Rest
  /\ \/ comparison' = [To("report") EXCEPT !.dirty = tree # commits[Len(commits)]]
     \/ comparison' = Stop("unknown", TRUE)

(* What drift reports of three snapshots; both plans have to be ready.     *)
buildThreeWayReport ==
  /\ CAt("report") /\ Rest
  /\ LET c == comparison
         remote == indexDeployed(c.remote)
         ready == /\ c.comparable
                  /\ \A local \in {c.base, c.work} :
                       Build(local, c.remote, unsupported, c.comparable).status # "unknown"
         keys == {r \in Resources : c.base[r] # 0 \/ c.work[r] # 0 \/ remote[r] # 0}
         entries == [r \in keys |-> <<sourceStatus(c.base[r], c.work[r]),
                                      deploymentStatus(c.base[r], remote[r]),
                                      deploymentStatus(c.work[r], remote[r])>>]
         HasDrift == \E r \in keys : \E i \in 1..3 : entries[r][i] # "IN_SYNC"
     IN  comparison' =
           IF ~ready THEN Stop("unknown", ~c.comparable)
           ELSE [To("ended") EXCEPT !.status = "ready", !.entries = entries,
                                    !.code = IF HasDrift THEN 1 ELSE 0]

(* The user edits a resource of the project, moves it to another file,     *)
(* commits the project, or deploys a resource of it; the cluster keeps a   *)
(* version that is not the same as the last.                               *)
UserDoes ==
  /\ steps < MaxSteps /\ ~CAt("ended") /\ steps' = steps + 1
  /\ \E moved \in SUBSET Resources :
       /\ \/ /\ \E r \in Resources, d \in 0..MaxDigest : tree' = [tree EXCEPT ![r] = d]
             /\ moved = {} /\ UNCHANGED <<commits, cluster>>
          \/ /\ ~CAt("idle") /\ \E r \in Resources : tree[r] # 0 /\ moved = {r}
             /\ UNCHANGED <<tree, commits, cluster>>
          \/ commits' = Append(commits, tree) /\ moved = {} /\ UNCHANGED <<tree, cluster>>
          \/ /\ \E r \in Resources :
                  /\ tree[r] \notin {0, indexDeployed(cluster)[r]}
                  /\ cluster' = [cluster EXCEPT ![r] = Append(@, tree[r])]
             /\ moved = {} /\ UNCHANGED <<tree, commits>>
       /\ history' = IF CAt("idle") THEN history
                     ELSE [trees |-> history.trees \cup {tree'},
                           clusters |-> history.clusters \cup {cluster'},
                           moved |-> history.moved \cup moved]
  /\ UNCHANGED <<repository, unsupported, comparison>>

DriftStep ==
  \/ ReadWorking \/ ReadDeployed \/ BuildResolved \/ buildBaselineInventory
  \/ inspectEffectiveWorkingFilter \/ workingChanges \/ buildThreeWayReport
DriftNext ==
  \/ \E kind \in {"plan", "drift"}, ref \in 1..(MaxSteps + 1) : BeginComparison(kind, ref)
  \/ DriftStep \/ UserDoes

DriftSpec == DriftInit /\ [][DriftNext]_driftVars /\ WF_driftVars(DriftStep)
-------------------------------------------------------------------------------
DriftTypes ==
  /\ {tree, comparison.base, comparison.work} \subseteq Snapshots
  /\ \A i \in DOMAIN commits : commits[i] \in Snapshots
  /\ comparison.code \in {0, 1, 2} /\ comparison.status \in {"none", "ready", "unknown", "refused"}
  /\ comparison.status = "ready" => comparison.comparable /\ unsupported = {}

(* Whether a resource of a project agrees with its versions in a cluster,  *)
(* for plan if the project has it, and for drift with the commit as well.  *)
Agrees(kind, base, project, versions, r) ==
  /\ (project[r] # 0 \/ kind = "drift") =>
       project[r] = IF versions[r] = <<>> THEN 0 ELSE versions[r][Len(versions[r])]
  /\ kind = "drift" => project[r] = base[r]

(* An exit code tells the truth, resource by resource.  With 0, each that  *)
(* was not moved to another file meanwhile agreed at some moment of the    *)
(* run with what the cluster had at some moment of it, and for drift with  *)
(* the commit; no filter of Git stands between its bytes and those of the  *)
(* project, and no kind was left out.  With 1 there is one that at some    *)
(* moments did not agree, or that was moved.  Nothing reads them together, *)
(* so that the moments of two resources may be different ones: only if     *)
(* nobody edits or deploys meanwhile are they the same (Build of           *)
(* internal/plan, buildThreeWayReport of internal/drift).                  *)
ExitTruthful ==
  LET c == comparison
      SomeMoments(r, agrees) == \E t \in history.trees, v \in history.clusters :
                                   Agrees(c.kind, commits[c.ref], t, v, r) = agrees
  IN  (CAt("ended") /\ ~c.failed) =>
        /\ c.code = 0 =>
             /\ unsupported = {}
             /\ \A r \in Resources \ history.moved : SomeMoments(r, TRUE)
             /\ c.kind = "drift" => ~ActiveFilter(repository.lines) /\ repository.effective # "set"
        /\ c.code = 1 => \E r \in Resources : r \in history.moved \/ SomeMoments(r, FALSE)
=============================================================================
