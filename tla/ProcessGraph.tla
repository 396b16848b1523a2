---------------------------- MODULE ProcessGraph ----------------------------
(***************************************************************************)
(* What is derived from the sequence flows of a process: the graph of a    *)
(* scope (src/internal/bpmn/graph.go), the findings of the linter          *)
(* (src/internal/lint) and the paths and diagnostics of an explanation     *)
(* (src/internal/explain).                                                 *)
(*                                                                         *)
(* An id is a number, 0 none; elements sort by their ids.  A timer, a      *)
(* condition and a number of retries are there or not.                     *)
(***************************************************************************)
EXTENDS Integers, Sequences, SequencesExt, FiniteSets

CONSTANTS
  Processes,   \* the processes inspected: [elements, flows], by id
  Policies     \* what the caller asks of the linter: [ignore, failOn]

(* Ids are positive, and what an element is within is another element, in  *)
(* the end the process: elements are nested in their document.             *)
IsProcess(p) ==
  /\ IsFiniteSet(DOMAIN p.elements) /\ DOMAIN p.elements \subseteq Nat \ {0}
  /\ IsFiniteSet(DOMAIN p.flows) /\ DOMAIN p.flows \subseteq Nat \ {0}
  /\ \A i \in DOMAIN p.elements : p.elements[i].parent \in DOMAIN p.elements \cup {0}
  /\ \A S \in SUBSET DOMAIN p.elements : S # {} => \E i \in S : p.elements[i].parent \notin S

ASSUME GraphAssumption == \A p \in Processes : IsProcess(p)

VARIABLES inspected,   \* the process and the policy, <<>> before
          insight      \* what was reported about it

graphVars == <<inspected, insight>>

Containers == {"subProcess", "transaction", "adHocSubProcess"}
Activities == Containers \cup
  {"task", "serviceTask", "userTask", "manualTask", "businessRuleTask", "scriptTask", "sendTask",
   "receiveTask", "callActivity"}
-------------------------------------------------------------------------------
(* The graph of a scope: its elements, and the flows between two of them.  *)
Nodes(p, scope) == {i \in DOMAIN p.elements : p.elements[i].parent = scope}
Out(p, i) ==
  {f \in DOMAIN p.flows : p.flows[f].source = i /\ i \in DOMAIN p.elements
     /\ p.flows[f].target \in Nodes(p, p.elements[i].parent)}
Targets(p, i) == {p.flows[f].target : f \in Out(p, i)}
starts(p, scope) == {i \in Nodes(p, scope) : p.elements[i].type = "startEvent"}
Scopes(p) == {p.elements[i].parent : i \in DOMAIN p.elements}

ReachableFrom(p, scope, from) ==
  LET reach[S \in SUBSET Nodes(p, scope)] ==
        LET more == S \cup UNION {Targets(p, i) : i \in S}
        IN  IF more = S THEN S ELSE reach[more]
  IN  reach[from]

ConnectedNodes(p) ==
  {i \in DOMAIN p.elements : Out(p, i) # {}} \cup UNION {Targets(p, i) : i \in DOMAIN p.elements}

(* The default flow first, then one without a condition, then in order.    *)
Preferred(p, i, f, g) ==
  LET rank(h) == IF h = p.elements[i].default THEN 0
                 ELSE IF p.flows[h].condition THEN 2 ELSE 1
  IN  \/ rank(f) < rank(g)
      \/ rank(f) = rank(g) /\ \/ p.flows[f].target < p.flows[g].target
                              \/ p.flows[f].target = p.flows[g].target /\ f <= g
preferredOutgoing(p, i) == CHOOSE f \in Out(p, i) : \A g \in Out(p, i) : Preferred(p, i, f, g)

Smallest(S) == CHOOSE i \in S : \A j \in S : i <= j

(* From the first start along the preferred flows, to an element without   *)
(* one or whose preferred flow leads back.                                 *)
HappyPath(p, scope) ==
  LET onward[path \in Seq(Nodes(p, scope)) \ {<<>>}] ==
        LET next == p.flows[preferredOutgoing(p, Last(path))].target
        IN  IF Out(p, Last(path)) = {} \/ next \in ToSet(path) THEN path
            ELSE onward[Append(path, next)]
  IN  IF starts(p, scope) = {} THEN <<>> ELSE onward[<<Smallest(starts(p, scope))>>]

walkPaths(p, scope, from) ==
  LET walk[path \in Seq(Nodes(p, scope)) \ {<<>>}] ==
        IF Out(p, Last(path)) = {} THEN {path}
        ELSE UNION {walk[Append(path, i)] : i \in Targets(p, Last(path)) \ ToSet(path)}
  IN  walk[<<from>>]

AlternatePaths(p, scope) ==
  (UNION {walkPaths(p, scope, i) : i \in starts(p, scope)}) \ {HappyPath(p, scope)}

(* Where a process stops short of an end.  (A mutant: only where a flow    *)
(* leads to.)                                                              *)
DeadEndsOfFlows(p, scope) ==
  {i \in UNION {Targets(p, j) : j \in Nodes(p, scope)} :
     p.elements[i].type # "endEvent" /\ Out(p, i) = {}}
DeadEnds(p, scope) ==
  {i \in Nodes(p, scope) : p.elements[i].type # "endEvent" /\ Out(p, i) = {}}

(* A cycle is told from its smallest element on.  (A mutant: from where it *)
(* was entered.)                                                           *)
AsEntered(cycle) == cycle
canonicalCycle(cycle) ==
  LET at == CHOOSE k \in DOMAIN cycle : cycle[k] = Smallest(ToSet(cycle))
  IN  [k \in DOMAIN cycle |-> cycle[((at + k - 2) % Len(cycle)) + 1]]

Cycles(p, scope) ==
  LET visit[path \in Seq(Nodes(p, scope)) \ {<<>>}] ==
        UNION {IF i \in ToSet(path)
               THEN {canonicalCycle(SubSeq(path, CHOOSE k \in DOMAIN path : path[k] = i, Len(path)))}
               ELSE visit[Append(path, i)] : i \in Targets(p, Last(path))}
  IN  UNION {visit[<<i>>] : i \in Nodes(p, scope)}
-------------------------------------------------------------------------------
(* The rules of the linter: what they find in which element or flow.       *)
processStartEvent(p) == IF starts(p, 0) = {} THEN {<<"process-start-event", "error", 0>>} ELSE {}

validBoundaryAttachment(p, i) ==
  LET e == p.elements[i]
  IN  e.type = "boundaryEvent" /\ e.attached \in Nodes(p, e.parent)
        /\ p.elements[e.attached].type \in Activities
disconnectedElement(p) ==
  {<<"disconnected-element", "error", i>> :
     i \in {j \in DOMAIN p.elements : j \notin ConnectedNodes(p) /\ ~validBoundaryAttachment(p, j)}}

Gateways(p) == {i \in DOMAIN p.elements : p.elements[i].type = "exclusiveGateway"}
exclusiveGatewayDefault(p) ==
  {<<"exclusive-gateway-default", "warning", i>> : i \in {j \in Gateways(p) : p.elements[j].default = 0}}
exclusiveGatewayCondition(p) ==
  {<<"exclusive-gateway-condition", "error", f>> :
     f \in {g \in DOMAIN p.flows :
              p.flows[g].source \in Gateways(p) /\ g # p.elements[p.flows[g].source].default
                /\ ~p.flows[g].condition}}
serviceTaskRetry(p) ==
  {<<"service-task-retry", "warning", i>> :
     i \in {j \in DOMAIN p.elements : p.elements[j].type = "serviceTask" /\ ~p.elements[j].retries}}

(* What the starts of its scope reach by flows, in a scope that is entered *)
(* itself.  (A mutant: whatever the scope.)                                *)
LocalStarts(p, scope) == ReachableFrom(p, scope, starts(p, scope))
AnyScope(p, scope) == TRUE
scopeReachable(p, scope) ==
  LET active[s \in Scopes(p) \cup {0}] ==
        \/ s = 0
        \/ /\ s \in DOMAIN p.elements /\ p.elements[s].type \in Containers
           /\ active[p.elements[s].parent]
           /\ s \in LocalStarts(p, p.elements[s].parent)
  IN  active[scope]
LocallyReachable(p, i) ==
  LET e == p.elements[i]
  IN  \/ i \in LocalStarts(p, e.parent)
      \/ e.type = "boundaryEvent" /\ e.attached \in LocalStarts(p, e.parent)
timerReachable(p) ==
  {<<"timer-reachable", "warning", i>> :
     i \in {j \in DOMAIN p.elements :
              /\ p.elements[j].timer
              /\ ~(LocallyReachable(p, j) /\ scopeReachable(p, p.elements[j].parent))}}

RunLint(p, ignore) ==
  {f \in processStartEvent(p) \cup disconnectedElement(p) \cup exclusiveGatewayDefault(p)
           \cup exclusiveGatewayCondition(p) \cup serviceTaskRetry(p) \cup timerReachable(p) :
     f[1] \notin ignore}
ShouldFail(findings, failOn) ==
  \E f \in findings : f[2] = "error" \/ (f[2] = "warning" /\ failOn = "warning")
-------------------------------------------------------------------------------
(* An explanation is about the process and each of its subprocesses.       *)
summarizeScopes(p) == {0} \cup {i \in DOMAIN p.elements : p.elements[i].type = "subProcess"}
writeGraphDiagnostics(p) ==
  UNION {(IF starts(p, s) = {} THEN {<<"no start", s>>} ELSE {})
           \cup {<<"cycle", c>> : c \in Cycles(p, s)}
           \cup {<<"dead end", i>> : i \in DeadEnds(p, s)} : s \in summarizeScopes(p)}

GraphInit == inspected = <<>> /\ insight = <<>>

Inspect ==
  \E p \in Processes, policy \in Policies :
    /\ inspected = <<>>
    /\ inspected' = <<p, policy>>
    /\ insight' = [findings |-> RunLint(p, policy.ignore),
                failed |-> ShouldFail(RunLint(p, policy.ignore), policy.failOn),
                happy |-> [s \in summarizeScopes(p) |-> HappyPath(p, s)],
                alternates |-> [s \in summarizeScopes(p) |-> AlternatePaths(p, s)],
                cycles |-> [s \in summarizeScopes(p) |-> Cycles(p, s)],
                missing |-> writeGraphDiagnostics(p)]

GraphSpec == GraphInit /\ [][Inspect]_graphVars
-------------------------------------------------------------------------------
(* The paths through a scope, defined without following them.              *)
SimplePaths(S) ==
  UNION {{q \in [1..n -> S] : \A i, j \in 1..n : q[i] = q[j] => i = j} : n \in 1..Cardinality(S)}
Chained(p, q) == \A k \in 1..(Len(q) - 1) : q[k + 1] \in Targets(p, q[k])

(* What a token reaches: an element in every set that has the starts of    *)
(* the process and, with an element, the targets of its flows, the starts  *)
(* within it and the boundary events attached to it.                       *)
TokenReaches(p, i) ==
  \A S \in SUBSET DOMAIN p.elements :
    (/\ starts(p, 0) \subseteq S
     /\ \A j \in S : /\ Targets(p, j) \subseteq S
                     /\ p.elements[j].type \in Containers => starts(p, j) \subseteq S
                     /\ {b \in DOMAIN p.elements : p.elements[b].attached = j} \subseteq S) => i \in S

(* Every path from a start to an element without an outgoing flow that     *)
(* passes no element twice is the happy path or an alternate path, and     *)
(* every cycle that passes no element twice is told exactly once: what     *)
(* HappyPath, AlternatePaths and Cycles find by following flows            *)
(* (graph.go:96-181), on which an explanation and a review rest.           *)
PathsToldOnce ==
  inspected # <<>> =>
    LET p == inspected[1]
    IN  \A s \in summarizeScopes(p) :
          LET simple == {q \in SimplePaths(Nodes(p, s)) : Chained(p, q)}
              whole == {q \in simple : Head(q) \in starts(p, s) /\ Out(p, Last(q)) = {}}
              round == {q \in simple : Head(q) \in Targets(p, Last(q))}
          IN  /\ insight.alternates[s] = whole \ {insight.happy[s]}
              /\ insight.happy[s] \in simple \cup {<<>>}
              /\ \A q \in round :
                   Cardinality({c \in insight.cycles[s] : Len(c) = Len(q) /\ \E n \in 1..Len(q) :
                                  \A k \in DOMAIN q : c[((k + n) % Len(q)) + 1] = q[k]}) = 1
              /\ insight.cycles[s] \subseteq round

(* A timer the linter is silent about is one a token may reach: the walk   *)
(* of a scope and the walk from scope to scope agree with what a process   *)
(* does (rules_timer.go).  The converse does not hold: the walk is "basic" *)
(* and does not leave an activity by its boundary events.                  *)
SilentTimersReached ==
  inspected # <<>> =>
    LET p == inspected[1]
    IN  \A i \in DOMAIN p.elements :
          p.elements[i].timer /\ "timer-reachable" \notin inspected[2].ignore
            /\ <<"timer-reachable", "warning", i>> \notin insight.findings
              => TokenReaches(p, i)

(* The elements from which every way on ends: those that are in each set   *)
(* that has an element whenever it has the targets of its flows, which it  *)
(* lacks only if it is an end event, and, if it is a subprocess, its       *)
(* starts, of which there is one.  What is inside of a transaction or an   *)
(* ad-hoc subprocess is taken to end, and nobody to leave an activity by a *)
(* boundary event.                                                         *)
Finishing(p) ==
  LET closed == {S \in SUBSET DOMAIN p.elements :
                   \A j \in DOMAIN p.elements :
                     (/\ Targets(p, j) \subseteq S
                      /\ Targets(p, j) = {} => p.elements[j].type = "endEvent"
                      /\ p.elements[j].type = "subProcess" =>
                           starts(p, j) # {} /\ starts(p, j) \subseteq S) => j \in S}
  IN  {i \in DOMAIN p.elements : \A S \in closed : i \in S}

(* An explanation has nothing to tell of a process exactly if it and each  *)
(* subprocess has a start and every way on from each of their elements,    *)
(* through the subprocesses on it, comes to an end event                   *)
(* (explain.go:150-174).  The limits of this are those of Finishing: a     *)
(* transaction and an ad-hoc subprocess are not looked into                *)
(* (internal/explain/graph.go:22), although they hold elements             *)
(* (internal/bpmn/parse.go:199) and the linter walks through them          *)
(* (rules_timer.go:69), so that one that never ends is not told of; nor is *)
(* a way round through a boundary event.                                   *)
QuietFinishes ==
  inspected # <<>> =>
    LET p == inspected[1]
        finishing == Finishing(p)
    IN  insight.missing = {} <=>
          \A s \in summarizeScopes(p) : starts(p, s) # {} /\ Nodes(p, s) \subseteq finishing
=============================================================================
