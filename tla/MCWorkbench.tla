----------------------------- MODULE MCWorkbench -----------------------------
(***************************************************************************)
(* The commands of the developer's workbench on small instances.  They     *)
(* share no state: a behaviour is about one of them, its topic, and the    *)
(* others stay in one initial state.                                       *)
(***************************************************************************)
EXTENDS ClusterSearch, IncidentResolve, Diagnostics, UIDaemon, UpdateCheck,
        BpmnDiff, DriftPlan, Scan, ProcessGraph, ReviewRun, Fronts,
        ArtifactWriter, Restore, TLC

CONSTANT Topics

VARIABLE topic

workbenchVars == <<topic, searchVars, incidentVars, diagnosticsVars, uiVars, updateVars,
                   diffVars, driftVars, scanVars, graphVars, reviewVars, frontsVars, writerVars,
                   restoreVars>>

(* Archives, of which most are refused, and what stands where they go.     *)
WbProject == {"project/.camunda.yaml", "project/bpmn", "project/bpmn/a"}
WbAbove == [n \in LabFiles \cup WbProject |->
              IF n = "project/bpmn/a" THEN {"project/bpmn"} ELSE {}]
WbOrder == <<"ai.env", "ai.keys.json", "config.yaml", "manifest.json",
             "project/.camunda.yaml", "project/bpmn", "project/bpmn/a">>

Regular(n, c) == [name |-> n, type |-> "file", size |-> 1, content |-> c]
Directory(n) == [name |-> n, type |-> "dir", size |-> 0, content |-> "keys"]
Of(payload) ==
  [entries |-> <<Regular(Manifest, "keys")>> \o payload,
   listed |-> [i \in DOMAIN payload |-> payload[i].name],
   version |-> 1, sound |-> TRUE]

Whole(c) == Of(<<Regular("config.yaml", c), Directory("project/bpmn"),
                 Regular("project/bpmn/a", c)>>)
WithKeys == Of(<<Regular("project/bpmn/a", "archived"), Regular("ai.env", "archived")>>)
Invalid ==
  {[Whole("archived") EXCEPT !.sound = FALSE],
   [Whole("archived") EXCEPT !.version = 2],
   [Whole("archived") EXCEPT !.listed = Front(@)],
   Of(<<Regular("config.yaml", "archived"), Regular("config.yaml", "replaced")>>),
   Of(<<[Regular("config.yaml", "archived") EXCEPT !.type = "link"]>>),
   Of(<<[Regular("config.yaml", "archived") EXCEPT !.size = 4]>>),
   Of(<<Regular("../unsafe", "archived")>>),
   Of(<<Regular("other", "archived")>>)}
WbArchives == {Whole("archived"), WithKeys} \cup Invalid

Nothing == [n \in LabFiles \cup WbProject |-> Absent]
Old == [Nothing EXCEPT !["config.yaml"] = "old", !["ai.env"] = "old",
          !["project/.camunda.yaml"] = "old"]
WbHomes == {Nothing, Old,
            [Old EXCEPT !["project/bpmn"] = "dir", !["project/bpmn/a"] = "old"],
            [Old EXCEPT !["project/bpmn"] = "link"]}
-------------------------------------------------------------------------------
AnyComparison == CHOOSE c \in Comparisons : TRUE

WorkbenchInit ==
  /\ topic \in Topics
  /\ IF topic = "diff" THEN DiffInit
     ELSE /\ compared = [before |-> AnyComparison.before, after |-> AnyComparison.after,
                         done |-> FALSE]
          /\ changes = {}
  /\ SearchInit      /\ (topic # "search" => items = {} /\ server = "exact")
  /\ IncidentInit    /\ (topic # "incident" => incident = "ACTIVE")
  /\ DiagnosticsInit /\ (topic # "smoke" => up = {})
  /\ UIInit /\ UpdateInit
  /\ DriftInit       /\ (topic # "drift" => /\ tree = CHOOSE t \in Snapshots : TRUE
                                            /\ repository = CHOOSE r \in Repositories : TRUE
                                            /\ cluster = CHOOSE v \in Deployments : TRUE
                                            /\ unsupported = {})
                       /\ (repository.lines # <<>> => unsupported = {})
                       /\ (repository.lines # <<>> \/ unsupported # {} =>
                             \A r \in Resources : cluster[r] # <<>>)
  /\ ScanInit        /\ (topic # "scan" => nodes = CHOOSE t \in Trees : TRUE)
  /\ GraphInit
  /\ ReviewInit      /\ (topic # "review" => client)
  /\ FrontsInit      /\ (topic # "fronts" => asked.op = "doctor" /\ asked.facts.over = {})
  /\ WriterInit      /\ (topic # "generate" => dirs = {} /\ writer.force)
  /\ RestoreInit     /\ (archive = WithKeys <=> files \in {Nothing, Old})
                     /\ (topic # "restore" => archive = WithKeys /\ files = Nothing)

(* A step of the topic of this behaviour leaves the rest as it is.         *)
OnlyTopic(t) ==
  /\ UNCHANGED topic
  /\ IF t = "search" THEN TRUE ELSE UNCHANGED searchVars
  /\ IF t = "incident" THEN TRUE ELSE UNCHANGED incidentVars
  /\ IF t \in {"doctor", "smoke"} THEN TRUE ELSE UNCHANGED diagnosticsVars
  /\ IF t = "ui" THEN TRUE ELSE UNCHANGED uiVars
  /\ IF t = "update" THEN TRUE ELSE UNCHANGED updateVars
  /\ IF t = "diff" THEN TRUE ELSE UNCHANGED diffVars
  /\ IF t = "drift" THEN TRUE ELSE UNCHANGED driftVars
  /\ IF t = "scan" THEN TRUE ELSE UNCHANGED scanVars
  /\ IF t = "graph" THEN TRUE ELSE UNCHANGED graphVars
  /\ IF t = "review" THEN TRUE ELSE UNCHANGED reviewVars
  /\ IF t = "fronts" THEN TRUE ELSE UNCHANGED frontsVars
  /\ IF t = "generate" THEN TRUE ELSE UNCHANGED writerVars
  /\ IF t = "restore" THEN TRUE ELSE UNCHANGED restoreVars

WorkbenchNext ==
  \/ topic = "search" /\ SearchNext /\ OnlyTopic("search")
  \/ topic = "incident" /\ IncidentNext /\ OnlyTopic("incident")
  \/ topic = "doctor" /\ DoctorNext /\ OnlyTopic("doctor")
  \/ topic = "smoke" /\ SmokeNext /\ OnlyTopic("smoke")
  \/ topic = "ui" /\ UINext /\ OnlyTopic("ui")
  \/ topic = "update" /\ UpdateNext /\ OnlyTopic("update")
  \/ topic = "diff" /\ CompareDocuments /\ OnlyTopic("diff")
  \/ topic = "drift" /\ DriftNext /\ OnlyTopic("drift")
  \/ topic = "scan" /\ ScanNext /\ OnlyTopic("scan")
  \/ topic = "graph" /\ Inspect /\ OnlyTopic("graph")
  \/ topic = "review" /\ ReviewNext /\ OnlyTopic("review")
  \/ topic = "fronts" /\ FrontsNext /\ OnlyTopic("fronts")
  \/ topic = "generate" /\ WriterNext /\ OnlyTopic("generate")
  \/ topic = "restore" /\ RestoreNext /\ OnlyTopic("restore")

WorkbenchSpec == WorkbenchInit /\ [][WorkbenchNext]_workbenchVars

(* Each variable of the commands holds what its module says it does.       *)
WorkbenchTypes ==
  /\ topic \in Topics
  /\ topic = "search" => SearchTypes
  /\ topic = "incident" => IncidentTypes
  /\ topic \in {"doctor", "smoke"} => DiagnosticsTypes
  /\ topic = "ui" => UITypes
  /\ topic = "update" => UpdateTypes
  /\ topic = "drift" => DriftTypes
  /\ topic = "scan" => ScanTypes
  /\ topic = "review" => ReviewTypes
-------------------------------------------------------------------------------
(* The values of the constants.                                            *)
WbLimits == {[size |-> s, pages |-> p, items |-> i] :
               <<s, p, i>> \in {<<0, 0, 0>>, <<1, 2, 0>>, <<1, 0, 2>>, <<3, 0, 0>>, <<0, 0, 0 - 1>>}}
WbDefaultLimit == [size |-> 2, pages |-> 3, items |-> 3]

WbServices == <<"service.operate", "service.grpc">>
WbBudgets == {[check |-> c, overall |-> o] : <<c, o>> \in {<<0, 0>>, <<4, 3>>, <<1, 2>>}}
WbDefaultBudget == [check |-> 2, overall |-> 5]

WbKinds == 1 :> "process" @@ 2 :> "decision"
WbDeployments == {<<<<>>, <<>>>>, <<<<1, 2>>, <<1>>>>}
Repository(lines, effective, odd) ==
  [lines |-> lines, effective |-> effective, oversized |-> odd = "oversized",
   link |-> odd = "link", pointer |-> odd = "pointer"]
Line(m, f) == [matches |-> m, filter |-> f]
WbRepositories ==
  {Repository(<<>>, "unspecified", "none"), Repository(<<Line("yes", "unset")>>, "set", "none"),
   Repository(<<Line("yes", "unset"), Line("yes", "set"), Line("no", "unset")>>, "unspecified", "link")}
-------------------------------------------------------------------------------
(* Documents that differ: which element is the default, which message is   *)
(* meant, which process is called, what is attached or inside.             *)
None == [x \in {} |-> 0]
Element(type, parent, attached, default, message, called) ==
  [type |-> type, data |-> "", parent |-> parent, attached |-> attached, default |-> default,
   message |-> message, error |-> 0, called |-> called]
Flow(source, target) == [data |-> "", source |-> source, target |-> target]
OneProcess(es, fs, ms) ==
  [processes |-> 1 :> [name |-> "p", extensions |-> "", elements |-> es, flows |-> fs],
   messages |-> ms, errors |-> None]
OwnDefaults(d) ==
  LET p == d.processes[1]
  IN  \A i \in DOMAIN p.elements :
        p.elements[i].default # 0 => p.flows[p.elements[i].default].source = i
WbDefaults(ids) ==
  {d \in {OneProcess(es, fs, None) : es \in [ids -> {Element("A", 0, 0, d, 0, 0) : d \in 0..2}],
                                     fs \in [{1, 2} -> {Flow(s, t) : s, t \in ids}]} : OwnDefaults(d)}
WbMessages(names) ==
  {OneProcess(es, None, ms) : es \in [{1, 2} -> {Element("A", 0, 0, 0, m, 0) : m \in 0..2}],
                              ms \in [names -> {"x", "y"}]}
WbCalls(a, b) ==
  {[processes |-> a :> [name |-> "p", extensions |-> "", elements |-> 1 :> Element("A", 0, 0, 0, 0, c),
                        flows |-> None]
               @@ b :> [name |-> n, extensions |-> "", elements |-> 1 :> Element(t, 0, 0, 0, 0, 0),
                        flows |-> None],
    messages |-> None, errors |-> None] : c \in {0, b}, n \in {"p", "q"}, t \in {"A", "B"}}
WbNested(ids) ==
  {d \in {OneProcess(es, None, None) :
            es \in [ids -> {Element(t, p, a, 0, 0, 0) : t \in {"A", "B"}, p, a \in {0} \cup ids}]} :
     LET es == d.processes[1].elements
     IN  \A i \in ids : 0 \in {es[i].parent, es[i].attached} /\ es[i].parent # i
                         /\ es[i].attached # i /\ (es[i].parent # 0 => es[es[i].parent].parent = 0)}
Pairs(S, T) == {[before |-> b, after |-> a] : b \in S, a \in T}
WbComparisons ==
  Pairs(WbDefaults({1, 2}), WbDefaults({2, 3})) \cup Pairs(WbMessages({1, 2}), WbMessages({1, 2}))
    \cup Pairs(WbCalls(1, 2), WbCalls(2, 3)) \cup Pairs(WbNested({1, 2}), WbNested({2, 3}))
    \cup Pairs(WbNested({1}), WbNested({2, 3}))
-------------------------------------------------------------------------------
(* Trees of two files, two directories and room for two more.              *)
NoLines == <<>>
Entries(f) == [x \in Names |-> IF x \in DOMAIN f THEN f[x] ELSE 0]
Text(leading, trailing, directive, long) ==
  [before |-> leading, after |-> trailing, directive |-> directive, long |-> long]
Rule(name, anchored, dirOnly, negated) ==
  [name |-> name, anchored |-> anchored, dirOnly |-> dirOnly, negated |-> negated]
Node(kind, form, entries, lines, rules) ==
  [kind |-> kind, form |-> form, entries |-> Entries(entries), lines |-> lines, rules |-> rules]
Folder(entries, rules) == Node("dir", "text", entries, NoLines, rules)
Contents(lines) == Node("file", "text", None, lines, <<>>)
Other1(kind) == Node(kind, "text", None, NoLines, <<>>)
Secret == Contents(<<Text(3, 0, FALSE, FALSE)>>)
Waived == Contents(<<Text(3, 0, TRUE, FALSE), Text(0, 2, TRUE, FALSE)>>)
Harmless == Contents(<<Text(0, 0, FALSE, FALSE)>>)
Binary == Node("file", "binary", None, <<Text(0, 0, FALSE, FALSE)>>, <<>>)
TooLong == Contents(<<Text(3, 0, FALSE, FALSE), Text(0, 0, FALSE, TRUE)>>)
Tree(a, b, c, d) == <<a, b, c, d, Other1("free"), Other1("free")>>
WbTrees ==
  {Tree(Folder(1 :> 2 @@ 2 :> 3, <<>>), Secret, Folder(1 :> 4 @@ 2 :> 2, <<>>), Waived),
   Tree(Folder(1 :> 2 @@ 3 :> 3, <<Rule(1, FALSE, FALSE, FALSE)>>), Waived,
        Folder(1 :> 4, <<Rule(1, TRUE, FALSE, TRUE)>>), Secret),
   Tree(Folder(1 :> 2 @@ 4 :> 3, <<Rule(3, FALSE, TRUE, FALSE)>>), TooLong, Folder(1 :> 4, <<>>),
        Secret),
   Tree(Folder(2 :> 2 @@ 3 :> 3, <<Rule(3, FALSE, TRUE, FALSE), Rule(2, FALSE, FALSE, TRUE)>>),
        Waived, Folder(1 :> 4 @@ 2 :> 4, <<>>), Secret),
   Tree(Folder(1 :> 2 @@ 2 :> 3, <<>>), Other1("link"),
        Folder(1 :> 4, <<Rule(0, FALSE, FALSE, FALSE)>>), Binary),
   Tree(Folder(1 :> 2 @@ 2 :> 4 @@ 3 :> 3, <<>>), Other1("other"), Other1("other"), Secret)}
WbWrites == {Secret, Harmless, Other1("link"), Folder(None, <<Rule(1, FALSE, FALSE, FALSE)>>)}
WbScans ==
  {[roots |-> <<<<>>>>, failOn |-> 3, camunda |-> <<>>, user |-> <<>>],
   [roots |-> <<<<3>>, <<1>>>>, failOn |-> 2, camunda |-> <<>>, user |-> <<>>],
   [roots |-> <<<<>>>>, failOn |-> 1, camunda |-> <<Rule(2, FALSE, FALSE, FALSE)>>,
    user |-> <<Rule(2, TRUE, FALSE, TRUE)>>]}
-------------------------------------------------------------------------------
(* Processes with one gateway and loops, and with a subprocess.            *)
Task(type, parent, attached, default, timer) ==
  [type |-> type, parent |-> parent, attached |-> attached, default |-> default, timer |-> timer,
   retries |-> FALSE]
Edge(source, target, condition) ==
  [source |-> source, target |-> target, condition |-> condition]
Edges(all) == {[f \in S |-> all[f]] : S \in SUBSET DOMAIN all}
WbLoops ==
  {[elements |-> <<Task("startEvent", 0, 0, 0, FALSE), Task("exclusiveGateway", 0, 0, d, FALSE),
                   Task("intermediateCatchEvent", 0, 0, 0, TRUE), Task(t, 0, 0, 0, FALSE)>>,
    flows |-> fs] :
     d \in {0, 2}, t \in {"endEvent", "serviceTask"},
     fs \in Edges(<<Edge(1, 2, FALSE), Edge(2, 3, TRUE), Edge(2, 4, FALSE), Edge(3, 2, FALSE),
                    Edge(3, 4, FALSE), Edge(4, 3, TRUE), Edge(2, 2, TRUE), Edge(4, 1, FALSE)>>)}
WbSubprocesses ==
  {[elements |-> <<Task("startEvent", 0, 0, 0, FALSE), Task(t, 0, 0, 0, FALSE),
                   Task("endEvent", 0, 0, 0, FALSE), Task("boundaryEvent", 0, 2, 0, TRUE),
                   Task("startEvent", 2, 0, 0, FALSE), Task(e, 2, 0, 0, TRUE)>>,
    flows |-> fs] :
     t \in {"subProcess", "transaction"}, e \in {"endEvent", "intermediateCatchEvent"},
     fs \in Edges(<<Edge(1, 2, FALSE), Edge(2, 3, FALSE), Edge(5, 6, FALSE), Edge(4, 3, FALSE),
                    Edge(4, 2, FALSE), Edge(6, 5, FALSE)>>)}
WbProcesses == WbLoops \cup WbSubprocesses
WbPolicies == {[ignore |-> {}, failOn |-> "warning"],
               [ignore |-> {"timer-reachable"}, failOn |-> "error"]}
-------------------------------------------------------------------------------
Input(how, messages, processes) ==
  [how |-> how, document |-> [messages |-> messages, processes |-> processes]]
WbInputs ==
  {<<>>, <<Input("content", "none", <<"none", "warning">>), Input("relative", "error", <<"none">>)>>,
   <<Input("absolute", "none", <<"warning", "none">>)>>, <<Input("outside", "none", <<"error">>)>>,
   <<Input("empty", "none", <<"error">>)>>,
   <<Input("content", "none", <<"error">>), Input("content", "none", <<>>)>>}
WbReviews ==
  [operation : {"lint", "review"}, project : {"none", "open", "broken"}, inputs : WbInputs,
   failOn : {"error", "warning"}, enabled : BOOLEAN, required : BOOLEAN]
WbProjectInputs == <<Input("absolute", "none", <<"none">>)>>
WbDestinations == [Item -> {"original", "special", NoOutput}]
WbPromptSizes ==
  {[full |-> f, compacted |-> c] : <<f, c>> \in {<<1, 2>>, <<3, 2>>, <<4, 3>>}}
===============================================================================
