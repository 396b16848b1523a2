-------------------------------- MODULE Fronts --------------------------------
(***************************************************************************)
(* What the two fronts of the services tell of one result: the exit code   *)
(* of a command (src/internal/cli) and the answer of the route of the Lab  *)
(* UI for the same operation (src/internal/ui/api).                        *)
(*                                                                         *)
(* The facts of an operation are what its service found: which findings,   *)
(* differences or failed checks count; whether it saw all there is; and    *)
(* its error.  A front may also fail by itself: the command over its flags *)
(* and arguments, the project or the secrets it looks up, or its output,   *)
(* the route over the body of the request, a path or an upload.            *)
(***************************************************************************)
EXTENDS Integers

VARIABLES
  asked,      \* the operation and its facts
  terminal,   \* the command
  page        \* the request of the Lab UI

frontsVars == <<asked, terminal, page>>
-------------------------------------------------------------------------------
Toolkit == {"lint", "diff", "explain", "review", "generate", "scan"}
Developer == Toolkit \cup {"doctor", "deep doctor", "plan", "drift"}
Operations == Developer \cup {"incidents", "trace"}

(* The errors of a service, by what the fronts tell apart.                 *)
Errors(op) ==
  (IF op \in Toolkit THEN {"invalid_request", "input"}
   ELSE IF op = "doctor" THEN {} ELSE {"missing", "other"})
  \cup CASE op = "review" -> {"ai"}
         [] op = "generate" -> {"artifact"}
         [] op \in {"plan", "drift", "incidents", "trace"} -> {"upstream"}
         [] OTHER -> {}

Counted(op) ==
  CASE op \in {"explain", "generate", "incidents", "trace"} -> {}
    [] op = "doctor" -> {"shallow"}
    [] op = "deep doctor" -> {"shallow", "deep"}
    [] OTHER -> {"finding"}

MayBePartial == {"scan", "review", "plan", "drift", "incidents", "trace"}

Facts(op) ==
  [over : SUBSET Counted(op), whole : IF op \in MayBePartial THEN BOOLEAN ELSE {TRUE},
   error : {"none"}]
  \cup [over : {{}}, whole : {TRUE}, error : Errors(op)]

(* The status of a toolkit result: what fails it comes before what is      *)
(* missing.                                                                *)
Status ==
  IF asked.facts.over # {} THEN "failed" ELSE IF asked.facts.whole THEN "completed" ELSE "partial"

(* The policy of a plan or a drift, which an error leaves refused or       *)
(* unknown.                                                                *)
PolicyCode ==
  IF asked.facts.error # "none" \/ ~asked.facts.whole THEN 2
  ELSE IF asked.facts.over # {} THEN 1 ELSE 0

FrontsInit ==
  /\ \E op \in Operations : asked \in [op : {op}, facts : Facts(op)]
  /\ terminal = [pc |-> "idle", own |-> FALSE, exit |-> 0]
  /\ page = [pc |-> "idle", own |-> FALSE, code |-> 0, ok |-> FALSE]
-------------------------------------------------------------------------------
(* An error of a command: none, one with an exit code of its own (an       *)
(* ExitError), or a plain one.                                             *)
Nil == 0
Plain == 3
policyFailure == 1

(* A mutant: an error is classified again.                                 *)
exitErrorAlways(code, err) == IF err = Nil THEN Nil ELSE code

(* An error that has its exit code keeps it.                               *)
exitError(code, err) == IF err = Plain THEN code ELSE err

ExitCode(err) == IF err = Plain THEN 1 ELSE err

Exits(own, err) ==
  /\ terminal.pc = "idle"
  /\ terminal' = [pc |-> "ended", own |-> own, exit |-> ExitCode(err)]
  /\ UNCHANGED <<asked, page>>

(* A command fails by itself or with its service, or ends with a verdict.  *)
Command(op, verdict) ==
  /\ asked.op = op
  /\ \/ Exits(TRUE, Plain)
     \/ Exits(FALSE, IF asked.facts.error = "none" THEN verdict ELSE Plain)

(* Every error of a command of the developer is classified.                *)
developerCommand(op, verdict) ==
  /\ asked.op = op
  /\ \/ Exits(TRUE, exitError(2, Plain))
     \/ Exits(FALSE, exitError(2, IF asked.facts.error = "none" THEN verdict ELSE Plain))

Verdict == IF Status = "failed" THEN policyFailure ELSE Nil

LintCommand == developerCommand("lint", Verdict)
DiffCommand == developerCommand("diff", Verdict)
ReviewCommand == developerCommand("review", Verdict)
ExplainCommand == developerCommand("explain", Nil)
GenerateCommand == developerCommand("generate", Nil)

(* An incomplete scan is an error, unless it failed anyway.                *)
ScanCommand == developerCommand("scan", IF Status = "partial" THEN Plain ELSE Verdict)

(* The basic checks, and the deep ones where they were asked for.          *)
DoctorCommand ==
  \E op \in {"doctor", "deep doctor"} :
    developerCommand(op, IF asked.facts.over # {} THEN policyFailure ELSE Nil)

PlanCommand == developerCommand("plan", PolicyCode)

(* Drift reports what it has of a comparison that failed, and then fails.  *)
DriftCommand == developerCommand("drift", PolicyCode)

IncidentsCommand == Command("incidents", Nil)
TraceCommand == Command("trace", Nil)
-------------------------------------------------------------------------------
httpStatusFor(error) ==
  CASE error \in {"ai", "upstream"} -> 502
    [] error = "artifact" -> 409
    [] error = "invalid_request" -> 422
    [] error = "missing" -> 404
    [] OTHER -> 400

Replies(own, code, ok) ==
  /\ page.pc = "idle"
  /\ page' = [pc |-> "ended", own |-> own, code |-> code, ok |-> ok]
  /\ UNCHANGED <<asked, terminal>>

(* What the body, a path, an upload or a file of the lab is refused with.  *)
Refuses == \E code \in {400, 403, 413, 500} : Replies(TRUE, code, FALSE)

(* A route is refused, answers an error of its service, or a result.       *)
Route(op, ok) ==
  /\ asked.op = op
  /\ \/ Refuses
     \/ IF asked.facts.error = "none" THEN Replies(FALSE, 200, ok)
        ELSE Replies(FALSE, httpStatusFor(asked.facts.error), FALSE)

bpmnLint == Route("lint", Status # "failed")
bpmnDiff == Route("diff", asked.facts.over = {})
bpmnExplain == Route("explain", TRUE)
bpmnReview == Route("review", Status # "failed")
bpmnTestGenerate == Route("generate", TRUE)
bpmnScan == Route("scan", Status # "failed" /\ asked.facts.whole)
runDoctor == asked.op = "doctor" /\ Replies(FALSE, 200, asked.facts.over = {})
runDoctorDeep == Route("deep doctor", asked.facts.over = {})
runPlan == Route("plan", PolicyCode = 0)
listIncidents == Route("incidents", TRUE)
traceInstance == Route("trace", TRUE)

(* A drift that fails is an answer as well.                                *)
runDrift ==
  /\ asked.op = "drift"
  /\ Refuses \/ Replies(FALSE, 200, PolicyCode = 0)
-------------------------------------------------------------------------------
FrontsNext ==
  \/ LintCommand \/ DiffCommand \/ ReviewCommand \/ ExplainCommand \/ GenerateCommand
  \/ ScanCommand \/ DoctorCommand \/ PlanCommand \/ DriftCommand
  \/ IncidentsCommand \/ TraceCommand
  \/ bpmnLint \/ bpmnDiff \/ bpmnExplain \/ bpmnReview \/ bpmnTestGenerate \/ bpmnScan
  \/ runDoctor \/ runDoctorDeep \/ runPlan \/ runDrift \/ listIncidents \/ traceInstance

FrontsSpec == FrontsInit /\ [][FrontsNext]_frontsVars
-------------------------------------------------------------------------------
(* The operations that give a verdict of all there is.                     *)
WholeNeeded == {"scan", "plan", "drift"}

(* What may be told to have gone well, and what may not be told otherwise. *)
MayGoWell(own) ==
  /\ ~own /\ asked.facts.error = "none" /\ asked.facts.over = {}
  /\ asked.op \in WholeNeeded => asked.facts.whole
MustGoWell(own) ==
  ~own /\ asked.facts.error = "none" /\ asked.facts.over = {} /\ asked.facts.whole

(* Both fronts tell the same, and nothing false.  A command exits with 0,  *)
(* or a route answers ok, only when the front did its part, the service    *)
(* succeeded, nothing counts against it and a verdict was given of all     *)
(* there is; and whenever all of that is so and nothing at all is missing. *)
(* Asked both, the two agree, of a partial result too.  A 1 of a           *)
(* developer's command is a finding and never a failure, and a 2 is never  *)
(* a mere finding.                                                         *)
FrontsAgree ==
  LET facts == asked.facts
  IN  /\ terminal.pc = "ended" =>
           /\ terminal.exit = 0 => MayGoWell(terminal.own)
           /\ MustGoWell(terminal.own) => terminal.exit = 0
           /\ (terminal.exit = 1 /\ asked.op \in Developer) =>
                ~terminal.own /\ facts.error = "none" /\ facts.over # {}
           /\ terminal.exit = 2 => terminal.own \/ facts.error # "none" \/ ~facts.whole
      /\ page.pc = "ended" =>
           /\ page.ok => MayGoWell(page.own) /\ page.code = 200
           /\ MustGoWell(page.own) => page.ok
      /\ (terminal.pc = "ended" /\ page.pc = "ended" /\ ~terminal.own /\ ~page.own) =>
           (terminal.exit = 0 <=> page.ok)

(* Of plan, drift, incidents and trace, the Lab UI never calls incomplete  *)
(* results of the cluster a success (the claim of docs/api-reference.md).  *)
IncompleteNeverOk ==
  (page.pc = "ended" /\ page.ok /\ asked.op \in {"plan", "drift", "incidents", "trace"}) =>
    asked.facts.whole
=============================================================================
