----------------------------- MODULE Diagnostics -----------------------------
(***************************************************************************)
(* What says whether the lab is well: RunDeep (src/internal/doctor), which *)
(* runs its checks one after the other, each within its own time and all   *)
(* within an overall time, and Wait (src/internal/smoke), which probes the *)
(* endpoints again and again until the required ones answer.               *)
(*                                                                         *)
(* A request honours its context; reading a file, or waiting for the lock  *)
(* of the environments, does not, and takes up to Stall.                   *)
(***************************************************************************)
EXTENDS Integers, Sequences

CONSTANTS
  Services,          \* the checks of the services, in the order of urls.List
  RequiredEndpoints, \* the endpoints smoke requires, and the others
  OtherEndpoints,
  Budgets,           \* the times a caller asks for: [check, overall]
  DefaultBudget,
  Stall,
  Timeouts,          \* the times wait is given
  Pause, ProbeTime,  \* between two probes, and what one endpoint may take
  MaxProbes          \* bound on how often the endpoints change

ASSUME DiagnosticsAssumption ==
  /\ Budgets \subseteq [check : Int, overall : Int]
  /\ DefaultBudget \in [check : Nat \ {0}, overall : Nat \ {0}]
  /\ Stall \in Nat /\ Timeouts \subseteq Nat /\ Pause \in Nat \ {0} /\ ProbeTime \in Nat

VARIABLES
  doctor,   \* the deep diagnosis
  smoke,    \* the command that waits
  up,       \* the endpoints that answer
  probes

diagnosticsVars == <<doctor, smoke, up, probes>>
-------------------------------------------------------------------------------
Files == <<"config.active", "filesystem.config", "filesystem.version">>
Docker == <<"compose.services", "docker.disk", "docker.volumes">>
Selected == <<"overlay.consistency", "environment.active", "remote.auth", "remote.reachability">>
Checks == Files \o Docker \o Selected \o Services
Optional == {"docker.disk", "docker.volumes", "overlay.consistency"}
(* A service is called so by its id, which no other check has.             *)
ASSUME ServicesAssumption ==
  /\ Services \in Seq(STRING)
  /\ \A i \in DOMAIN Services :
       Services[i] \notin {"config.active", "filesystem.config", "filesystem.version",
                          "compose.services", "environment.active", "remote.auth",
                          "remote.reachability"} \cup Optional

(* The budget: defaults, and a check has no more time than all of them.    *)
Budget(asked) ==
  LET b == [f \in {"check", "overall"} |-> IF asked[f] <= 0 THEN DefaultBudget[f] ELSE asked[f]]
  IN  [b EXCEPT !.check = IF b.check > b.overall THEN b.overall ELSE @]

(* When the context of a check that starts now is done.                    *)
Limit(start) ==
  LET own == start + doctor.budget.check
  IN  IF own < doctor.budget.overall THEN own ELSE doctor.budget.overall

(* Reading files, and the lock that reading the environment waits for.     *)
Stalls(c) == c \in {"filesystem.config", "filesystem.version", "overlay.consistency",
                    "environment.active"}
-------------------------------------------------------------------------------
DiagnosticsInit ==
  /\ doctor = [pc |-> "idle", next |-> 1, budget |-> DefaultBudget, time |-> 0, env |-> "unknown",
               auth |-> FALSE, labDown |-> FALSE, failed |-> FALSE, skipped |-> {}, ok |-> FALSE]
  /\ smoke = [pc |-> "idle", deadline |-> 0, time |-> 0, todo |-> {}, passed |-> {}, failed |-> {},
              last |-> "none"]
  /\ up \in SUBSET (RequiredEndpoints \cup OtherEndpoints)
  /\ probes = 0

(* RunDeep: what selects the checks has to be valid.                       *)
BeginDoctor(asked, valid) ==
  /\ doctor.pc = "idle"
  /\ doctor' = IF valid THEN [doctor EXCEPT !.pc = "checks", !.budget = Budget(asked)]
               ELSE [doctor EXCEPT !.pc = "fatal"]
  /\ UNCHANGED <<smoke, up, probes>>

(* A mutant: no services at all is no failure.                             *)
composeLenient(states) ==
  IF "exited" \in states THEN "fail" ELSE IF states # {"running"} THEN "warn" ELSE "pass"

(* What the states of the services of the lab come to.                     *)
composeStatus(states) ==
  IF states = {} \/ "exited" \in states THEN "fail"
  ELSE IF states # {"running"} THEN "warn" ELSE "pass"

Report(c, status) ==
  [doctor EXCEPT !.next = @ + 1,
                 !.skipped = IF status = "skipped" THEN @ \cup {c} ELSE @,
                 !.failed = @ \/ (status = "fail" /\ c \notin Optional)]
Reports(c, statuses) == {Report(c, s) : s \in statuses}

(* What a check that runs in time may find.  The later ones use what the   *)
(* earlier ones found: whether there are services, which environment is    *)
(* active and whether it authenticates.                                    *)
Findings(c) ==
  CASE c = "config.active" -> Reports(c, {"pass"})
    [] c = "compose.services" ->
         Reports(c, {"fail"}) \cup
         {[Report(c, composeStatus(states)) EXCEPT !.labDown = states = {}] :
            states \in SUBSET {"running", "exited", "degraded"}}
    [] c \in Optional -> Reports(c, {"pass", "warn", "fail"})
    [] c = "environment.active" ->
         Reports(c, {"fail"}) \cup {[doctor EXCEPT !.pc = "fatal"]} \cup
         {[Report(c, "pass") EXCEPT !.env = e] : e \in {"lab", "remote", "incomplete"}}
    [] c = "remote.auth" ->
         IF doctor.env = "lab" THEN Reports(c, {"skipped"})
         ELSE Reports(c, {"fail"}) \cup
              IF doctor.env = "remote" THEN {[Report(c, "pass") EXCEPT !.auth = TRUE]} ELSE {}
    [] c = "remote.reachability" ->
         IF doctor.env = "lab" THEN Reports(c, {"skipped"})
         ELSE Reports(c, IF doctor.auth THEN {"pass", "fail"} ELSE {"fail"})
    [] c \in {"filesystem.config", "filesystem.version"} -> Reports(c, {"pass", "fail"})
    [] OTHER -> Reports(c, IF doctor.labDown THEN {"skipped"} ELSE {"pass", "warn", "fail"})

(* A check that starts too late fails at once.  One whose time runs out    *)
(* has failed, or warns: when its request is given up, or when the call    *)
(* that does not honour the context returns.                               *)
Check ==
  /\ doctor.pc = "checks" /\ doctor.next <= Len(Checks)
  /\ LET c == Checks[doctor.next]
         start == doctor.time
         limit == Limit(start)
         at(d, t) == [d EXCEPT !.time = t]
         gone == Reports(c, {"fail"}) \cup IF c \in Optional THEN Reports(c, {"warn"}) ELSE {}
     IN  IF start >= limit
         THEN doctor' = Report(c, "fail")
         ELSE \/ \E d \in Findings(c), t \in start..(limit - 1) : doctor' = at(d, t)
              \/ /\ c # "config.active"
                 /\ \E d \in gone, t \in limit..(IF Stalls(c) THEN start + Stall ELSE limit) :
                      doctor' = at(d, t)
  /\ UNCHANGED <<smoke, up, probes>>

(* Aggregate: only a required check that failed counts.                    *)
Aggregate ==
  /\ doctor.pc = "checks" /\ doctor.next > Len(Checks)
  /\ doctor' = [doctor EXCEPT !.pc = "reported", !.ok = ~doctor.failed]
  /\ UNCHANGED <<smoke, up, probes>>
-------------------------------------------------------------------------------
All == RequiredEndpoints \cup OtherEndpoints

BeginWait(timeout) ==
  /\ smoke.pc = "idle"
  /\ smoke' = [smoke EXCEPT !.pc = "loop", !.deadline = timeout]
  /\ UNCHANGED <<doctor, up, probes>>

(* The head of the loop: the deadline, the context, the next probe.        *)
WaitLoop ==
  /\ smoke.pc = "loop"
  /\ \/ smoke.time < smoke.deadline
        /\ smoke' = [smoke EXCEPT !.pc = "probe", !.todo = All, !.passed = {}, !.failed = {}]
     \/ smoke' = [smoke EXCEPT !.pc = "ended", !.last = "error"]
  /\ UNCHANGED <<doctor, up, probes>>

(* One endpoint after the other; one that does not answer takes its time.  *)
ProbeEndpoint ==
  /\ smoke.pc = "probe" /\ smoke.todo # {}
  /\ LET e == CHOOSE x \in smoke.todo : TRUE
         asked == [smoke EXCEPT !.todo = @ \ {e}]
     IN  IF e \in up THEN smoke' = [asked EXCEPT !.passed = @ \cup {e}]
         ELSE \E t \in {0, ProbeTime} :
                smoke' = [asked EXCEPT !.failed = @ \cup {e}, !.time = @ + t]
  /\ UNCHANGED <<doctor, up, probes>>

(* Probe: every required endpoint answers or, where none is required, any. *)
ProbeOK(passed, failed) ==
  IF RequiredEndpoints = {} THEN passed # {} ELSE failed \cap RequiredEndpoints = {}

Probed ==
  /\ smoke.pc = "probe" /\ smoke.todo = {}
  /\ smoke' = IF ProbeOK(smoke.passed, smoke.failed)
              THEN [smoke EXCEPT !.pc = "ended", !.last = "ok"]
              ELSE [smoke EXCEPT !.pc = "loop", !.time = @ + Pause]
  /\ UNCHANGED <<doctor, up, probes>>

(* The lab starts and stops meanwhile.                                     *)
Turn(e) ==
  /\ smoke.pc \in {"loop", "probe"} /\ probes < MaxProbes /\ probes' = probes + 1
  /\ up' = IF e \in up THEN up \ {e} ELSE up \cup {e}
  /\ UNCHANGED <<doctor, smoke>>

DiagnosticsStep == Check \/ Aggregate \/ WaitLoop \/ ProbeEndpoint \/ Probed
DoctorNext ==
  (\E asked \in Budgets, valid \in BOOLEAN : BeginDoctor(asked, valid)) \/ Check \/ Aggregate
SmokeNext ==
  \/ \E t \in Timeouts : BeginWait(t)
  \/ WaitLoop \/ ProbeEndpoint \/ Probed
  \/ \E e \in All : Turn(e)
DiagnosticsNext == DoctorNext \/ SmokeNext

DiagnosticsSpec ==
  DiagnosticsInit /\ [][DiagnosticsNext]_diagnosticsVars /\ WF_diagnosticsVars(DiagnosticsStep)
-------------------------------------------------------------------------------
DiagnosticsTypes ==
  /\ doctor.next \in 1..(Len(Checks) + 1)
  /\ doctor.env \in {"unknown", "lab", "remote", "incomplete"}
  /\ doctor.skipped \subseteq {Checks[i] : i \in DOMAIN Checks}
  /\ smoke.passed \cup smoke.failed \cup smoke.todo \subseteq All
  /\ smoke.last \in {"none", "ok", "error"} /\ up \subseteq All

(* Well means well, in time.  A report without a required failure comes    *)
(* from checks that all ran: it skips no service, and nothing remote       *)
(* unless the active environment is the lab.  The diagnosis takes no       *)
(* longer than its overall time and what one call that cannot be           *)
(* interrupted adds to it, however many there are.  A wait that succeeds   *)
(* saw each required endpoint answer in its last probe.                    *)
WellMeansWell ==
  /\ doctor.ok => doctor.skipped \subseteq (IF doctor.env = "lab"
                                            THEN {"remote.auth", "remote.reachability"} ELSE {})
  /\ doctor.time <= doctor.budget.overall + Stall
  /\ smoke.last = "ok" => RequiredEndpoints \subseteq smoke.passed
=============================================================================
