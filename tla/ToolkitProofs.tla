---------------------------- MODULE ToolkitProofs ----------------------------
(***************************************************************************)
(* Theorems about operations of the toolkit: the resolution of an          *)
(* incident, the review, plan and drift, and the verdict the command line  *)
(* and the API give of an operation, each for any requests and any         *)
(* process, incident, project or document they are about.                  *)
(***************************************************************************)
EXTENDS IncidentResolve, Fronts, ReviewRun, DriftPlan, SequenceTheorems, TLAPS

-------------------------------------------------------------------------------
(* IncidentResolve.  The argument is about one command at a time: what it  *)
(* has recorded so far, where it is, and whether the cluster accepted its  *)
(* resolution.  What others do to the incident disturbs none of that.      *)

Kinds == {"none", "error", "already-resolved", "dry-run", "resolved", "resolved-unverified",
          "complete", "partial"}

CommandState == [pc : {"idle", "resolve", "ask", "refresh", "show", "enrich", "ended"},
                 dryRun : BOOLEAN, state : States \cup {""}, read : SUBSET Keyed,
                 warned : SUBSET Keyed, kind : Kinds, mutated : BOOLEAN]

(* What a command has recorded agrees with what the cluster accepted of    *)
(* it, wherever it is.                                                     *)
HonestSoFar(r, done) ==
  /\ r.pc \in {"idle", "resolve", "ask", "show", "enrich"} => r.kind = "none" /\ ~r.mutated /\ ~done
  /\ r.pc = "refresh" => r.kind = "resolved" /\ r.mutated /\ done
  /\ r.pc = "ended" =>
       /\ r.mutated => done
       /\ done => r.mutated \/ r.kind = "error"
       /\ r.mutated /\ r.state = "ACTIVE" => r.kind = "resolved-unverified"
       /\ r.kind = "resolved" => r.state \notin {"", Gone}
       /\ r.kind \in {"dry-run", "already-resolved"} => ~done
       /\ r.kind = "complete" => r.read = Keyed

IncidentInv ==
  /\ incident \in States /\ surround \subseteq Keyed /\ failures \in 0..MaxFailures
  /\ command \in [Commands -> CommandState] /\ accepted \in [Commands -> BOOLEAN]
  /\ \A c \in Commands : HonestSoFar(command[c], accepted[c])

(* The invariant holds before a command begins.                            *)
LEMMA IncidentInitInv == IncidentInit => IncidentInv
<1> SUFFICES ASSUME IncidentInit PROVE IncidentInv
  OBVIOUS
<1> DEFINE r == [pc |-> "idle", dryRun |-> FALSE, state |-> "", read |-> {}, warned |-> {},
                 kind |-> "none", mutated |-> FALSE]
<1>1. r \in CommandState /\ HonestSoFar(r, FALSE)
  BY DEF CommandState, Kinds, HonestSoFar
<1>2. command = [c \in Commands |-> r] /\ accepted = [c \in Commands |-> FALSE]
  BY DEF IncidentInit
<1> HIDE DEF r
<1>3. \A c \in Commands : HonestSoFar(command[c], accepted[c])
  BY <1>1, <1>2
<1>4. command \in [Commands -> CommandState] /\ accepted \in [Commands -> BOOLEAN]
  BY <1>1, <1>2
<1>5. incident \in States /\ surround \subseteq Keyed /\ failures \in 0..MaxFailures
  <2>1. incident \in States /\ surround = Keyed /\ failures = 0
    BY DEF IncidentInit
  <2>2. 0 \in 0..MaxFailures
    BY IncidentAssumption
  <2> QED
    BY <2>1, <2>2
<1> QED
  BY <1>3, <1>4, <1>5 DEF IncidentInv

(* The end of a command changes what it says and nothing it did.           *)
LEMMA EndsTyped ==
  ASSUME NEW r \in CommandState, NEW kind \in Kinds
  PROVE  /\ Ends(r, kind) \in CommandState
         /\ Ends(r, kind).pc = "ended" /\ Ends(r, kind).kind = kind
         /\ Ends(r, kind).state = r.state /\ Ends(r, kind).read = r.read
         /\ Ends(r, kind).mutated = r.mutated
BY DEF Ends, CommandState

(* What a command sees is the state of the incident and no more.           *)
Seeing(r, state) == [r EXCEPT !.state = state]
LEMMA SeeingTyped ==
  ASSUME NEW r \in CommandState, NEW state \in States \cup {""}
  PROVE  /\ Seeing(r, state) \in CommandState
         /\ Seeing(r, state).state = state /\ Seeing(r, state).mutated = r.mutated
BY DEF Seeing, CommandState

(* A step of one command is judged by what it records alone.               *)
LEMMA SetStaysHonest ==
  ASSUME IncidentInv, NEW c \in Commands, NEW r \in CommandState, NEW done \in BOOLEAN,
         HonestSoFar(r, done), Set(c, r), accepted' = [accepted EXCEPT ![c] = done],
         incident' \in States, UNCHANGED surround, failures' \in 0..MaxFailures
  PROVE  IncidentInv'
<1>1. command' = [command EXCEPT ![c] = r]
  BY DEF Set
<1>2. command' \in [Commands -> CommandState] /\ accepted' \in [Commands -> BOOLEAN]
  BY <1>1 DEF IncidentInv
<1>3. ASSUME NEW d \in Commands PROVE HonestSoFar(command[d], accepted[d])'
  <2>1. CASE d = c
    <3>1. command'[d] = r /\ accepted'[d] = done
      BY <1>1, <2>1 DEF IncidentInv
    <3> QED
      BY <3>1, <2>1 DEF HonestSoFar
  <2>2. CASE d # c
    <3>1. command'[d] = command[d] /\ accepted'[d] = accepted[d]
      BY <1>1, <2>2 DEF IncidentInv
    <3> QED
      BY <3>1 DEF HonestSoFar, IncidentInv
  <2> QED
    BY <2>1, <2>2
<1> QED
  BY <1>2, <1>3 DEF IncidentInv, States

(* A step that leaves the world as it is, likewise.                        *)
LEMMA WorldStaysHonest ==
  ASSUME IncidentInv, NEW c \in Commands, NEW r \in CommandState,
         HonestSoFar(r, accepted[c]), Set(c, r), World, Fail \/ UNCHANGED failures
  PROVE  IncidentInv'
<1>1. accepted' = [accepted EXCEPT ![c] = accepted[c]] /\ accepted[c] \in BOOLEAN
  BY DEF World, IncidentInv
<1>2. incident' \in States /\ UNCHANGED surround
  BY DEF World, IncidentInv, States
<1>3. failures' \in 0..MaxFailures
  BY IncidentAssumption DEF Fail, IncidentInv
<1> QED
  BY <1>1, <1>2, <1>3, SetStaysHonest

(* Every step keeps every command honest.                                  *)
LEMMA IncidentStepInv == IncidentInv /\ [IncidentNext]_incidentVars => IncidentInv'
<1> SUFFICES ASSUME IncidentInv, [IncidentNext]_incidentVars PROVE IncidentInv'
  OBVIOUS
<1>a. \A c \in Commands : command[c] \in CommandState /\ HonestSoFar(command[c], accepted[c])
  BY DEF IncidentInv
<1>1. CASE UNCHANGED incidentVars
  BY <1>1 DEF incidentVars, IncidentInv, CommandState, HonestSoFar, States
<1>2. ASSUME NEW c \in Commands, NEW op \in {"resolve", "show"}, NEW dryRun \in BOOLEAN,
             Begin(c, op, dryRun)
      PROVE  IncidentInv'
  <2> DEFINE r == [command[c] EXCEPT !.pc = op, !.dryRun = dryRun]
  <2>1. r \in CommandState /\ HonestSoFar(r, accepted[c])
    BY <1>a, <1>2 DEF Begin, IAt, CommandState, HonestSoFar
  <2>2. Set(c, r) /\ World /\ UNCHANGED failures
    BY <1>2 DEF Begin, World
  <2> QED
    BY <2>1, <2>2, WorldStaysHonest
<1>3. ASSUME NEW c \in Commands, Revalidate(c) PROVE IncidentInv'
  <2>1. command[c].pc = "resolve" /\ World
    BY <1>3 DEF Revalidate, IAt
  <2>2. PICK r : /\ Set(c, r) /\ (Fail \/ UNCHANGED failures)
                 /\ \/ r = Ends(command[c], "error")
                    \/ \E k \in {"error", "already-resolved", "dry-run"} :
                         r = Ends(Seeing(command[c], incident), k)
                    \/ r = [Seeing(command[c], incident) EXCEPT !.pc = "ask"]
    BY <1>3, Zenon DEF Revalidate, Seeing
  <2> DEFINE seen == Seeing(command[c], incident)
  <2>3. seen \in CommandState /\ seen.mutated = command[c].mutated
    BY <1>a, SeeingTyped DEF IncidentInv
  <2>4. r \in CommandState /\ HonestSoFar(r, accepted[c])
    <3>1. CASE r = Ends(command[c], "error")
      <4>1. "error" \in Kinds /\ command[c] \in CommandState
        BY <1>a DEF Kinds
      <4>2. r \in CommandState /\ r.pc = "ended" /\ r.kind = "error" /\ r.mutated = command[c].mutated
        BY <3>1, <4>1, EndsTyped
      <4> QED
        BY <1>a, <2>1, <4>2 DEF HonestSoFar
    <3>2. ASSUME NEW k \in {"error", "already-resolved", "dry-run"}, r = Ends(seen, k)
          PROVE  r \in CommandState /\ HonestSoFar(r, accepted[c])
      <4> HIDE DEF seen
      <4>1. k \in Kinds
        BY DEF Kinds
      <4>2. r \in CommandState /\ r.pc = "ended" /\ r.kind = k /\ r.mutated = seen.mutated
        BY <2>3, <3>2, <4>1, EndsTyped
      <4> QED
        BY <1>a, <2>1, <2>3, <3>2, <4>2 DEF HonestSoFar
    <3>3. CASE r = [seen EXCEPT !.pc = "ask"]
      <4>1. seen.kind = command[c].kind
        BY <1>a DEF Seeing, CommandState
      <4> HIDE DEF seen
      <4> QED
        BY <1>a, <2>1, <2>3, <3>3, <4>1 DEF CommandState, HonestSoFar
    <3> QED
      BY <2>2, <3>1, <3>2, <3>3
  <2> QED
    BY <2>1, <2>2, <2>4, WorldStaysHonest
<1>4. ASSUME NEW c \in Commands, ResolveIncident(c) PROVE IncidentInv'
  <2>1. command[c].pc = "ask" /\ UNCHANGED surround /\ failures' \in 0..MaxFailures
    BY <1>4, IncidentAssumption DEF ResolveIncident, IAt, Fail, IncidentInv
  <2>2. CASE incident = "ACTIVE" /\ incident' = "RESOLVED" /\ accepted' = [accepted EXCEPT ![c] = TRUE]
    <3>1. PICK r \in {[command[c] EXCEPT !.pc = "refresh", !.kind = "resolved", !.mutated = TRUE],
                      Ends(command[c], "error")} : Set(c, r)
      BY <1>4, <2>2 DEF ResolveIncident
    <3>2. r \in CommandState /\ HonestSoFar(r, TRUE)
      BY <1>a, <2>1, <3>1 DEF Ends, CommandState, HonestSoFar, Kinds
    <3> QED
      BY <2>1, <2>2, <3>1, <3>2, SetStaysHonest DEF States
  <2>3. CASE Set(c, Ends(command[c], "error")) /\ UNCHANGED <<incident, accepted>>
    <3>1. Ends(command[c], "error") \in CommandState /\ HonestSoFar(Ends(command[c], "error"), accepted[c])
      BY <1>a, <2>1 DEF Ends, CommandState, HonestSoFar, Kinds
    <3>2. accepted' = [accepted EXCEPT ![c] = accepted[c]] /\ accepted[c] \in BOOLEAN
          /\ incident' \in States
      BY <2>3 DEF IncidentInv, States
    <3> QED
      BY <2>1, <2>3, <3>1, <3>2, SetStaysHonest
  <2> QED
    BY <1>4, <2>2, <2>3 DEF ResolveIncident
<1>5. ASSUME NEW c \in Commands, Refresh(c) PROVE IncidentInv'
  <2>1. command[c].pc = "refresh" /\ World
    BY <1>5 DEF Refresh, IAt
  <2>2. PICK r : /\ Set(c, r) /\ (Fail \/ UNCHANGED failures)
                 /\ \/ r = Ends(Seeing(command[c], ""), "resolved-unverified")
                    \/ r = Ends(Seeing(command[c], incident), "resolved-unverified")
                    \/ incident \notin {"ACTIVE", Gone} /\
                       r = Ends(Seeing(command[c], incident), command[c].kind)
    BY <1>5, Zenon DEF Refresh, Seeing
  <2>3. r \in CommandState /\ HonestSoFar(r, accepted[c])
    <3>1. ASSUME NEW s \in States \cup {""}, NEW k \in Kinds,
                 r = Ends(Seeing(command[c], s), k),
                 k = "resolved-unverified" \/ (k = command[c].kind /\ s \notin {"", "ACTIVE", Gone})
          PROVE  r \in CommandState /\ HonestSoFar(r, accepted[c])
      <4> DEFINE seen == Seeing(command[c], s)
      <4>1. seen \in CommandState /\ seen.mutated = command[c].mutated /\ seen.state = s
        BY <1>a, SeeingTyped
      <4> HIDE DEF seen
      <4>2. r \in CommandState /\ r.pc = "ended" /\ r.kind = k /\ r.mutated = command[c].mutated
            /\ r.state = s
        BY <3>1, <4>1, EndsTyped DEF seen
      <4> QED
        BY <1>a, <2>1, <3>1, <4>2 DEF HonestSoFar
    <3>2. "resolved-unverified" \in Kinds /\ command[c].kind \in Kinds /\ incident \in States
      BY <1>a DEF Kinds, CommandState, IncidentInv
    <3>3. incident \notin {"ACTIVE", Gone} => incident # ""
      BY <3>2 DEF States
    <3> QED
      BY <2>2, <3>1, <3>2, <3>3
  <2> QED
    BY <2>1, <2>2, <2>3, WorldStaysHonest
<1>6. ASSUME NEW c \in Commands, ShowIncident(c) PROVE IncidentInv'
  <2>1. command[c].pc = "show" /\ World
    BY <1>6 DEF ShowIncident, IAt
  <2>2. PICK r \in {Ends(command[c], "error"),
                    [command[c] EXCEPT !.pc = "enrich", !.state = incident]} :
          Set(c, r) /\ (Fail \/ UNCHANGED failures)
    BY <1>6 DEF ShowIncident
  <2>3. r \in CommandState /\ HonestSoFar(r, accepted[c])
    <3>1. CASE r = Ends(command[c], "error")
      <4>1. "error" \in Kinds /\ command[c] \in CommandState
        BY <1>a DEF Kinds
      <4>2. r \in CommandState /\ r.pc = "ended" /\ r.kind = "error" /\ r.mutated = command[c].mutated
        BY <3>1, <4>1, EndsTyped
      <4> QED
        BY <1>a, <2>1, <4>2 DEF HonestSoFar
    <3>2. CASE r = [command[c] EXCEPT !.pc = "enrich", !.state = incident]
      <4>1. incident \in States \cup {""}
        BY DEF IncidentInv
      <4> QED
        BY <1>a, <2>1, <3>2, <4>1, ZenonT(40) DEF CommandState, HonestSoFar
    <3> QED
      BY <2>2, <3>1, <3>2
  <2> QED
    BY <2>1, <2>2, <2>3, WorldStaysHonest
<1>7. ASSUME NEW c \in Commands, enrichIncident(c) PROVE IncidentInv'
  <2> DEFINE left == Keyed \ (command[c].read \cup command[c].warned)
             next == CHOOSE k \in Keyed : k \in left
  <2>1. command[c].pc = "enrich" /\ World
    BY <1>7 DEF enrichIncident, IAt
  <2>2. CASE left = {}
    <3>1. PICK linked \in BOOLEAN :
            Set(c, Ends(command[c], IF linked /\ command[c].warned = {} THEN "complete" ELSE "partial"))
      BY <1>7, <2>2 DEF enrichIncident
    <3> DEFINE r == Ends(command[c], IF linked /\ command[c].warned = {} THEN "complete" ELSE "partial")
    <3>2. r \in CommandState /\ HonestSoFar(r, accepted[c])
      BY <1>a, <2>1, <2>2, ZenonT(40) DEF Ends, CommandState, HonestSoFar, Kinds
    <3>3. UNCHANGED failures
      BY <1>7, <2>2 DEF enrichIncident
    <3> QED
      BY <2>1, <3>1, <3>2, <3>3, WorldStaysHonest
  <2>3. CASE left # {}
    <3>1. PICK r \in {[command[c] EXCEPT !.warned = @ \cup {next}],
                      [command[c] EXCEPT !.read = @ \cup {next}]} :
            Set(c, r) /\ (Fail \/ UNCHANGED failures)
      BY <1>7, <2>3 DEF enrichIncident
    <3>2. next \in Keyed
      BY <2>3
    <3> HIDE DEF next
    <3>3. \A S \in SUBSET Keyed : S \cup {next} \in SUBSET Keyed
      BY <3>2
    <3>4. \E S, T \in SUBSET Keyed : r = [command[c] EXCEPT !.warned = S, !.read = T]
      <4>1. command[c].warned \in SUBSET Keyed /\ command[c].read \in SUBSET Keyed
        BY <1>a DEF CommandState
      <4>2. CASE r = [command[c] EXCEPT !.warned = @ \cup {next}]
        <5>1. r = [command[c] EXCEPT !.warned = command[c].warned \cup {next}, !.read = command[c].read]
          BY <1>a, <4>2 DEF CommandState
        <5> QED
          BY <3>3, <4>1, <5>1
      <4>3. CASE r = [command[c] EXCEPT !.read = @ \cup {next}]
        <5>1. r = [command[c] EXCEPT !.warned = command[c].warned, !.read = command[c].read \cup {next}]
          BY <1>a, <4>3 DEF CommandState
        <5> QED
          BY <3>3, <4>1, <5>1
      <4> QED
        BY <3>1, <4>2, <4>3
    <3>5. r \in CommandState /\ HonestSoFar(r, accepted[c])
      BY <1>a, <2>1, <3>4 DEF CommandState, HonestSoFar
    <3> QED
      BY <2>1, <3>1, <3>5, WorldStaysHonest
  <2> QED
    BY <2>2, <2>3
<1>8. CASE Elsewhere
  <2>1. incident' \in States /\ surround' \subseteq Keyed
    BY <1>8 DEF Elsewhere, States, IncidentInv
  <2>2. UNCHANGED <<command, accepted, failures>>
    BY <1>8 DEF Elsewhere
  <2> QED
    BY <1>a, <2>1, <2>2 DEF IncidentInv, CommandState, HonestSoFar, States
<1> QED
  BY <1>1, <1>2, <1>3, <1>4, <1>5, <1>6, <1>7, <1>8 DEF IncidentNext, IncidentStep

(* No resolution is claimed that the cluster did not accept, none that it  *)
(* accepted is denied, and what is called complete was read                *)
(* (incidents/resolve.go, incidents/service.go).                           *)
THEOREM ReportsStayHonest == IncidentSpec => []ReportsHonest
<1>1. IncidentInv => ReportsHonest
  BY DEF IncidentInv, HonestSoFar, ReportsHonest, CommandState, IAt
<1> QED
  BY <1>1, IncidentInitInv, IncidentStepInv, PTL DEF IncidentSpec

-------------------------------------------------------------------------------
(* Fronts.  The argument: what an operation counts, what it may miss and   *)
(* how it fails exclude each other as its service has it, so that the      *)
(* verdict of a command and the ok of a route are the same function of the *)
(* facts.  What that function asks for is less than all: incidents, a      *)
(* trace or a review go well for the code when parts of them are missing.  *)

(* The facts of an operation are those its service can come to.            *)
FactsOf(op, facts) ==
  /\ op \in Operations
  /\ op \in {"explain", "generate", "incidents", "trace"} => facts.over = {}
  /\ op \notin MayBePartial => facts.whole
  /\ op = "doctor" => facts.error = "none"
  /\ facts.error # "none" => facts.over = {} /\ facts.whole

Diagnoses == {"doctor", "deep doctor"}

(* What the code takes for a success.                                      *)
Clean == /\ asked.facts.error = "none" /\ asked.facts.over = {}
         /\ asked.op \in {"scan", "plan", "drift"} => asked.facts.whole

(* What each front may have told, of the facts.                            *)
TerminalAgrees(t) ==
  /\ t.exit = 0 <=> ~t.own /\ Clean
  /\ (t.exit = 1 /\ asked.op \in Developer) => ~t.own /\ asked.facts.error = "none" /\ asked.facts.over # {}
  /\ t.exit = 2 => t.own \/ asked.facts.error # "none" \/ ~asked.facts.whole

PageAgrees(p) == (p.ok <=> ~p.own /\ Clean) /\ (p.ok => p.code = 200)

FrontsInv ==
  /\ FactsOf(asked.op, asked.facts)
  /\ terminal.pc = "ended" => TerminalAgrees(terminal)
  /\ page.pc = "ended" => PageAgrees(page)

(* The invariant holds before a front is asked.                            *)
LEMMA FrontsInitInv == FrontsInit => FrontsInv
<1> SUFFICES ASSUME FrontsInit PROVE FrontsInv
  OBVIOUS
<1>1. PICK op \in Operations : asked \in [op : {op}, facts : Facts(op)]
  BY DEF FrontsInit
<1>2. asked.op = op /\ asked.facts \in Facts(op)
  BY <1>1
<1>3. terminal.pc # "ended" /\ page.pc # "ended"
  BY DEF FrontsInit
<1> DEFINE f == asked.facts
<1>4. CASE f \in [over : SUBSET Counted(op), whole : IF op \in MayBePartial THEN BOOLEAN ELSE {TRUE},
                  error : {"none"}]
  <2>1. f.over \subseteq Counted(op) /\ f.error = "none" /\ (op \notin MayBePartial => f.whole)
    BY <1>4
  <2>2. op \in {"explain", "generate", "incidents", "trace"} => Counted(op) = {}
    BY DEF Counted
  <2> QED
    BY <1>2, <1>3, <2>1, <2>2 DEF FrontsInv, FactsOf
<1>5. CASE f \in [over : {{}}, whole : {TRUE}, error : Errors(op)]
  <2>1. f.over = {} /\ f.whole /\ f.error \in Errors(op)
    BY <1>5
  <2>2. Errors("doctor") = {}
    BY DEF Errors, Toolkit
  <2> QED
    BY <1>2, <1>3, <2>1, <2>2 DEF FrontsInv, FactsOf
<1> QED
  BY <1>2, <1>4, <1>5 DEF Facts

(* A front that ends is judged by what it tells.                           *)
LEMMA ExitJudged ==
  ASSUME FrontsInv, NEW own \in BOOLEAN, NEW err, Exits(own, err),
         TerminalAgrees([pc |-> "ended", own |-> own, exit |-> ExitCode(err)])
  PROVE  FrontsInv'
BY DEF FrontsInv, Exits, TerminalAgrees, PageAgrees, Clean

LEMMA ReplyJudged ==
  ASSUME FrontsInv, NEW own \in BOOLEAN, NEW code, NEW ok \in BOOLEAN, Replies(own, code, ok),
         PageAgrees([pc |-> "ended", own |-> own, code |-> code, ok |-> ok])
  PROVE  FrontsInv'
BY DEF FrontsInv, Replies, TerminalAgrees, PageAgrees, Clean

(* A command of the developer tells what its verdict does, if that is so.  *)
LEMMA DeveloperTells ==
  ASSUME FrontsInv, NEW op \in Developer, NEW verdict \in {0, 1, 2, 3},
         developerCommand(op, verdict),
         asked.facts.error = "none" /\ asked.op = op =>
           /\ verdict = 0 <=> Clean
           /\ verdict = 1 => asked.facts.over # {}
           /\ verdict \in {2, 3} => ~asked.facts.whole
  PROVE  FrontsInv'
<1>1. asked.op = op
  BY DEF developerCommand
<1>2. CASE Exits(TRUE, exitError(2, Plain))
  <2>1. exitError(2, Plain) = 2 /\ ExitCode(2) = 2
    BY DEF exitError, Plain, ExitCode
  <2>2. Exits(TRUE, 2)
    BY <1>2, <2>1
  <2>3. TerminalAgrees([pc |-> "ended", own |-> TRUE, exit |-> ExitCode(2)])
    BY <2>1 DEF TerminalAgrees
  <2> QED
    BY <2>2, <2>3, ExitJudged
<1>3. CASE Exits(FALSE, exitError(2, IF asked.facts.error = "none" THEN verdict ELSE Plain))
  <2> DEFINE err == exitError(2, IF asked.facts.error = "none" THEN verdict ELSE Plain)
  <2>1. /\ asked.facts.error = "none" => err = IF verdict = 3 THEN 2 ELSE verdict
        /\ asked.facts.error # "none" => err = 2
    BY DEF exitError, Plain
  <2> HIDE DEF err
  <2>2. err \in {0, 1, 2} /\ ExitCode(err) = err
    BY <2>1 DEF ExitCode, Plain
  <2>3. /\ err = 0 <=> Clean
        /\ err = 1 => asked.facts.error = "none" /\ asked.facts.over # {}
        /\ err = 2 => asked.facts.error # "none" \/ ~asked.facts.whole
    BY <1>1, <2>1, <2>2 DEF Clean
  <2>4. TerminalAgrees([pc |-> "ended", own |-> FALSE, exit |-> ExitCode(err)])
    BY <2>2, <2>3 DEF TerminalAgrees
  <2> QED
    BY <1>3, <2>4, ExitJudged DEF err
<1> QED
  BY <1>2, <1>3 DEF developerCommand

(* A route answers ok where its service found nothing amiss.               *)
LEMMA RouteTells ==
  ASSUME FrontsInv, NEW op, NEW ok \in BOOLEAN, Route(op, ok),
         asked.facts.error = "none" /\ asked.op = op => (ok <=> Clean)
  PROVE  FrontsInv'
<1>1. asked.op = op
  BY DEF Route
<1>2. CASE Refuses
  <2>1. PICK code \in {400, 403, 413, 500} : Replies(TRUE, code, FALSE)
    BY <1>2 DEF Refuses
  <2>2. PageAgrees([pc |-> "ended", own |-> TRUE, code |-> code, ok |-> FALSE])
    BY DEF PageAgrees
  <2> QED
    BY <2>1, <2>2, ReplyJudged
<1>3. CASE asked.facts.error = "none" /\ Replies(FALSE, 200, ok)
  BY <1>1, <1>3, ReplyJudged DEF PageAgrees
<1>4. CASE asked.facts.error # "none" /\ Replies(FALSE, httpStatusFor(asked.facts.error), FALSE)
  BY <1>4, ReplyJudged DEF PageAgrees, Clean
<1> QED
  BY <1>2, <1>3, <1>4 DEF Route

(* No step of a front disagrees with the facts.                            *)
LEMMA FrontsStepInv == FrontsInv /\ [FrontsNext]_frontsVars => FrontsInv'
<1> SUFFICES ASSUME FrontsInv, [FrontsNext]_frontsVars PROVE FrontsInv'
  OBVIOUS
<1>a. FactsOf(asked.op, asked.facts)
  BY DEF FrontsInv
<1>b. Verdict \in {0, 1} /\ (Verdict = 1 <=> asked.facts.over # {})
  BY DEF Verdict, Status, policyFailure, Nil
<1>c. /\ PolicyCode \in {0, 1, 2}
      /\ asked.facts.error = "none" =>
           /\ PolicyCode = 2 <=> ~asked.facts.whole
           /\ PolicyCode = 1 <=> asked.facts.whole /\ asked.facts.over # {}
  BY DEF PolicyCode
<1>1. CASE UNCHANGED frontsVars
  BY <1>1 DEF frontsVars, FrontsInv, TerminalAgrees, PageAgrees, Clean
<1>2. CASE LintCommand \/ DiffCommand \/ ReviewCommand
  <2>1. PICK op \in {"lint", "diff", "review"} : developerCommand(op, Verdict)
    BY <1>2 DEF LintCommand, DiffCommand, ReviewCommand
  <2>2. op \in Developer
    BY DEF Developer, Toolkit
  <2>3. asked.facts.error = "none" /\ asked.op = op => (Verdict = 0 <=> Clean)
    BY <1>b DEF Clean
  <2> QED
    BY <1>b, <2>1, <2>2, <2>3, DeveloperTells
<1>3. CASE ExplainCommand \/ GenerateCommand
  <2>1. PICK op \in {"explain", "generate"} : developerCommand(op, 0)
    BY <1>3 DEF ExplainCommand, GenerateCommand, Nil
  <2>2. op \in Developer
    BY DEF Developer, Toolkit
  <2>3. asked.facts.error = "none" /\ asked.op = op => Clean
    BY <1>a DEF Clean, FactsOf
  <2> QED
    BY <2>1, <2>2, <2>3, DeveloperTells
<1>4. CASE ScanCommand
  <2> DEFINE verdict == IF Status = "partial" THEN Plain ELSE Verdict
  <2>1. /\ verdict \in {0, 1, 3}
        /\ verdict = 3 <=> asked.facts.over = {} /\ ~asked.facts.whole
        /\ verdict = 1 <=> asked.facts.over # {}
    BY DEF Plain, Status, Verdict, policyFailure, Nil
  <2>2. developerCommand("scan", verdict)
    BY <1>4 DEF ScanCommand
  <2> HIDE DEF verdict
  <2>3. "scan" \in Developer
    BY DEF Developer, Toolkit
  <2>4. asked.facts.error = "none" /\ asked.op = "scan" => (verdict = 0 <=> Clean)
    BY <2>1 DEF Clean
  <2> QED
    BY <2>1, <2>2, <2>3, <2>4, DeveloperTells
<1>5. CASE DoctorCommand
  <2>1. PICK op \in Diagnoses :
          developerCommand(op, IF asked.facts.over # {} THEN policyFailure ELSE Nil)
    BY <1>5 DEF DoctorCommand, Diagnoses
  <2>2. (IF asked.facts.over # {} THEN policyFailure ELSE Nil) = Verdict
    BY DEF Verdict, Status
  <2>3. developerCommand(op, Verdict)
    BY <2>1, <2>2
  <2>4. op \in Developer /\ op \notin {"scan", "plan", "drift"}
    BY DEF Developer, Diagnoses
  <2>5. asked.facts.error = "none" /\ asked.op = op => (Verdict = 0 <=> Clean)
    BY <1>b, <2>4 DEF Clean
  <2> QED
    BY <1>b, <2>3, <2>4, <2>5, DeveloperTells
<1>6. CASE PlanCommand \/ DriftCommand
  <2>1. PICK op \in {"plan", "drift"} : developerCommand(op, PolicyCode)
    BY <1>6 DEF PlanCommand, DriftCommand
  <2>2. op \in Developer
    BY DEF Developer
  <2>3. asked.facts.error = "none" /\ asked.op = op => (PolicyCode = 0 <=> Clean)
    BY <1>c DEF Clean
  <2> QED
    BY <1>c, <2>1, <2>2, <2>3, DeveloperTells
<1>7. CASE IncidentsCommand \/ TraceCommand
  <2>1. PICK op \in {"incidents", "trace"} : Command(op, Nil)
    BY <1>7 DEF IncidentsCommand, TraceCommand
  <2>2. asked.op = op /\ op \notin Developer
    BY <2>1 DEF Command, Developer, Toolkit
  <2>3. ExitCode(Plain) = 1 /\ ExitCode(Nil) = 0
    BY DEF ExitCode, Plain, Nil
  <2>4. CASE Exits(TRUE, Plain)
    <3>1. TerminalAgrees([pc |-> "ended", own |-> TRUE, exit |-> ExitCode(Plain)])
      BY <2>2, <2>3 DEF TerminalAgrees
    <3> QED
      BY <2>4, <3>1, ExitJudged
  <2>5. CASE asked.facts.error = "none" /\ Exits(FALSE, Nil)
    <3>1. Clean
      BY <1>a, <2>2, <2>5 DEF Clean, FactsOf
    <3>2. TerminalAgrees([pc |-> "ended", own |-> FALSE, exit |-> ExitCode(Nil)])
      BY <2>3, <3>1 DEF TerminalAgrees
    <3> QED
      BY <2>5, <3>2, ExitJudged
  <2>6. CASE asked.facts.error # "none" /\ Exits(FALSE, Plain)
    <3>1. TerminalAgrees([pc |-> "ended", own |-> FALSE, exit |-> ExitCode(Plain)])
      BY <2>2, <2>3, <2>6 DEF TerminalAgrees, Clean
    <3> QED
      BY <2>6, <3>1, ExitJudged
  <2> QED
    BY <2>1, <2>4, <2>5, <2>6 DEF Command
<1>8. CASE bpmnLint \/ bpmnReview
  <2> DEFINE ok == Status # "failed"
  <2>1. PICK op \in {"lint", "review"} : Route(op, ok)
    BY <1>8 DEF bpmnLint, bpmnReview
  <2>2. ok \in BOOLEAN /\ (ok <=> asked.facts.over = {})
    BY DEF Status
  <2> HIDE DEF ok
  <2>3. asked.facts.error = "none" /\ asked.op = op => (ok <=> Clean)
    BY <2>2 DEF Clean
  <2> QED
    BY <2>1, <2>2, <2>3, RouteTells
<1>9. CASE bpmnDiff \/ runDoctorDeep
  <2> DEFINE ok == asked.facts.over = {}
  <2>1. PICK op \in {"diff", "deep doctor"} : Route(op, ok)
    BY <1>9 DEF bpmnDiff, runDoctorDeep
  <2>2. asked.facts.error = "none" /\ asked.op = op => (ok <=> Clean)
    BY DEF Clean
  <2>3. ok \in BOOLEAN
    OBVIOUS
  <2> HIDE DEF ok
  <2> QED
    BY <2>1, <2>2, <2>3, RouteTells
<1>10. CASE bpmnExplain \/ bpmnTestGenerate \/ listIncidents \/ traceInstance
  <2>1. PICK op \in {"explain", "generate", "incidents", "trace"} : Route(op, TRUE)
    BY <1>10 DEF bpmnExplain, bpmnTestGenerate, listIncidents, traceInstance
  <2>2. asked.facts.error = "none" /\ asked.op = op => Clean
    BY <1>a DEF Clean, FactsOf
  <2> QED
    BY <2>1, <2>2, RouteTells
<1>11. CASE bpmnScan
  <2> DEFINE ok == Status # "failed" /\ asked.facts.whole
  <2>1. ok <=> asked.facts.over = {} /\ asked.facts.whole
    BY DEF Status
  <2>2. asked.facts.error = "none" /\ asked.op = "scan" => (ok <=> Clean)
    BY <2>1 DEF Clean
  <2>3. ok \in BOOLEAN
    OBVIOUS
  <2>4. Route("scan", ok)
    BY <1>11 DEF bpmnScan
  <2> HIDE DEF ok
  <2> QED
    BY <2>2, <2>3, <2>4, RouteTells
<1>12. CASE runDoctor
  <2> DEFINE ok == asked.facts.over = {}
  <2>1. asked.op = "doctor" /\ Replies(FALSE, 200, ok) /\ ok \in BOOLEAN
    BY <1>12 DEF runDoctor
  <2>2. ok <=> Clean
    BY <1>a, <2>1 DEF Clean, FactsOf
  <2> HIDE DEF ok
  <2>3. PageAgrees([pc |-> "ended", own |-> FALSE, code |-> 200, ok |-> ok])
    BY <2>2 DEF PageAgrees
  <2> QED
    BY <2>1, <2>3, ReplyJudged
<1>13. CASE runPlan
  <2> DEFINE ok == PolicyCode = 0
  <2>1. Route("plan", ok) /\ ok \in BOOLEAN
    BY <1>13 DEF runPlan
  <2>2. asked.facts.error = "none" /\ asked.op = "plan" => (ok <=> Clean)
    BY <1>c DEF Clean
  <2> HIDE DEF ok
  <2> QED
    BY <2>1, <2>2, RouteTells
<1>14. CASE runDrift
  <2> DEFINE ok == PolicyCode = 0
  <2>1. CASE Refuses
    <3>1. PICK code \in {400, 403, 413, 500} : Replies(TRUE, code, FALSE)
      BY <2>1 DEF Refuses
    <3>2. PageAgrees([pc |-> "ended", own |-> TRUE, code |-> code, ok |-> FALSE])
      BY DEF PageAgrees
    <3> QED
      BY <3>1, <3>2, ReplyJudged
  <2>2. CASE Replies(FALSE, 200, ok)
    <3>1. ok <=> Clean
      <4>1. asked.facts.error # "none" => PolicyCode # 0
        BY DEF PolicyCode
      <4> QED
        BY <1>14, <1>c, <4>1 DEF Clean, runDrift
    <3>2. ok \in BOOLEAN
      OBVIOUS
    <3> HIDE DEF ok
    <3>3. PageAgrees([pc |-> "ended", own |-> FALSE, code |-> 200, ok |-> ok])
      BY <3>1 DEF PageAgrees
    <3> QED
      BY <2>2, <3>2, <3>3, ReplyJudged
  <2> QED
    BY <1>14, <2>1, <2>2 DEF runDrift
<1> QED
  BY <1>1, <1>2, <1>3, <1>4, <1>5, <1>6, <1>7, <1>8, <1>9, <1>10, <1>11, <1>12, <1>13, <1>14
     DEF FrontsNext

(* The exit code of a command and the answer of the route for the same     *)
(* operation agree, never call a failure, a finding or a verdict of a part *)
(* a success, and call nothing whole and clean a failure                   *)
(* (cli/toolkit.go:474-530, ui/api/handlers_toolkit.go).                   *)
THEOREM FrontsStayAgreed == FrontsSpec => []FrontsAgree
<1>1. FrontsInv => FrontsAgree
  BY DEF FrontsInv, FrontsAgree, TerminalAgrees, PageAgrees, Clean, MayGoWell, MustGoWell,
         WholeNeeded
<1> QED
  BY <1>1, FrontsInitInv, FrontsStepInv, PTL DEF FrontsSpec

-------------------------------------------------------------------------------
(* ReviewRun.  The argument: while the provider is asked, what the result  *)
(* claims holds of the processes it was asked about, and the others are    *)
(* still to be told; a review ends when none is, or with an error.         *)

Untold == [found : Levels, narrated : {"disabled"}, prompt : {"none"}]
Process == [found : Levels, narrated : Narratives,
            prompt : {"none", "full", "compacted", "too long"}]

Results == [status : Statuses, complete : BOOLEAN, ai : Narratives,
            findings : Seq(Levels), processes : Seq(Process)]

ReviewTyped ==
  /\ review \in [step : {"idle", "parse", "ask", "done"}, request : {review.request},
                 inputs : Seq(BPMNInputs), error : {review.error}]
  /\ reviewed \in Results

ReviewAsked == review.request.operation = "review" /\ Requested
Told(k) == reviewed.processes[k].narrated # "disabled"
Narrated(k) == reviewed.processes[k].narrated = "succeeded"
Fails == ShouldFailAt(reviewed.findings, review.request.failOn)

(* What holds of a review until it ends.                                   *)
NothingYet ==
  /\ VAt("idle") => reviewed = NoResult
  /\ VAt("parse") =>
       /\ review.error = "none" /\ reviewed.status = "completed" /\ reviewed.complete
       /\ reviewed.ai = "disabled" /\ reviewed.processes \in Seq(Untold)

ToldSoFar ==
  VAt("ask") =>
    /\ ReviewAsked /\ review.error = "none"
    /\ reviewed.status = "failed" <=> Fails
    /\ reviewed.status = "completed" => reviewed.complete
    /\ \A k \in DOMAIN reviewed.processes : Told(k) =>
         /\ reviewed.complete => Narrated(k) /\ reviewed.processes[k].prompt = "full"
         /\ reviewed.ai = "succeeded" \/ review.request.required => Narrated(k)

ReviewInv == ReviewTyped /\ NothingYet /\ ToldSoFar /\ ReviewHonest

(* The invariant holds before a review begins.                             *)
LEMMA ReviewInitInv == ReviewInit => ReviewInv
BY DEF Results, ReviewInit, ReviewInv, ReviewTyped, NothingYet, ToldSoFar, ReviewHonest, VAt, NoResult,
       Statuses, Narratives

(* A review without a result claims nothing.                               *)
LEMMA NoResultHonest ==
  ASSUME reviewed' = NoResult, review'.step = "done" PROVE ReviewHonest'
BY DEF ReviewHonest, NoResult, ShouldFailAt

(* Sequences of processes nobody was told of, put together.                *)
LEMMA UntoldIsProcess == Seq(Untold) \subseteq Seq(Process)
<1>1. Untold \subseteq Process
  BY DEF Untold, Process, Narratives
<1> QED
  BY <1>1

LEMMA UntoldTold == ASSUME NEW s \in Seq(Untold), NEW k \in DOMAIN s PROVE s[k].narrated = "disabled"
<1>1. k \in 1..Len(s)
  OBVIOUS
<1>2. s[k] \in Untold
  BY <1>1, ElementOfSeq
<1> QED
  BY <1>2 DEF Untold

(* The inputs of a request are inputs.                                     *)
LEMMA InputsKnown ==
  ASSUME NEW q \in Requests PROVE resolveBPMNInputs(q).inputs \in Seq(BPMNInputs)
BY ReviewAssumption DEF resolveBPMNInputs

LEMMA RefusedKeeps ==
  ASSUME ReviewTyped, NEW error \in {"input"}, Refused(error)
  PROVE  ReviewInv'
<1>1. reviewed' \in Results
  BY DEF Results, Refused, NoResult, Statuses, Narratives
<1>2. /\ review'.step = "done" /\ review'.error = "input"
      /\ review' \in [step : {"idle", "parse", "ask", "done"}, request : {review'.request},
                      inputs : Seq(BPMNInputs), error : {review'.error}]
  BY DEF Refused, ReviewTyped
<1> QED
  BY <1>1, <1>2 DEF ReviewInv, ReviewTyped, NothingYet, ToldSoFar, ReviewHonest, VAt

LEMMA BeginReviewKeeps ==
  ASSUME ReviewInv, NEW q \in Requests, BeginReview(q)
  PROVE  ReviewInv'
<1> DEFINE inputs == resolveBPMNInputs(q).inputs
           error == resolveBPMNInputs(q).error
           step == IF abandoned \/ error # "none" THEN "done" ELSE "parse"
           ended == IF abandoned THEN "input" ELSE error
<1>1. review' = [step |-> step, request |-> q, inputs |-> inputs, error |-> ended]
  BY DEF BeginReview
<1>2. inputs \in Seq(BPMNInputs)
  BY InputsKnown
<1>4. reviewed = NoResult /\ reviewed' = reviewed
  BY DEF BeginReview, ReviewInv, NothingYet
<1> HIDE DEF inputs, error
<1>5. ReviewTyped'
  BY <1>1, <1>2, <1>4 DEF ReviewInv, ReviewTyped
<1>6. NothingYet'
  BY <1>1, <1>4, EmptySeq DEF NothingYet, NoResult, VAt
<1>7. ToldSoFar'
  BY <1>1 DEF ToldSoFar, VAt
<1>8. CASE step = "done"
  BY <1>1, <1>4, <1>5, <1>6, <1>7, <1>8, NoResultHonest DEF ReviewInv
<1>9. CASE step # "done"
  BY <1>1, <1>5, <1>6, <1>7, <1>9 DEF ReviewInv, ReviewHonest, VAt
<1> QED
  BY <1>8, <1>9

LEMMA ParseInputKeeps == ASSUME ReviewInv, ParseInput PROVE ReviewInv'
<1> DEFINE document == Head(review.inputs).document
           added == [k \in DOMAIN document.processes |->
                      [found |-> document.processes[k], narrated |-> "disabled", prompt |-> "none"]]
           findings == reviewed.findings \o <<document.messages>> \o document.processes
           processes == reviewed.processes \o added
<1>1. review.inputs \in Seq(BPMNInputs) /\ review.inputs # <<>>
  BY DEF ParseInput, ReviewInv, ReviewTyped
<1>2. Head(review.inputs) \in BPMNInputs /\ Tail(review.inputs) \in Seq(BPMNInputs)
  BY <1>1, HeadTailProperties
<1>3. document.messages \in Levels /\ document.processes \in Seq(Levels)
  BY <1>2 DEF BPMNInputs
<1>4. CASE abandoned \/ document.processes = <<>>
  BY <1>4, RefusedKeeps DEF ParseInput, ReviewInv
<1>5. CASE ~(abandoned \/ document.processes = <<>>)
  <2>1. /\ review' = [review EXCEPT !.inputs = Tail(review.inputs)]
        /\ reviewed' = [reviewed EXCEPT !.findings = findings, !.processes = processes]
    BY <1>5, Zenon DEF ParseInput
  <2>2. findings \in Seq(Levels)
    <3>1. reviewed.findings \in Seq(Levels) /\ <<document.messages>> \in Seq(Levels)
      BY <1>3 DEF Results, ReviewInv, ReviewTyped
    <3> QED
      BY <1>3, <3>1, ConcatProperties
  <2>3. added \in Seq(Untold)
    <3>1. DOMAIN document.processes = 1..Len(document.processes) /\ Len(document.processes) \in Nat
      BY <1>3
    <3>2. \A k \in 1..Len(document.processes) : document.processes[k] \in Levels
      BY <1>3, ElementOfSeq
    <3>3. added \in [1..Len(document.processes) -> Untold]
      BY <3>1, <3>2 DEF Untold
    <3>4. PICK n \in Nat : n = Len(document.processes)
      BY <3>1
    <3>5. added \in UNION {[1..m -> Untold] : m \in Nat}
      BY <3>3, <3>4
    <3> QED
      BY <3>5, SeqDef, Zenon
  <2>4. VAt("parse") /\ reviewed.processes \in Seq(Untold) /\ review.error = "none"
        /\ reviewed.status = "completed" /\ reviewed.complete /\ reviewed.ai = "disabled"
    BY DEF ParseInput, ReviewInv, NothingYet
  <2>5. processes \in Seq(Untold)
    BY <2>3, <2>4, ConcatProperties
  <2>6. processes \in Seq(Process)
    BY <2>5, UntoldIsProcess
  <2> HIDE DEF findings, processes, added, document
  <2>7. ReviewTyped'
    BY <1>2, <2>1, <2>2, <2>6 DEF Results, ReviewInv, ReviewTyped
  <2>8. review'.step = "parse" /\ review'.error = review.error
    BY <2>1, <2>4 DEF ReviewInv, ReviewTyped, VAt
  <2>9. /\ reviewed'.processes = processes /\ reviewed'.status = reviewed.status
        /\ reviewed'.complete = reviewed.complete /\ reviewed'.ai = reviewed.ai
    BY <2>1 DEF ReviewInv, ReviewTyped
  <2> QED
    BY <2>4, <2>5, <2>7, <2>8, <2>9 DEF ReviewInv, NothingYet, ToldSoFar, ReviewHonest, VAt
<1> QED
  BY <1>4, <1>5

(* A review that goes to another step, or ends with or without an error.   *)
LEMMA EndTyped ==
  ASSUME ReviewTyped, NEW step \in {"idle", "parse", "ask", "done"}, NEW error,
         \/ review' = [review EXCEPT !.step = step, !.error = error]
         \/ review' = [review EXCEPT !.step = step],
         reviewed' \in Results
  PROVE  ReviewTyped'
<1>1. review' \in [step : {"idle", "parse", "ask", "done"}, request : {review'.request},
                   inputs : Seq(BPMNInputs), error : {review'.error}]
  <2>1. CASE review' = [review EXCEPT !.step = step, !.error = error]
    BY <2>1 DEF ReviewTyped
  <2>2. CASE review' = [review EXCEPT !.step = step]
    BY <2>2 DEF ReviewTyped
  <2> QED
    BY <2>1, <2>2
<1> QED
  BY <1>1 DEF ReviewTyped

(* Every input is linted: the status is that of the findings.              *)
LEMMA LintedKeeps == ASSUME ReviewInv, Linted PROVE ReviewInv'
<1> DEFINE q == review.request
           status == IF ShouldFailAt(reviewed.findings, q.failOn) THEN "failed" ELSE "completed"
           ended(error, r) == /\ review' = [review EXCEPT !.step = "done", !.error = error]
                              /\ reviewed' = r
<1>1. VAt("parse") /\ reviewed.processes \in Seq(Untold) /\ review.error = "none"
      /\ reviewed.status = "completed" /\ reviewed.complete /\ reviewed.ai = "disabled"
  BY DEF Linted, ReviewInv, NothingYet
<1>2. ReviewTyped
  BY DEF ReviewInv
<1>3. /\ status \in {"failed", "completed"} /\ (status = "failed" <=> Fails)
      /\ Degraded(status) \in {"failed", "partial"} /\ (Degraded(status) = "failed" <=> Fails)
  BY DEF Fails, Degraded
<1>4. \A k \in DOMAIN reviewed.processes : ~Told(k)
  BY <1>1, UntoldTold DEF Told
<1> HIDE DEF status
<1>5. CASE ended("none", [reviewed EXCEPT !.status = status]) /\ ~ReviewAsked
  <2>1. /\ review'.step = "done" /\ review'.error = "none" /\ review'.request = review.request
        /\ reviewed'.status = status /\ reviewed'.complete = reviewed.complete
        /\ reviewed'.ai = reviewed.ai /\ reviewed'.findings = reviewed.findings
        /\ reviewed'.processes = reviewed.processes
    BY <1>2, <1>5 DEF ReviewTyped
  <2>2. reviewed' \in Results
    BY <1>2, <1>3, <1>5 DEF Results, ReviewTyped, Statuses, Narratives
  <2>9. ReviewTyped'
    BY <1>2, <1>5, <2>2, EndTyped
  <2> QED
    BY <1>1, <1>3, <1>5, <2>1, <2>9
    DEF ReviewInv, NothingYet, ToldSoFar, ReviewHonest, VAt, ReviewAsked, Requested, Fails
<1>6. CASE /\ ended("ai", [reviewed EXCEPT !.status = status, !.complete = FALSE, !.ai = "failed"])
  <2>1. /\ review'.step = "done" /\ review'.error = "ai" /\ review'.request = review.request
        /\ reviewed'.status = status /\ ~reviewed'.complete
        /\ reviewed'.ai = "failed" /\ reviewed'.findings = reviewed.findings
        /\ reviewed'.processes = reviewed.processes
    BY <1>2, <1>6 DEF ReviewTyped
  <2>2. reviewed' \in Results
    BY <1>2, <1>3, <1>6 DEF Results, ReviewTyped, Statuses, Narratives
  <2>9. ReviewTyped'
    BY <1>2, <1>6, <2>2, EndTyped
  <2> QED
    BY <1>1, <1>3, <2>1, <2>9 DEF ReviewInv, NothingYet, ToldSoFar, ReviewHonest, VAt, Fails
<1>7. CASE /\ ended("none", [reviewed EXCEPT !.status = Degraded(status), !.complete = FALSE,
                                             !.ai = "skipped"])
           /\ ~q.required
  <2>1. /\ review'.step = "done" /\ review'.error = "none" /\ review'.request = review.request
        /\ reviewed'.status = Degraded(status) /\ ~reviewed'.complete
        /\ reviewed'.ai = "skipped" /\ reviewed'.findings = reviewed.findings
        /\ reviewed'.processes = reviewed.processes
    BY <1>2, <1>7 DEF ReviewTyped
  <2>2. reviewed' \in Results
    BY <1>2, <1>3, <1>7 DEF Results, ReviewTyped, Statuses, Narratives
  <2>9. ReviewTyped'
    BY <1>2, <1>7, <2>2, EndTyped
  <2> QED
    BY <1>1, <1>3, <1>7, <2>1, <2>9 DEF ReviewInv, NothingYet, ToldSoFar, ReviewHonest, VAt, Fails
<1>8. CASE /\ ReviewAsked
           /\ review' = [review EXCEPT !.step = "ask"]
           /\ reviewed' = [reviewed EXCEPT !.status = status, !.ai = "succeeded"]
  <2>1. /\ review'.step = "ask" /\ review'.error = review.error /\ review'.request = review.request
        /\ reviewed'.status = status /\ reviewed'.complete = reviewed.complete
        /\ reviewed'.ai = "succeeded" /\ reviewed'.findings = reviewed.findings
        /\ reviewed'.processes = reviewed.processes
    BY <1>2, <1>8 DEF ReviewTyped
  <2>2. reviewed' \in Results
    BY <1>2, <1>3, <1>8 DEF Results, ReviewTyped, Statuses, Narratives
  <2>9. ReviewTyped'
    BY <1>2, <1>8, <2>2, EndTyped
  <2>3. ReviewAsked' /\ (Fails' <=> Fails)
    BY <1>8, <2>1 DEF ReviewAsked, Requested, Fails
  <2>4. \A k \in DOMAIN reviewed'.processes : ~Told(k)'
    BY <1>4, <2>1 DEF Told
  <2> QED
    BY <1>1, <1>3, <2>1, <2>9, <2>3, <2>4
    DEF ReviewInv, NothingYet, ToldSoFar, ReviewHonest, VAt
<1> QED
  BY <1>5, <1>6, <1>7, <1>8 DEF Linted, status, ReviewAsked

(* What one process adds: complete stays TRUE, and the result is not       *)
(* degraded, only if it was narrated from the whole model.                 *)
AddedTo(r, narrated, prompt, next) ==
  /\ next \in Results
  /\ next.findings = r.findings /\ next.processes = r.processes
  /\ next.status = "failed" <=> r.status = "failed"
  /\ next.complete => r.complete /\ narrated = "succeeded" /\ prompt = "full"
  /\ next.status = "completed" => r.status = "completed" /\ narrated = "succeeded" /\ prompt = "full"
  /\ r.complete /\ narrated = "succeeded" /\ prompt = "full" => next.complete
  /\ next.ai = "succeeded" => r.ai = "succeeded" /\ narrated = "succeeded"

LEMMA AddsTold ==
  ASSUME NEW r \in Results, NEW narrated \in {"succeeded", "failed"}, NEW prompt
  PROVE  AddedTo(r, narrated, prompt, Adds(r, narrated, prompt))
<1> DEFINE next == Adds(r, narrated, prompt)
           ai == IF narrated = "failed" THEN "failed" ELSE r.ai
           complete == r.complete /\ narrated = "succeeded" /\ prompt = "full"
           status == IF narrated = "succeeded" /\ prompt = "full" THEN r.status ELSE Degraded(r.status)
<1>1. next = [r EXCEPT !.ai = ai, !.complete = complete, !.status = status]
  BY Zenon DEF Adds
<1>2. complete \in BOOLEAN
  OBVIOUS
<1>3. ai \in Narratives /\ (ai = "succeeded" => r.ai = "succeeded" /\ narrated = "succeeded")
  BY DEF Results, Narratives
<1>4. /\ status \in Statuses /\ (status = "failed" <=> r.status = "failed")
      /\ status = "completed" => r.status = "completed" /\ narrated = "succeeded" /\ prompt = "full"
  BY DEF Results, Statuses, Degraded
<1>5. complete <=> r.complete /\ narrated = "succeeded" /\ prompt = "full"
  OBVIOUS
<1> HIDE DEF ai, complete, status, next
<1>6. next.ai = ai /\ next.complete = complete /\ next.status = status
      /\ next.findings = r.findings /\ next.processes = r.processes
      /\ next \in Results
  BY <1>1, <1>2, <1>3, <1>4 DEF Results
<1>7. AddedTo(r, narrated, prompt, next)
  BY <1>3, <1>4, <1>5, <1>6 DEF AddedTo
<1> QED
  BY <1>7 DEF next

(* Two sequences with the same domain have the same length.                *)
LEMMA SameLength ==
  ASSUME NEW S, NEW s \in Seq(S), NEW t \in Seq(S), DOMAIN s = DOMAIN t PROVE Len(s) = Len(t)
OBVIOUS

(* The k-th process is told of; nothing else changes.                      *)
Narrate(r, k, narrated, prompt) ==
  [r EXCEPT !.processes[k].narrated = narrated, !.processes[k].prompt = prompt]

NarratedIn(r, k, narrated, prompt, next) ==
  /\ next \in Results
  /\ next.status = r.status /\ next.complete = r.complete /\ next.ai = r.ai
  /\ next.findings = r.findings
  /\ DOMAIN next.processes = DOMAIN r.processes
  /\ \A j \in DOMAIN r.processes \ {k} : next.processes[j] = r.processes[j]
  /\ next.processes[k].narrated = narrated /\ next.processes[k].prompt = prompt

LEMMA NarrateTold ==
  ASSUME NEW r \in Results, NEW k \in DOMAIN r.processes, NEW narrated \in {"succeeded", "failed"},
         NEW prompt \in {"none", "full", "compacted", "too long"}
  PROVE  NarratedIn(r, k, narrated, prompt, Narrate(r, k, narrated, prompt))
<1> DEFINE next == Narrate(r, k, narrated, prompt)
           p == [r.processes[k] EXCEPT !.narrated = narrated, !.prompt = prompt]
           ps == [r.processes EXCEPT ![k] = p]
<1>1. r.processes \in Seq(Process) /\ k \in 1..Len(r.processes) /\ r.processes[k] \in Process
  <2>1. r.processes \in Seq(Process)
    BY DEF Results
  <2>2. DOMAIN r.processes = 1..Len(r.processes)
    BY <2>1, LenProperties
  <2> QED
    BY <2>1, <2>2, ElementOfSeq
<1>2. p \in Process /\ p.narrated = narrated /\ p.prompt = prompt
  BY <1>1 DEF Process, Narratives
<1>3. next = [r EXCEPT !.processes = ps]
  BY <1>1 DEF Narrate, Process
<1> HIDE DEF p, next
<1>4. ps \in Seq(Process) /\ Len(ps) = Len(r.processes)
      /\ \A j \in 1..Len(r.processes) : ps[j] = IF j = k THEN p ELSE r.processes[j]
  <2>1. p \in Process /\ ps = [r.processes EXCEPT ![k] = p]
    BY <1>2
  <2> DEFINE s == r.processes
  <2>2. s \in Seq(Process) /\ k \in 1..Len(s) /\ ps = [s EXCEPT ![k] = p]
    BY <1>1, <2>1
  <2> HIDE DEF ps, s
  <2>3. ps \in Seq(Process)
    <3>1. [s EXCEPT ![k] = p] \in Seq(Process)
      BY <2>1, <2>2, ExceptSeq
    <3> QED
      BY <2>2, <3>1, Zenon
  <2>4. DOMAIN s = 1..Len(s)
    BY <2>2, LenProperties
  <2>5. DOMAIN ps = DOMAIN s /\ \A j \in 1..Len(s) : ps[j] = IF j = k THEN p ELSE s[j]
    BY <2>2, <2>4
  <2>6. Len(ps) = Len(s)
    BY <2>2, <2>3, <2>5, SameLength
  <2> QED
    BY <2>3, <2>5, <2>6 DEF s
<1>5. DOMAIN ps = DOMAIN r.processes /\ DOMAIN ps = 1..Len(r.processes)
  BY <1>1, <1>4, LenProperties
<1>6. /\ next.status = r.status /\ next.complete = r.complete /\ next.ai = r.ai
      /\ next.findings = r.findings /\ next.processes = ps
      /\ next \in Results
  BY <1>3, <1>4 DEF Results
<1>7. NarratedIn(r, k, narrated, prompt, next)
  BY <1>1, <1>2, <1>4, <1>5, <1>6 DEF NarratedIn
<1> QED
  BY <1>7 DEF next

(* What the next process changes in what was told so far.                  *)
LEMMA AskNextKeeps == ASSUME ReviewInv, AskNext PROVE ReviewInv'
<1>1. PICK k \in DOMAIN reviewed.processes, size \in PromptSizes, content \in {"text", "empty", "error"} :
      LET prompt == IF abandoned THEN "none" ELSE BuildPrompt(size)
          narrated == IF prompt \in {"full", "compacted"} /\ content = "text"
                      THEN "succeeded" ELSE "failed"
          here == [reviewed EXCEPT !.processes[k].narrated = narrated, !.processes[k].prompt = prompt]
      IN  /\ reviewed.processes[k].narrated = "disabled"
          /\ \A j \in 1..(k - 1) : reviewed.processes[j].narrated # "disabled"
          /\ IF narrated = "failed" /\ review.request.required
             THEN /\ review' = [review EXCEPT !.step = "done", !.error = "ai"]
                  /\ reviewed' = [here EXCEPT !.ai = "failed", !.complete = FALSE]
             ELSE /\ UNCHANGED review
                  /\ reviewed' = Adds(here, narrated, prompt)
  BY Zenon DEF AskNext
<1> DEFINE sent == IF abandoned THEN "none" ELSE BuildPrompt(size)
           told == IF sent \in {"full", "compacted"} /\ content = "text"
                       THEN "succeeded" ELSE "failed"
           here == [reviewed EXCEPT !.processes[k].narrated = told, !.processes[k].prompt = sent]
<1>2. reviewed.processes[k].narrated = "disabled" /\ VAt("ask") /\ ReviewTyped /\ reviewed \in Results
  BY <1>1 DEF AskNext, ReviewInv, ReviewTyped
<1>3. /\ ReviewAsked /\ review.error = "none" /\ (reviewed.status = "failed" <=> Fails)
      /\ reviewed.status = "completed" => reviewed.complete
      /\ \A j \in DOMAIN reviewed.processes : Told(j) =>
           /\ reviewed.complete => Narrated(j) /\ reviewed.processes[j].prompt = "full"
           /\ reviewed.ai = "succeeded" \/ review.request.required => Narrated(j)
  BY <1>2 DEF ReviewInv, ToldSoFar
<1>4. /\ told \in {"succeeded", "failed"} /\ sent \in {"none", "full", "compacted", "too long"}
  BY DEF BuildPrompt
<1>5. here = Narrate(reviewed, k, told, sent)
  BY Zenon DEF Narrate
<1>6. IF told = "failed" /\ review.request.required
      THEN /\ review' = [review EXCEPT !.step = "done", !.error = "ai"]
           /\ reviewed' = [here EXCEPT !.ai = "failed", !.complete = FALSE]
      ELSE /\ UNCHANGED review
           /\ reviewed' = Adds(here, told, sent)
  BY <1>1, Zenon
<1>7. reviewed \in Results
  BY <1>2
<1>8. k \in DOMAIN reviewed.processes
  BY <1>1
<1> HIDE DEF told, sent, here
<1>9. /\ here \in Results
      /\ here.status = reviewed.status /\ here.complete = reviewed.complete
      /\ here.ai = reviewed.ai /\ here.findings = reviewed.findings
      /\ DOMAIN here.processes = DOMAIN reviewed.processes
      /\ \A j \in DOMAIN reviewed.processes \ {k} : here.processes[j] = reviewed.processes[j]
      /\ here.processes[k].narrated = told /\ here.processes[k].prompt = sent
  <2>1. NarratedIn(reviewed, k, told, sent, here)
    BY <1>7, <1>8, <1>4, <1>5, NarrateTold, Zenon
  <2> QED
    BY <2>1 DEF NarratedIn
<1>10. CASE /\ told = "failed" /\ review.request.required
           /\ review' = [review EXCEPT !.step = "done", !.error = "ai"]
           /\ reviewed' = [here EXCEPT !.ai = "failed", !.complete = FALSE]
  <2>1. /\ reviewed' \in Results /\ reviewed'.status = reviewed.status /\ ~reviewed'.complete
        /\ reviewed'.ai = "failed" /\ reviewed'.findings = reviewed.findings
    BY <1>9, <1>10 DEF Results, Narratives
  <2>2. review'.step = "done" /\ review'.error = "ai" /\ review'.request = review.request
    BY <1>2, <1>10 DEF ReviewTyped
  <2>3. ReviewTyped'
    BY <1>2, <1>10, <2>1, EndTyped
  <2> QED
    BY <1>3, <2>1, <2>2, <2>3 DEF ReviewInv, NothingYet, ToldSoFar, ReviewHonest, VAt, Fails
<1>11. CASE /\ ~(told = "failed" /\ review.request.required)
           /\ UNCHANGED review
           /\ reviewed' = Adds(here, told, sent)
  <2>1. /\ reviewed' \in Results /\ reviewed'.findings = here.findings
        /\ reviewed'.processes = here.processes
        /\ reviewed'.status = "failed" <=> here.status = "failed"
        /\ reviewed'.complete => here.complete /\ told = "succeeded" /\ sent = "full"
        /\ reviewed'.status = "completed" =>
             here.status = "completed" /\ told = "succeeded" /\ sent = "full"
        /\ here.complete /\ told = "succeeded" /\ sent = "full" => reviewed'.complete
        /\ reviewed'.ai = "succeeded" => here.ai = "succeeded" /\ told = "succeeded"
    <3>1. AddedTo(here, told, sent, reviewed')
      BY <1>4, <1>9, <1>11, AddsTold, Zenon
    <3> QED
      BY <3>1 DEF AddedTo
  <2>2. ReviewTyped'
    BY <1>2, <1>11, <2>1 DEF ReviewTyped
  <2>3. VAt("ask")' /\ ReviewAsked' /\ review'.error = "none" /\ (Fails' <=> Fails)
    BY <1>2, <1>3, <1>9, <1>11, <2>1 DEF VAt, ReviewAsked, Requested, Fails
  <2>4. ASSUME NEW j \in DOMAIN reviewed'.processes, Told(j)'
        PROVE  /\ reviewed'.complete => Narrated(j)' /\ reviewed'.processes[j].prompt = "full"
               /\ reviewed'.ai = "succeeded" \/ review'.request.required => Narrated(j)'
    <3>1. CASE j = k
      BY <1>4, <1>9, <1>11, <2>1, <3>1 DEF Narrated
    <3>2. CASE j # k
      <4>1. reviewed'.processes[j] = reviewed.processes[j] /\ j \in DOMAIN reviewed.processes
        BY <1>9, <2>1, <3>2
      <4>2. Told(j) /\ (Narrated(j)' <=> Narrated(j))
        BY <2>4, <4>1 DEF Told, Narrated
      <4> QED
        BY <1>3, <1>9, <1>11, <2>1, <4>1, <4>2
    <3> QED
      BY <3>1, <3>2
  <2>5. ToldSoFar'
    BY <1>3, <1>9, <2>1, <2>3, <2>4 DEF ToldSoFar
  <2> QED
    BY <2>2, <2>3, <2>5 DEF ReviewInv, NothingYet, ReviewHonest, VAt
<1> QED
  BY <1>6, <1>10, <1>11

(* Everyone was asked about.                                               *)
LEMMA ReviewedKeeps == ASSUME ReviewInv, Reviewed PROVE ReviewInv'
<1>1. /\ VAt("ask") /\ ReviewTyped /\ ToldSoFar
      /\ \A k \in DOMAIN reviewed.processes : Told(k)
      /\ review' = [review EXCEPT !.step = "done"] /\ UNCHANGED reviewed
  BY DEF Reviewed, ReviewInv, Told
<1>2. /\ review'.step = "done" /\ review'.error = review.error /\ review'.request = review.request
  BY <1>1 DEF ReviewTyped
<1>3. ReviewTyped'
  BY <1>1, EndTyped DEF ReviewTyped
<1>4. ReviewHonest'
  BY <1>1, <1>2 DEF ToldSoFar, ReviewHonest, VAt, Fails, Narrated, ReviewAsked
<1> QED
  BY <1>2, <1>3, <1>4 DEF ReviewInv, NothingYet, ToldSoFar, VAt

LEMMA ReviewNextKeeps == ASSUME ReviewInv, [ReviewNext]_reviewVars PROVE ReviewInv'
<1>1. ASSUME NEW q \in Requests, BeginReview(q) PROVE ReviewInv'
  BY <1>1, BeginReviewKeeps
<1>2. CASE ParseInput
  BY <1>2, ParseInputKeeps
<1>3. CASE Linted
  BY <1>3, LintedKeeps
<1>4. CASE AskNext
  BY <1>4, AskNextKeeps
<1>5. CASE Reviewed
  BY <1>5, ReviewedKeeps
<1>6. CASE UNCHANGED <<review, reviewed>>
  BY <1>6 DEF ReviewInv, ReviewTyped, NothingYet, ToldSoFar, ReviewHonest, VAt, ReviewAsked,
              Requested, Told, Narrated, Fails
<1> QED
  BY <1>1, <1>2, <1>3, <1>4, <1>5, <1>6 DEF ReviewNext, ReviewStep, CancelReview, reviewVars

(* What a finished review claims is so, whatever went wrong at which of    *)
(* its processes (Review of internal/toolkit/service.go).                  *)
THEOREM ReviewsStayHonest == ReviewSpec => []ReviewHonest
<1>1. ReviewInit => ReviewInv
  BY ReviewInitInv
<1>2. ReviewInv /\ [ReviewNext]_reviewVars => ReviewInv'
  BY ReviewNextKeeps
<1>3. ReviewInv => ReviewHonest
  BY DEF ReviewInv
<1> QED
  BY <1>1, <1>2, <1>3, PTL DEF ReviewSpec
-------------------------------------------------------------------------------
(* DriftPlan.  A comparison keeps what it has read, and what it has read   *)
(* of a resource is what was there at some moment since it began.          *)

Versioned == [Resources -> Seq(1..MaxDigest)]
Planned == UNION {[S -> {"create", "update", "remote-only", "no-change"}] : S \in SUBSET Resources}
Entered ==
  UNION {[S -> Seq({"IN_SYNC", "LOCAL_ONLY", "CLUSTER_ONLY", "DRIFT"})] : S \in SUBSET Resources}

Reading == {"plan", "baseline", "filters", "changes", "report"}
Comparisons ==
  [pc : {"idle", "working", "deployed", "ended"} \cup Reading, kind : {"none", "plan", "drift"},
   ref : Nat, base : Snapshots, work : Snapshots, remote : Versioned, comparable : BOOLEAN,
   dirty : BOOLEAN, failed : BOOLEAN, status : {"none", "ready", "unknown", "refused"},
   code : {0, 1, 2}, actions : Planned, unknown : SUBSET Resources, entries : Entered,
   left : SUBSET Resources]
Histories == [trees : SUBSET Snapshots, clusters : SUBSET Versioned, moved : SUBSET Resources]

DriftTyped ==
  /\ tree \in Snapshots /\ commits \in Seq(Snapshots) /\ cluster \in Versioned
  /\ comparison \in Comparisons
  /\ history \in Histories
  /\ comparison.status = "ready" => comparison.comparable /\ unsupported = {}
  /\ comparison.pc # "ended" => comparison.status = "none"

(* What was read of the project, and of the cluster, was there.            *)
WorkRead ==
  \A r \in Resources :
    (/\ comparison.pc = "working" => r \notin comparison.left
     /\ comparison.pc \in {"working", "deployed"} \cup Reading)
      => r \in history.moved \/ \E t \in history.trees : comparison.work[r] = t[r]

RemoteRead ==
  \A r \in Resources :
    (/\ comparison.pc = "deployed" => r \notin comparison.left
     /\ comparison.pc \in {"deployed"} \cup Reading)
      => \E v \in history.clusters : comparison.remote[r] = v[r]

ReadSoFar ==
  LET c == comparison
  IN  /\ c.pc # "idle" =>
           /\ c.kind \in {"plan", "drift"} /\ c.ref \in DOMAIN commits
           /\ tree \in history.trees /\ cluster \in history.clusters
      /\ WorkRead /\ RemoteRead
      /\ c.pc \in Reading => (c.pc = "plan" <=> c.kind = "plan")
      /\ c.pc \in {"filters", "changes", "report"} =>
           c.base = commits[c.ref] /\ ~inspectFilterRisk(repository.lines)
      /\ c.pc \in {"changes", "report"} => repository.effective # "set"

DriftInv == DriftTyped /\ ReadSoFar /\ ExitTruthful

LEMMA LatestTyped ==
  ASSUME NEW v \in Versioned
  PROVE  indexDeployed(v) \in Snapshots
<1>1. MaxDigest \in Nat
  BY DriftAssumption
<1>2. ASSUME NEW r \in Resources
      PROVE  (IF v[r] = <<>> THEN 0 ELSE v[r][Len(v[r])]) \in 0..MaxDigest
  <2>1. v[r] \in Seq(1..MaxDigest)
    BY DEF Versioned
  <2>2. CASE v[r] = <<>>
    BY <1>1, <2>2
  <2>3. CASE v[r] # <<>>
    <3>1. Len(v[r]) \in 1..Len(v[r])
      BY <2>1, <2>3, EmptySeq
    <3>2. v[r][Len(v[r])] \in 1..MaxDigest
      BY <2>1, <3>1, ElementOfSeq
    <3> QED
      BY <1>1, <2>3, <3>2
  <2> QED
    BY <2>2, <2>3
<1> QED
  BY <1>2 DEF indexDeployed, Snapshots

(* A plan says what the two snapshots say.                                 *)
PlanTells(p, local, remote, unknownKinds, comparable) ==
  /\ p.status \in {"ready", "unknown", "refused"} /\ p.code \in {0, 1, 2}
  /\ p.actions \in Planned /\ p.unknown \in SUBSET Resources
  /\ p.status = "ready" <=> comparable /\ unknownKinds = {}
  /\ p.status = "unknown" <=> comparable /\ unknownKinds # {}
  /\ p.code # 2 => comparable /\ unknownKinds = {}
  /\ p.code = 0 => \A r \in Resources : local[r] # 0 => local[r] = remote[r]
  /\ p.code = 1 => \E r \in Resources : local[r] # 0 /\ local[r] # remote[r]

LEMMA BuildTells ==
  ASSUME NEW local \in Snapshots, NEW v \in Versioned, NEW unknownKinds,
         NEW comparable \in BOOLEAN
  PROVE  PlanTells(Build(local, v, unknownKinds, comparable), local, indexDeployed(v),
                   unknownKinds, comparable)
<1> DEFINE remote == indexDeployed(v)
           actions == [r \in Compared(local, remote, unknownKinds) |-> Action(local[r], remote[r])]
           undone == {r \in Resources : KindOf[r] \in unknownKinds /\ local[r] # 0}
           todo == \E r \in DOMAIN actions : actions[r] \in {"create", "update"}
           outcome(status, code) == [status |-> status, code |-> code, actions |-> actions,
                                     unknown |-> undone]
           p == Build(local, v, unknownKinds, comparable)
<1>1. Compared(local, remote, unknownKinds) \in SUBSET Resources
  BY DEF Compared
<1>2. \A r \in Resources : Action(local[r], remote[r]) \in {"create", "update", "remote-only", "no-change"}
  BY DEF Action
<1>3. actions \in Planned
  BY <1>1, <1>2 DEF Planned
<1>4. [r \in {} |-> ""] \in Planned
  <2>1. [r \in {} |-> ""] \in [{} -> {"create", "update", "remote-only", "no-change"}]
    OBVIOUS
  <2> QED
    BY <2>1 DEF Planned
<1>5. p = CASE ~comparable -> [outcome("refused", 2) EXCEPT !.actions = [r \in {} |-> ""],
                                                         !.unknown = {}]
            [] comparable /\ unknownKinds # {} -> outcome("unknown", 2)
            [] OTHER -> outcome("ready", IF todo THEN 1 ELSE 0)
  BY DEF Build
<1>6. DOMAIN actions = Compared(local, remote, unknownKinds)
  OBVIOUS
<1>7. \A r \in DOMAIN actions : actions[r] = Action(local[r], remote[r])
  OBVIOUS
<1>8. undone \in SUBSET Resources
  OBVIOUS
<1>9. unknownKinds = {} /\ ~todo =>
        \A r \in Resources : local[r] # 0 => local[r] = remote[r]
  <2> SUFFICES ASSUME unknownKinds = {}, ~todo, NEW r \in Resources, local[r] # 0
               PROVE  local[r] = remote[r]
    OBVIOUS
  <2>1. r \in DOMAIN actions
    BY <1>6 DEF Compared
  <2>2. Action(local[r], remote[r]) \notin {"create", "update"}
    BY <1>7, <2>1
  <2> HIDE DEF remote
  <2> QED
    BY <2>2 DEF Action
<1>10. todo => \E r \in Resources : local[r] # 0 /\ local[r] # remote[r]
  <2> SUFFICES ASSUME todo PROVE \E r \in Resources : local[r] # 0 /\ local[r] # remote[r]
    OBVIOUS
  <2>1. PICK r \in DOMAIN actions : actions[r] \in {"create", "update"}
    OBVIOUS
  <2>2. /\ r \in Resources
        /\ local[r] # 0 \/ remote[r] # 0
        /\ Action(local[r], remote[r]) \in {"create", "update"}
    BY <1>6, <1>7, <2>1 DEF Compared
  <2> HIDE DEF remote
  <2>3. local[r] # 0 /\ local[r] # remote[r]
    BY <2>2 DEF Action
  <2>4. r \in Resources
    BY <2>2
  <2> QED
    BY <2>3, <2>4
<1> HIDE DEF actions, undone, todo, remote
<1>11. CASE ~comparable
  BY <1>4, <1>5, <1>11 DEF PlanTells
<1>12. CASE comparable /\ unknownKinds # {}
  BY <1>3, <1>5, <1>8, <1>12 DEF PlanTells
<1>13. CASE comparable /\ unknownKinds = {}
  <2>1. p = outcome("ready", IF todo THEN 1 ELSE 0)
    BY <1>5, <1>13
  <2>2. /\ p.status = "ready" /\ p.code = (IF todo THEN 1 ELSE 0)
        /\ p.actions = actions /\ p.unknown = undone
    BY <2>1
  <2> HIDE DEF p
  <2>3. ASSUME todo PROVE PlanTells(p, local, remote, unknownKinds, comparable)
    <3>1. p.code = 1
      BY <2>2, <2>3
    <3> QED
      BY <1>3, <1>8, <1>10, <1>13, <2>2, <2>3, <3>1 DEF PlanTells
  <2>4. ASSUME ~todo PROVE PlanTells(p, local, remote, unknownKinds, comparable)
    <3>1. p.code = 0
      BY <2>2, <2>4
    <3> QED
      BY <1>3, <1>8, <1>9, <1>13, <2>2, <2>4, <3>1 DEF PlanTells
  <2> QED
    BY <2>3, <2>4 DEF p, remote
<1> QED
  BY <1>11, <1>12, <1>13 DEF remote, p

(* Before a comparison nothing is read or said.                            *)
LEMMA DriftInitInv == DriftInit => DriftInv
<1> SUFFICES ASSUME DriftInit PROVE DriftInv
  OBVIOUS
<1>1. tree \in Snapshots /\ commits = <<tree>> /\ cluster \in Versioned
  BY DriftAssumption DEF DriftInit, Versioned
<1>2. commits \in Seq(Snapshots)
  BY <1>1
<1>3. [r \in {} |-> ""] \in Planned /\ [r \in {} |-> ""] \in Entered
  <2>1. [r \in {} |-> ""] \in [{} -> {"create", "update", "remote-only", "no-change"}]
    OBVIOUS
  <2>2. [r \in {} |-> ""] \in [{} -> Seq({"IN_SYNC", "LOCAL_ONLY", "CLUSTER_ONLY", "DRIFT"})]
    OBVIOUS
  <2> QED
    BY <2>1, <2>2 DEF Planned, Entered
<1>4. comparison \in Comparisons /\ comparison.pc = "idle" /\ comparison.status = "none"
  BY <1>1, <1>3 DEF DriftInit, Comparisons
<1>5. history \in Histories
  BY DEF DriftInit, Histories
<1>6. WorkRead /\ RemoteRead
  BY <1>4 DEF WorkRead, RemoteRead, Reading
<1> QED
  BY <1>1, <1>2, <1>4, <1>5, <1>6 DEF DriftInv, DriftTyped, ReadSoFar, ExitTruthful, CAt, Reading

(* Where a comparison that goes on or stops gets to.                       *)
LEMMA ToTyped ==
  ASSUME DriftTyped, NEW pc \in {"idle", "working", "deployed", "ended"} \cup Reading
  PROVE  /\ To(pc) \in Comparisons /\ To(pc).pc = pc
         /\ \A f \in DOMAIN comparison \ {"pc"} : To(pc)[f] = comparison[f]
BY DEF DriftTyped, Comparisons, To

LEMMA StopTyped ==
  ASSUME DriftTyped, NEW status \in {"unknown", "refused"}, NEW failed \in BOOLEAN
  PROVE  LET c == Stop(status, failed)
         IN  c \in Comparisons /\ c.pc = "ended" /\ c.status = status /\ c.code = 2
BY DEF DriftTyped, Comparisons, Stop

(* A comparison that stops says nothing.                                   *)
LEMMA StopKeeps ==
  ASSUME DriftInv, Rest, NEW status \in {"unknown", "refused"}, NEW failed \in BOOLEAN,
         comparison.pc # "idle", comparison' = Stop(status, failed)
  PROVE  DriftInv'
<1>1. DriftTyped /\ ReadSoFar
  BY DEF DriftInv
<1>2. /\ comparison' \in Comparisons /\ comparison'.pc = "ended" /\ comparison'.status = status
      /\ comparison'.code = 2
      /\ comparison'.kind = comparison.kind /\ comparison'.ref = comparison.ref
  <2>1. comparison.kind = Stop(status, failed).kind /\ comparison.ref = Stop(status, failed).ref
    BY <1>1 DEF DriftTyped, Comparisons, Stop
  <2> QED
    BY <1>1, <2>1, StopTyped
<1>3. DriftTyped'
  BY <1>1, <1>2 DEF DriftTyped, Rest
<1>4. ReadSoFar'
  BY <1>1, <1>2 DEF ReadSoFar, Rest, Reading, WorkRead, RemoteRead
<1>5. ExitTruthful'
  BY <1>2 DEF ExitTruthful
<1> QED
  BY <1>3, <1>4, <1>5 DEF DriftInv

(* A user changes nothing a comparison has read.                           *)
LEMMA UserKeeps == ASSUME DriftInv, UserDoes PROVE DriftInv'
<1>1. /\ DriftTyped /\ ReadSoFar /\ comparison.pc # "ended"
      /\ UNCHANGED <<repository, unsupported, comparison>>
  BY DEF DriftInv, UserDoes, CAt
<1>2. PICK moved \in SUBSET Resources :
        /\ \/ /\ \E r \in Resources, d \in 0..MaxDigest : tree' = [tree EXCEPT ![r] = d]
              /\ UNCHANGED <<commits, cluster>>
           \/ UNCHANGED <<tree, commits, cluster>>
           \/ commits' = Append(commits, tree) /\ UNCHANGED <<tree, cluster>>
           \/ /\ \E r \in Resources :
                   /\ tree[r] \notin {0, indexDeployed(cluster)[r]}
                   /\ cluster' = [cluster EXCEPT ![r] = Append(@, tree[r])]
              /\ UNCHANGED <<tree, commits>>
        /\ history' = IF CAt("idle") THEN history
                      ELSE [trees |-> history.trees \cup {tree'},
                            clusters |-> history.clusters \cup {cluster'},
                            moved |-> history.moved \cup moved]
  BY DEF UserDoes
<1>3. /\ tree' \in Snapshots /\ cluster' \in Versioned /\ commits' \in Seq(Snapshots)
      /\ \A i \in DOMAIN commits : i \in DOMAIN commits' /\ commits'[i] = commits[i]
  <2>1. CASE /\ \E r \in Resources, d \in 0..MaxDigest : tree' = [tree EXCEPT ![r] = d]
             /\ UNCHANGED <<commits, cluster>>
    BY <1>1, <2>1 DEF DriftTyped, Snapshots
  <2>2. CASE commits' = Append(commits, tree) /\ UNCHANGED <<tree, cluster>>
    BY <1>1, <2>2, AppendProperties DEF DriftTyped
  <2>3. CASE /\ \E r \in Resources :
                   /\ tree[r] \notin {0, indexDeployed(cluster)[r]}
                   /\ cluster' = [cluster EXCEPT ![r] = Append(@, tree[r])]
             /\ UNCHANGED <<tree, commits>>
    <3>1. PICK r \in Resources :
            /\ tree[r] \notin {0, indexDeployed(cluster)[r]}
            /\ cluster' = [cluster EXCEPT ![r] = Append(@, tree[r])]
      BY <2>3
    <3>2. tree[r] \in 1..MaxDigest
      BY <1>1, <3>1, DriftAssumption DEF DriftTyped, Snapshots
    <3>3. Append(cluster[r], tree[r]) \in Seq(1..MaxDigest)
      BY <1>1, <3>2, AppendProperties DEF DriftTyped, Versioned
    <3>4. cluster' \in Versioned
      BY <1>1, <3>1, <3>3 DEF DriftTyped, Versioned
    <3> QED
      BY <1>1, <2>3, <3>4 DEF DriftTyped
  <2>4. CASE UNCHANGED <<tree, commits, cluster>>
    BY <1>1, <2>4 DEF DriftTyped
  <2> QED
    BY <1>2, <2>1, <2>2, <2>3, <2>4
<1>4. /\ history' \in Histories
      /\ history.trees \subseteq history'.trees /\ history.clusters \subseteq history'.clusters
      /\ history.moved \subseteq history'.moved
      /\ comparison.pc # "idle" => tree' \in history'.trees /\ cluster' \in history'.clusters
  BY <1>1, <1>2, <1>3 DEF DriftTyped, CAt, Histories
<1>5. DriftTyped'
  BY <1>1, <1>3, <1>4 DEF DriftTyped
<1>6. WorkRead' /\ RemoteRead'
  BY <1>1, <1>4 DEF ReadSoFar, WorkRead, RemoteRead
<1>7. ReadSoFar'
  BY <1>1, <1>3, <1>4, <1>6 DEF ReadSoFar, Reading
<1> QED
  BY <1>1, <1>5, <1>7 DEF DriftInv, ExitTruthful, CAt

(* A comparison that goes on has read what it says it has.                 *)
LEMMA BeginKeeps ==
  ASSUME DriftInv, NEW kind \in {"plan", "drift"}, NEW ref, BeginComparison(kind, ref)
  PROVE  DriftInv'
<1>1. /\ DriftTyped /\ ReadSoFar /\ ref \in DOMAIN commits /\ comparison.pc = "idle"
      /\ comparison' = [comparison EXCEPT !.pc = "working", !.kind = kind, !.ref = ref,
                                           !.left = Resources]
      /\ history' = [trees |-> {tree}, clusters |-> {cluster}, moved |-> {}]
      /\ UNCHANGED <<tree, commits, cluster, repository, unsupported>>
  BY DEF DriftInv, BeginComparison, CAt
<1>2. ref \in Nat
  BY <1>1 DEF DriftTyped
<1>3. /\ comparison' \in Comparisons /\ comparison'.pc = "working" /\ comparison'.kind = kind
      /\ comparison'.ref = ref /\ comparison'.status = comparison.status
      /\ comparison'.comparable = comparison.comparable /\ comparison'.left = Resources
  BY <1>1, <1>2 DEF DriftTyped, Comparisons
<1>4. DriftTyped'
  BY <1>1, <1>3 DEF DriftTyped, Histories
<1>5. WorkRead' /\ RemoteRead'
  BY <1>3 DEF WorkRead, RemoteRead, Reading
<1> QED
  BY <1>1, <1>3, <1>4, <1>5 DEF DriftInv, ReadSoFar, ExitTruthful, CAt, Reading

(* The steps that read a resource of the project, or of the cluster.       *)
LEMMA ReadingKeeps == ASSUME DriftInv, ReadWorking \/ ReadDeployed PROVE DriftInv'
<1>1. DriftTyped /\ ReadSoFar /\ Rest
  BY DEF DriftInv, ReadWorking, ReadDeployed
<1>2. CASE \E status \in {"unknown", "refused"} : comparison' = Stop(status, TRUE)
  BY <1>1, <1>2, StopKeeps DEF ReadWorking, ReadDeployed, CAt
<1>3. ASSUME CAt("working"), NEW r \in comparison.left,
             NEW d \in {tree[r]} \cup (IF r \in history.moved THEN {0} ELSE {}),
             comparison' = [comparison EXCEPT !.work[r] = d, !.left = @ \ {r}]
      PROVE  DriftInv'
  <2>1. r \in Resources /\ tree[r] \in 0..MaxDigest /\ d \in 0..MaxDigest
    BY <1>1, <1>3, DriftAssumption DEF DriftTyped, Comparisons, Snapshots
  <2>2. [comparison.work EXCEPT ![r] = d] \in Snapshots
    BY <1>1, <2>1 DEF DriftTyped, Comparisons, Snapshots
  <2>3. /\ comparison' \in Comparisons /\ comparison'.pc = "working"
        /\ comparison'.work = [comparison.work EXCEPT ![r] = d]
        /\ comparison'.left = comparison.left \ {r}
        /\ comparison'.kind = comparison.kind /\ comparison'.ref = comparison.ref
        /\ comparison'.status = comparison.status
        /\ comparison'.comparable = comparison.comparable
    BY <1>1, <1>3, <2>1, <2>2 DEF DriftTyped, Comparisons, CAt
  <2>4. DriftTyped'
    BY <1>1, <1>3, <2>3 DEF DriftTyped, Rest, CAt
  <2>5. WorkRead'
    <3> SUFFICES ASSUME NEW q \in Resources, q \notin comparison'.left
                 PROVE  q \in history.moved \/ \E t \in history.trees : comparison'.work[q] = t[q]
      BY <1>1, <2>3 DEF WorkRead, Rest
    <3>1. CASE q = r
      BY <1>1, <1>3, <2>1, <2>3, <3>1 DEF ReadSoFar, CAt, DriftTyped, Comparisons, Snapshots
    <3>2. CASE q # r
      BY <1>1, <1>3, <2>3, <3>2 DEF ReadSoFar, WorkRead, CAt, DriftTyped, Comparisons, Snapshots
    <3> QED
      BY <3>1, <3>2
  <2>6. RemoteRead'
    BY <2>3 DEF RemoteRead, Reading
  <2>7. ReadSoFar'
    BY <1>1, <1>3, <2>3, <2>5, <2>6 DEF ReadSoFar, CAt, Rest, Reading
  <2> QED
    BY <2>3, <2>4, <2>7 DEF DriftInv, ExitTruthful, CAt
<1>4. CASE /\ CAt("working") /\ comparison.left = {}
           /\ comparison' = [To("deployed") EXCEPT !.left = Resources]
  <2>1. /\ comparison' \in Comparisons /\ comparison'.pc = "deployed"
        /\ comparison'.left = Resources /\ comparison'.work = comparison.work
        /\ comparison'.kind = comparison.kind
        /\ comparison'.ref = comparison.ref /\ comparison'.status = comparison.status
        /\ comparison'.comparable = comparison.comparable
    BY <1>1, <1>4 DEF To, DriftTyped, Comparisons
  <2>2. DriftTyped'
    BY <1>1, <1>4, <2>1 DEF DriftTyped, Rest, CAt
  <2>3. WorkRead' /\ RemoteRead'
    BY <1>1, <1>4, <2>1 DEF ReadSoFar, WorkRead, RemoteRead, CAt, Rest, Reading
  <2>4. ReadSoFar'
    BY <1>1, <1>4, <2>1, <2>3 DEF ReadSoFar, CAt, Rest, Reading
  <2> QED
    BY <2>1, <2>2, <2>4 DEF DriftInv, ExitTruthful, CAt
<1>5. ASSUME CAt("deployed"), NEW r \in comparison.left,
             comparison' = [comparison EXCEPT !.remote[r] = cluster[r], !.left = @ \ {r}]
      PROVE  DriftInv'
  <2>1. r \in Resources /\ cluster[r] \in Seq(1..MaxDigest)
    BY <1>1, <1>5 DEF DriftTyped, Comparisons, Versioned
  <2>2. [comparison.remote EXCEPT ![r] = cluster[r]] \in Versioned
    BY <1>1, <2>1 DEF DriftTyped, Comparisons, Versioned
  <2>3. /\ comparison' \in Comparisons /\ comparison'.pc = "deployed"
        /\ comparison'.remote = [comparison.remote EXCEPT ![r] = cluster[r]]
        /\ comparison'.left = comparison.left \ {r} /\ comparison'.work = comparison.work
        /\ comparison'.kind = comparison.kind /\ comparison'.ref = comparison.ref
        /\ comparison'.status = comparison.status
        /\ comparison'.comparable = comparison.comparable
    BY <1>1, <1>5, <2>1, <2>2 DEF DriftTyped, Comparisons, CAt
  <2>4. DriftTyped'
    BY <1>1, <1>5, <2>3 DEF DriftTyped, Rest, CAt
  <2>5. RemoteRead'
    <3> SUFFICES ASSUME NEW q \in Resources, q \notin comparison'.left
                 PROVE  \E v \in history.clusters : comparison'.remote[q] = v[q]
      BY <1>1, <2>3 DEF RemoteRead, Rest
    <3>1. CASE q = r
      BY <1>1, <1>5, <2>1, <2>3, <3>1 DEF ReadSoFar, CAt, DriftTyped, Comparisons, Versioned
    <3>2. CASE q # r
      BY <1>1, <1>5, <2>3, <3>2 DEF ReadSoFar, RemoteRead, CAt, DriftTyped, Comparisons, Versioned
    <3> QED
      BY <3>1, <3>2
  <2>6. WorkRead'
    BY <1>1, <1>5, <2>3 DEF ReadSoFar, WorkRead, CAt, Rest, Reading
  <2>7. ReadSoFar'
    BY <1>1, <1>5, <2>3, <2>5, <2>6 DEF ReadSoFar, CAt, Rest, Reading
  <2> QED
    BY <2>3, <2>4, <2>7 DEF DriftInv, ExitTruthful, CAt
<1>6. ASSUME CAt("deployed"), comparison.left = {}, NEW comparable \in BOOLEAN,
             comparison' = [To(IF comparison.kind = "plan" THEN "plan" ELSE "baseline")
                              EXCEPT !.comparable = comparable]
      PROVE  DriftInv'
  <2>1. /\ comparison' \in Comparisons
        /\ comparison'.pc = IF comparison.kind = "plan" THEN "plan" ELSE "baseline"
        /\ comparison'.work = comparison.work /\ comparison'.kind = comparison.kind
        /\ comparison'.ref = comparison.ref /\ comparison'.status = comparison.status
        /\ comparison'.remote = comparison.remote
    BY <1>1, <1>6 DEF To, DriftTyped, Comparisons, Reading
  <2>2. DriftTyped'
    BY <1>1, <1>6, <2>1 DEF DriftTyped, Rest, ReadSoFar, CAt
  <2>3. WorkRead' /\ RemoteRead'
    BY <1>1, <1>6, <2>1 DEF ReadSoFar, WorkRead, RemoteRead, CAt, Rest, Reading
  <2>4. ReadSoFar'
    BY <1>1, <1>6, <2>1, <2>3 DEF ReadSoFar, CAt, Rest, Reading
  <2> QED
    BY <2>1, <2>2, <2>4 DEF DriftInv, ExitTruthful, CAt
<1> QED
  BY <1>2, <1>3, <1>4, <1>5, <1>6 DEF ReadWorking, ReadDeployed

LEMMA GatherKeeps ==
  ASSUME DriftInv,
         buildBaselineInventory \/ inspectEffectiveWorkingFilter \/ workingChanges
  PROVE  DriftInv'
<1>1. DriftTyped /\ ReadSoFar /\ Rest
  BY DEF DriftInv, buildBaselineInventory, inspectEffectiveWorkingFilter, workingChanges
<1>2. CASE \E status \in {"unknown", "refused"} : comparison' = Stop(status, TRUE)
  BY <1>1, <1>2, StopKeeps DEF buildBaselineInventory, inspectEffectiveWorkingFilter,
     workingChanges, CAt
<1>3. CASE /\ CAt("baseline") /\ ~inspectFilterRisk(repository.lines)
           /\ comparison' = [To("filters") EXCEPT !.base = commits[comparison.ref]]
  <2>1. commits[comparison.ref] \in Snapshots
    BY <1>1, <1>3, ElementOfSeq DEF ReadSoFar, DriftTyped, CAt
  <2>2. /\ comparison' \in Comparisons /\ comparison'.pc = "filters"
        /\ comparison'.base = commits[comparison.ref]
        /\ comparison'.work = comparison.work /\ comparison'.kind = comparison.kind
        /\ comparison'.ref = comparison.ref /\ comparison'.status = comparison.status
        /\ comparison'.remote = comparison.remote
        /\ comparison'.comparable = comparison.comparable
    BY <1>1, <1>3, <2>1 DEF To, DriftTyped, Comparisons, Reading
  <2>3. DriftTyped'
    BY <1>1, <1>3, <2>2 DEF DriftTyped, Rest, CAt
  <2>4. ReadSoFar'
    BY <1>1, <1>3, <2>2 DEF ReadSoFar, WorkRead, RemoteRead, CAt, Rest, Reading
  <2> QED
    BY <2>2, <2>3, <2>4 DEF DriftInv, ExitTruthful, CAt
<1>4. CASE CAt("filters") /\ comparison' = To("changes") /\ repository.effective # "set"
  <2>1. /\ comparison' \in Comparisons /\ comparison'.pc = "changes"
        /\ \A f \in {"kind", "ref", "base", "work", "remote", "comparable", "status"} :
             comparison'[f] = comparison[f]
    BY <1>1, <1>4, ToTyped DEF DriftTyped, Comparisons, Reading
  <2>2. DriftTyped'
    BY <1>1, <1>4, <2>1 DEF DriftTyped, Rest, CAt
  <2>3. ReadSoFar'
    BY <1>1, <1>4, <2>1 DEF ReadSoFar, WorkRead, RemoteRead, CAt, Rest, Reading
  <2> QED
    BY <2>1, <2>2, <2>3 DEF DriftInv, ExitTruthful, CAt
<1>5. CASE /\ CAt("changes")
           /\ comparison' = [To("report") EXCEPT !.dirty = tree # commits[Len(commits)]]
  <2>1. /\ comparison' \in Comparisons /\ comparison'.pc = "report"
        /\ comparison'.base = comparison.base
        /\ comparison'.work = comparison.work /\ comparison'.kind = comparison.kind
        /\ comparison'.ref = comparison.ref /\ comparison'.status = comparison.status
        /\ comparison'.remote = comparison.remote
        /\ comparison'.comparable = comparison.comparable
    BY <1>1, <1>5 DEF To, DriftTyped, Comparisons, Reading
  <2>2. DriftTyped'
    BY <1>1, <1>5, <2>1 DEF DriftTyped, Rest, CAt
  <2>3. ReadSoFar'
    BY <1>1, <1>5, <2>1 DEF ReadSoFar, WorkRead, RemoteRead, CAt, Rest, Reading
  <2> QED
    BY <2>1, <2>2, <2>3 DEF DriftInv, ExitTruthful, CAt
<1> QED
  BY <1>2, <1>3, <1>4, <1>5
  DEF buildBaselineInventory, inspectEffectiveWorkingFilter, workingChanges

(* What was read of a resource agrees.                                     *)
ReadAgrees(r) ==
  Agrees(comparison.kind, commits[comparison.ref], comparison.work, comparison.remote, r)

(* What is said of what was read is so of what was there.                  *)
LEMMA ReadIsTold ==
  ASSUME DriftTyped, ReadSoFar, Rest, comparison.pc \in Reading,
         comparison'.kind = comparison.kind, comparison'.ref = comparison.ref,
         comparison'.code = 0 =>
           /\ unsupported = {} /\ \A r \in Resources : ReadAgrees(r)
           /\ comparison'.kind = "drift" =>
                ~ActiveFilter(repository.lines) /\ repository.effective # "set",
         comparison'.code = 1 => \E r \in Resources : ~ReadAgrees(r)
  PROVE  ExitTruthful'
<1> DEFINE Some(r, agrees) == \E t \in history.trees, v \in history.clusters :
             Agrees(comparison.kind, commits[comparison.ref], t, v, r) = agrees
<1>1. ASSUME NEW r \in Resources \ history.moved
      PROVE  Some(r, TRUE) \/ ~ReadAgrees(r)
  <2>1. PICK t \in history.trees : comparison.work[r] = t[r]
    BY <1>1 DEF ReadSoFar, WorkRead, Reading
  <2>2. PICK v \in history.clusters : comparison.remote[r] = v[r]
    BY <1>1 DEF ReadSoFar, RemoteRead, Reading
  <2> QED
    BY <2>1, <2>2 DEF ReadAgrees, Agrees
<1>2. ASSUME NEW r \in Resources \ history.moved
      PROVE  Some(r, FALSE) \/ ReadAgrees(r)
  <2>1. PICK t \in history.trees : comparison.work[r] = t[r]
    BY <1>2 DEF ReadSoFar, WorkRead, Reading
  <2>2. PICK v \in history.clusters : comparison.remote[r] = v[r]
    BY <1>2 DEF ReadSoFar, RemoteRead, Reading
  <2> QED
    BY <2>1, <2>2 DEF ReadAgrees, Agrees
<1>3. \A r : Some(r, TRUE)' = Some(r, TRUE) /\ Some(r, FALSE)' = Some(r, FALSE)
  BY DEF Rest
<1>4. UNCHANGED <<unsupported, repository, history>>
  BY DEF Rest
<1> HIDE DEF Some
<1>5. comparison'.code = 0 => \A r \in Resources \ history'.moved : Some(r, TRUE)'
  BY <1>1, <1>3, <1>4
<1>6. comparison'.code = 1 => \E r \in Resources : r \in history'.moved \/ Some(r, FALSE)'
  BY <1>2, <1>3, <1>4
<1> QED
  BY <1>4, <1>5, <1>6 DEF ExitTruthful, Some

(* A plan that is ready compares every resource of the project.            *)
LEMMA PlanKeeps == ASSUME DriftInv, BuildResolved PROVE DriftInv'
<1> DEFINE c == comparison
           p == Build(c.work, c.remote, unsupported, c.comparable)
           remote == indexDeployed(c.remote)
<1>1. /\ DriftTyped /\ ReadSoFar /\ Rest /\ c.pc = "plan"
      /\ c' = [To("ended") EXCEPT !.status = p.status, !.code = p.code, !.actions = p.actions,
                                  !.unknown = p.unknown, !.failed = ~c.comparable]
  BY DEF DriftInv, BuildResolved, CAt
<1>2. PlanTells(p, c.work, remote, unsupported, c.comparable)
  <2>1. c.work \in Snapshots /\ c.remote \in Versioned /\ c.comparable \in BOOLEAN
    BY <1>1 DEF DriftTyped, Comparisons
  <2> QED
    BY <2>1, BuildTells
<1> HIDE DEF p
<1>3. /\ c' \in Comparisons /\ c'.pc = "ended" /\ c'.status = p.status /\ c'.code = p.code
      /\ c'.comparable = c.comparable /\ c'.kind = c.kind /\ c'.ref = c.ref
      /\ c'.work = c.work /\ c'.remote = c.remote
  BY <1>1, <1>2 DEF To, DriftTyped, Comparisons, PlanTells
<1>4. DriftTyped'
  BY <1>1, <1>2, <1>3 DEF DriftTyped, Rest, PlanTells
<1>5. ReadSoFar'
  BY <1>1, <1>3 DEF ReadSoFar, WorkRead, RemoteRead, Rest, Reading
<1>6. c.kind = "plan"
  BY <1>1 DEF ReadSoFar, Reading
<1>7. \A r \in Resources :
        Agrees("plan", commits[c.ref], c.work, c.remote, r) <=> (c.work[r] # 0 => c.work[r] = remote[r])
  BY DEF Agrees, indexDeployed
<1>8. ExitTruthful'
  <2> HIDE DEF remote
  <2>1. /\ c'.code = 0 => unsupported = {} /\ \A r \in Resources : ReadAgrees(r)
        /\ c'.code = 1 => \E r \in Resources : ~ReadAgrees(r)
    BY <1>2, <1>3, <1>6, <1>7 DEF PlanTells, ReadAgrees
  <2>2. c'.kind # "drift"
    BY <1>3, <1>6
  <2> QED
    BY <1>1, <1>3, <2>1, <2>2, ReadIsTold DEF Rest, Reading
<1> QED
  BY <1>4, <1>5, <1>8 DEF DriftInv

(* So does a drift, of the three snapshots.                                *)
LEMMA ReportKeeps == ASSUME DriftInv, buildThreeWayReport PROVE DriftInv'
<1> DEFINE c == comparison
           remote == indexDeployed(c.remote)
           ready == /\ c.comparable
                    /\ \A local \in {c.base, c.work} :
                         Build(local, c.remote, unsupported, c.comparable).status # "unknown"
           keys == {r \in Resources : c.base[r] # 0 \/ c.work[r] # 0 \/ remote[r] # 0}
           entries == [r \in keys |-> <<sourceStatus(c.base[r], c.work[r]),
                                        deploymentStatus(c.base[r], remote[r]),
                                        deploymentStatus(c.work[r], remote[r])>>]
           HasDrift == \E r \in keys : \E i \in 1..3 : entries[r][i] # "IN_SYNC"
<1>1. /\ DriftTyped /\ ReadSoFar /\ Rest /\ c.pc = "report"
      /\ c' = IF ~ready THEN Stop("unknown", ~c.comparable)
              ELSE [To("ended") EXCEPT !.status = "ready", !.entries = entries,
                                       !.code = IF HasDrift THEN 1 ELSE 0]
  BY DEF DriftInv, buildThreeWayReport, CAt
<1>2. /\ c.work \in Snapshots /\ c.base \in Snapshots /\ c.remote \in Versioned
      /\ c.comparable \in BOOLEAN /\ remote \in Snapshots
  BY <1>1, LatestTyped DEF DriftTyped, Comparisons
<1>3. CASE ~ready
  BY <1>1, <1>3, StopKeeps
<1>4. CASE ready
  <2>1. unsupported = {} /\ c.comparable
    <3>1. PlanTells(Build(c.work, c.remote, unsupported, c.comparable), c.work, remote,
                    unsupported, c.comparable)
      BY <1>2, BuildTells
    <3> QED
      BY <1>4, <3>1 DEF PlanTells
  <2>2. entries \in Entered
    <3>1. keys \in SUBSET Resources
      OBVIOUS
    <3> DEFINE S == {"IN_SYNC", "LOCAL_ONLY", "CLUSTER_ONLY", "DRIFT"}
    <3>2. \A a, b : sourceStatus(a, b) \in S /\ deploymentStatus(a, b) \in S
      BY DEF sourceStatus, deploymentStatus
    <3>3. \A r \in keys : <<sourceStatus(c.base[r], c.work[r]),
                            deploymentStatus(c.base[r], remote[r]),
                            deploymentStatus(c.work[r], remote[r])>> \in Seq(S)
      BY <3>2
    <3>4. entries \in [keys -> Seq(S)]
      BY <3>3
    <3> HIDE DEF keys, entries
    <3> QED
      BY <3>1, <3>4 DEF Entered
  <2>3. /\ \A r \in keys : /\ entries[r][1] = sourceStatus(c.base[r], c.work[r])
                           /\ entries[r][2] = deploymentStatus(c.base[r], remote[r])
                           /\ entries[r][3] = deploymentStatus(c.work[r], remote[r])
    OBVIOUS
  <2> HIDE DEF entries
  <2>4. ~HasDrift => c.base = c.work /\ c.work = remote
    <3> SUFFICES ASSUME ~HasDrift PROVE c.base = c.work /\ c.work = remote
      OBVIOUS
    <3>1. ASSUME NEW r \in Resources PROVE c.base[r] = c.work[r] /\ c.work[r] = remote[r]
      <4>1. CASE r \in keys
        <5>1. /\ sourceStatus(c.base[r], c.work[r]) = "IN_SYNC"
              /\ deploymentStatus(c.work[r], remote[r]) = "IN_SYNC"
          BY <2>3, <4>1, 1 \in 1..3, 3 \in 1..3
        <5> HIDE DEF remote
        <5> QED
          BY <5>1 DEF sourceStatus, deploymentStatus
      <4>2. CASE r \notin keys
        BY <4>2
      <4> QED
        BY <4>1, <4>2
    <3> HIDE DEF remote, HasDrift
    <3>2. \A a, b \in Snapshots : (\A r \in Resources : a[r] = b[r]) => a = b
      BY DEF Snapshots
    <3> QED
      BY <1>2, <3>1, <3>2
  <2>5. HasDrift => ~(c.base = c.work /\ c.work = remote)
    <3> SUFFICES ASSUME HasDrift, c.base = c.work, c.work = remote PROVE FALSE
      OBVIOUS
    <3>1. PICK r \in keys : \E i \in 1..3 : entries[r][i] # "IN_SYNC"
      OBVIOUS
    <3>2. \/ sourceStatus(c.base[r], c.work[r]) # "IN_SYNC"
          \/ deploymentStatus(c.base[r], remote[r]) # "IN_SYNC"
          \/ deploymentStatus(c.work[r], remote[r]) # "IN_SYNC"
      <4>1. PICK i \in {1, 2, 3} : entries[r][i] # "IN_SYNC"
        BY <3>1
      <4> QED
        BY <2>3, <3>1, <4>1
    <3> HIDE DEF remote
    <3> QED
      BY <3>2 DEF sourceStatus, deploymentStatus
  <2> HIDE DEF entries, HasDrift, ready
  <2>6. /\ c' \in Comparisons /\ c'.pc = "ended" /\ c'.status = "ready"
        /\ c'.code = (IF HasDrift THEN 1 ELSE 0)
        /\ c'.comparable = c.comparable /\ c'.kind = c.kind /\ c'.ref = c.ref
        /\ c'.work = c.work /\ c'.remote = c.remote
    BY <1>1, <1>4, <2>2 DEF To, DriftTyped, Comparisons
  <2>7. DriftTyped'
    BY <1>1, <2>1, <2>6 DEF DriftTyped, Rest
  <2>8. ReadSoFar'
    BY <1>1, <2>6 DEF ReadSoFar, WorkRead, RemoteRead, Rest, Reading
  <2>9. /\ c.kind = "drift" /\ c.base = commits[c.ref]
        /\ ~inspectFilterRisk(repository.lines) /\ repository.effective # "set"
    BY <1>1 DEF ReadSoFar, Reading, DriftTyped, Comparisons
  <2>10. ~ActiveFilter(repository.lines)
    BY <2>9 DEF inspectFilterRisk
  <2>11. ExitTruthful'
    <3>1. \A r \in Resources :
            ReadAgrees(r) <=> c.work[r] = remote[r] /\ c.work[r] = c.base[r]
      BY <2>9 DEF ReadAgrees, Agrees, indexDeployed
    <3> HIDE DEF remote
    <3>2. (\A r \in Resources : ReadAgrees(r)) <=> c.base = c.work /\ c.work = remote
      BY <1>2, <3>1 DEF Snapshots
    <3>3. c'.code = 0 => \A r \in Resources : ReadAgrees(r)
      BY <2>4, <2>6, <3>2 DEF remote
    <3>4. c'.code = 1 => \E r \in Resources : ~ReadAgrees(r)
      BY <2>5, <2>6, <3>2 DEF remote
    <3> QED
      BY <1>1, <2>1, <2>6, <2>9, <2>10, <3>3, <3>4, ReadIsTold DEF Reading
  <2> QED
    BY <2>7, <2>8, <2>11 DEF DriftInv
<1> QED
  BY <1>3, <1>4

LEMMA DriftNextKeeps == ASSUME DriftInv, [DriftNext]_driftVars PROVE DriftInv'
<1>1. CASE UNCHANGED driftVars
  BY <1>1 DEF driftVars, DriftInv, DriftTyped, ReadSoFar, WorkRead, RemoteRead, ExitTruthful, CAt
<1>2. CASE \E kind \in {"plan", "drift"}, ref \in 1..(MaxSteps + 1) : BeginComparison(kind, ref)
  BY <1>2, BeginKeeps
<1>3. CASE DriftStep
  BY <1>3, ReadingKeeps, GatherKeeps, PlanKeeps, ReportKeeps DEF DriftStep
<1>4. CASE UserDoes
  BY <1>4, UserKeeps
<1> QED
  BY <1>1, <1>2, <1>3, <1>4 DEF DriftNext

(* The exit code of plan and drift says of each resource what was so at    *)
(* some moment of the run, whatever a user edits, moves, commits and       *)
(* deploys between the pieces that are read (Build of internal/plan,       *)
(* buildThreeWayReport of internal/drift).                                 *)
THEOREM ExitCodesStayTruthful == DriftSpec => []ExitTruthful
<1>1. DriftInit => DriftInv
  BY DriftInitInv
<1>2. DriftInv /\ [DriftNext]_driftVars => DriftInv'
  BY DriftNextKeeps
<1>3. DriftInv => ExitTruthful
  BY DEF DriftInv
<1> QED
  BY <1>1, <1>2, <1>3, PTL DEF DriftSpec
===============================================================================
