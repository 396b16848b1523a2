--------------------------- MODULE IncidentResolve ---------------------------
(***************************************************************************)
(* The incidents of a cluster (src/internal/incidents): Show reads one and *)
(* what surrounds it, ResolveWithOptions reads one, asks the cluster to    *)
(* resolve it and reads it again.  Several commands run at once, others    *)
(* work on the incident too, and any request may fail: it does not arrive, *)
(* or its answer does not.                                                 *)
(***************************************************************************)
EXTENDS Integers

CONSTANTS
  Commands,       \* the commands that run
  MaxFailures,    \* bound on the requests that fail
  Keyed,          \* the contexts an incident names by a key
  Gone            \* the state of an incident that is not there

ASSUME IncidentAssumption ==
  /\ MaxFailures \in Nat /\ Gone \notin {"ACTIVE", "RESOLVED", "PENDING"}
  /\ Keyed \subseteq {"process-instance", "element-instance", "process-definition"}

VARIABLES
  incident,   \* what the cluster has
  surround,   \* the context of the incident that can be read
  command,    \* the commands
  accepted,   \* history: whose resolution the cluster accepted
  failures

incidentVars == <<incident, surround, command, accepted, failures>>

States == {"ACTIVE", "RESOLVED", "PENDING", Gone}
-------------------------------------------------------------------------------
IncidentInit ==
  /\ incident \in States /\ surround = Keyed
  /\ command = [c \in Commands |-> [pc |-> "idle", dryRun |-> FALSE, state |-> "", read |-> {},
                                    warned |-> {}, kind |-> "none", mutated |-> FALSE]]
  /\ accepted = [c \in Commands |-> FALSE] /\ failures = 0

IAt(c, pc) == command[c].pc = pc
Ends(c, kind) == [c EXCEPT !.pc = "ended", !.kind = kind]
World == UNCHANGED <<incident, surround, accepted>>
Fail == failures < MaxFailures /\ failures' = failures + 1
Set(c, to) == command' = [command EXCEPT ![c] = to]

Begin(c, op, dryRun) ==
  /\ IAt(c, "idle")
  /\ Set(c, [command[c] EXCEPT !.pc = op, !.dryRun = dryRun])
  /\ UNCHANGED <<incident, surround, accepted, failures>>

(* ResolveWithOptions, until it asks: only an active incident is resolved. *)
Revalidate(c) ==
  /\ IAt(c, "resolve") /\ World
  /\ \/ Fail /\ Set(c, Ends(command[c], "error"))
     \/ /\ UNCHANGED failures
        /\ LET seen == [command[c] EXCEPT !.state = incident]
           IN  Set(c, CASE incident \in {Gone, "PENDING"} -> Ends(seen, "error")
                        [] incident = "RESOLVED" -> Ends(seen, "already-resolved")
                        [] incident = "ACTIVE" /\ command[c].dryRun -> Ends(seen, "dry-run")
                        [] OTHER -> [seen EXCEPT !.pc = "ask"])

(* The cluster resolves what is active and refuses the rest; a request may *)
(* be lost, and so may the answer to one that was accepted.                *)
ResolveIncident(c) ==
  /\ IAt(c, "ask")
  /\ \/ /\ incident = "ACTIVE" /\ incident' = "RESOLVED"
        /\ accepted' = [accepted EXCEPT ![c] = TRUE]
        /\ \/ /\ UNCHANGED failures
              /\ Set(c, [command[c] EXCEPT !.pc = "refresh", !.kind = "resolved", !.mutated = TRUE])
           \/ Fail /\ Set(c, Ends(command[c], "error"))
     \/ /\ incident # "ACTIVE" \/ failures < MaxFailures
        /\ failures' = IF incident = "ACTIVE" THEN failures + 1 ELSE failures
        /\ Set(c, Ends(command[c], "error"))
        /\ UNCHANGED <<incident, accepted>>
  /\ UNCHANGED surround

(* A mutant: what was read before the resolution stands for what it is now *)
(* when it cannot be read again.                                           *)
RefreshOrNot(c) ==
  /\ IAt(c, "refresh") /\ World
  /\ \/ Fail /\ Set(c, Ends(command[c], command[c].kind))
     \/ /\ UNCHANGED failures
        /\ LET seen == [command[c] EXCEPT !.state = incident]
           IN  Set(c, CASE incident = Gone -> Ends(command[c], command[c].kind)
                        [] incident = "ACTIVE" -> Ends(seen, "resolved-unverified")
                        [] OTHER -> Ends(seen, command[c].kind))

(* What the incident is after the resolution is read again; if it cannot   *)
(* be read, or is active still, the resolution is not verified.            *)
Refresh(c) ==
  /\ IAt(c, "refresh") /\ World
  /\ \/ Fail /\ Set(c, Ends([command[c] EXCEPT !.state = ""], "resolved-unverified"))
     \/ /\ UNCHANGED failures
        /\ LET seen == [command[c] EXCEPT !.state = incident]
           IN  Set(c, CASE incident = Gone ->
                             Ends([command[c] EXCEPT !.state = ""], "resolved-unverified")
                        [] incident = "ACTIVE" -> Ends(seen, "resolved-unverified")
                        [] OTHER -> Ends(seen, command[c].kind))

(* Show: the incident itself has to be there.                              *)
ShowIncident(c) ==
  /\ IAt(c, "show") /\ World
  /\ \/ Fail /\ Set(c, Ends(command[c], "error"))
     \/ /\ UNCHANGED failures
        /\ Set(c, IF incident = Gone THEN Ends(command[c], "error")
                  ELSE [command[c] EXCEPT !.pc = "enrich", !.state = incident])

(* Each of its contexts is read, and warned about when it cannot be or is  *)
(* not there; so is a link to Operate that cannot be made.                 *)
enrichIncident(c) ==
  /\ IAt(c, "enrich") /\ World
  /\ LET left == Keyed \ (command[c].read \cup command[c].warned)
         next == CHOOSE k \in Keyed : k \in left
     IN  IF left = {}
         THEN /\ UNCHANGED failures
              /\ \E linked \in BOOLEAN :
                   Set(c, Ends(command[c], IF linked /\ command[c].warned = {}
                                           THEN "complete" ELSE "partial"))
         ELSE \/ Fail /\ Set(c, [command[c] EXCEPT !.warned = @ \cup {next}])
              \/ /\ UNCHANGED failures
                 /\ Set(c, IF next \in surround
                           THEN [command[c] EXCEPT !.read = @ \cup {next}]
                           ELSE [command[c] EXCEPT !.warned = @ \cup {next}])

(* Others resolve the incident, it is active again when its job fails once *)
(* more, it goes with its instance, and so does what surrounds it.         *)
Elsewhere ==
  /\ \E c \in Commands : ~IAt(c, "idle") /\ ~IAt(c, "ended")
  /\ \/ /\ \/ incident = "ACTIVE" /\ incident' \in {"RESOLVED", Gone}
           \/ incident = "RESOLVED" /\ incident' \in {"ACTIVE", Gone}
           \/ incident = "PENDING" /\ incident' = "ACTIVE"
        /\ UNCHANGED surround
     \/ /\ \E k \in surround : surround' = surround \ {k}
        /\ UNCHANGED incident
  /\ UNCHANGED <<command, accepted, failures>>

IncidentStep(c) ==
  Revalidate(c) \/ ResolveIncident(c) \/ Refresh(c) \/ ShowIncident(c) \/ enrichIncident(c)
IncidentNext ==
  \/ \E c \in Commands :
       \/ \E dryRun \in BOOLEAN : Begin(c, "resolve", dryRun)
       \/ Begin(c, "show", FALSE)
       \/ IncidentStep(c)
  \/ Elsewhere

IncidentSpec ==
  IncidentInit /\ [][IncidentNext]_incidentVars
  /\ \A c \in Commands : WF_incidentVars(IncidentStep(c))
-------------------------------------------------------------------------------
IncidentTypes ==
  /\ incident \in States /\ surround \subseteq Keyed /\ failures \in 0..MaxFailures
  /\ \A c \in Commands :
       /\ command[c].kind \in {"none", "error", "already-resolved", "dry-run", "resolved",
                               "resolved-unverified", "complete", "partial"}
       /\ command[c].state \in States \cup {""}

(* What resolve reports is so.  It claims a change only for a resolution   *)
(* of its own that the cluster accepted, with the state after it if there  *)
(* is one; it sends none for a dry run or for a resolved incident; and a   *)
(* resolution that failed may have been accepted all the same, so that no  *)
(* error says it was not.  What show calls complete it has read.           *)
ReportsHonest ==
  \A c \in Commands :
    LET r == command[c]
    IN  /\ r.mutated => accepted[c]
        /\ accepted[c] => r.mutated \/ r.kind = "error"
        /\ IAt(c, "ended") /\ r.mutated /\ r.state = "ACTIVE" => r.kind = "resolved-unverified"
        /\ r.kind = "resolved" /\ IAt(c, "ended") => r.state \notin {"", Gone}
        /\ r.kind \in {"dry-run", "already-resolved"} => ~accepted[c]
        /\ r.kind = "complete" => r.read = Keyed
=============================================================================
