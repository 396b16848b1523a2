----------------------------- MODULE TraceFollow -----------------------------
(***************************************************************************)
(* Following a process instance (src/internal/trace): Get asks the cluster *)
(* for the instance, then for its element instances, its incidents and its *)
(* jobs, and Follow gets one timeline after another, tells its caller what *)
(* changed, and stops.  The instance runs meanwhile, the caller may cancel *)
(* and time passes, also while a request is under way.                     *)
(*                                                                         *)
(* What happened to an instance is how many of each kind there are; the    *)
(* events and the steps of a timeline are made from these.  The cluster    *)
(* answers a search with everything that happened before it.               *)
(***************************************************************************)
EXTENDS Integers

CONSTANTS
  Follows,        \* the requests: [interval, timeout, maxEvents, idle]
  DefaultTimeout, \* what a timeout of 0 stands for
  DefaultEvents,  \* what a maximum of 0 events stands for
  MaxHappened,    \* bound on what happens, of each kind
  MaxNow          \* bound on the clock

ASSUME FollowAssumption ==
  /\ Follows \subseteq [interval : Int, timeout : Int, maxEvents : Int, idle : Int]
  /\ DefaultTimeout \in Nat \ {0} /\ DefaultEvents \in Nat \ {0}
  /\ MaxHappened \in Nat /\ MaxNow \in Nat

VARIABLES
  instance,   \* the process instance: its state and what happened to it
  follow,     \* the command
  canceled,   \* its context
  clock

followVars == <<instance, follow, canceled, clock>>

Searches == {"elements", "incidents", "jobs"}
Order == <<"elements", "incidents", "jobs">>
minPollInterval == 1
-------------------------------------------------------------------------------
FollowInit ==
  /\ instance = [state |-> "ACTIVE", happened |-> [s \in Searches |-> 0]]
  /\ follow = [pc |-> "idle", request |-> [interval |-> 0, timeout |-> 0, maxEvents |-> 0, idle |-> 0],
               deadline |-> 0, read |-> 0, line |-> <<>>, prev |-> <<>>, emitted |-> 0,
               lastChange |-> 0, wake |-> 0, outcome |-> "none"]
  /\ canceled = FALSE /\ clock = 0

FAt(pc) == follow.pc = pc
FEnd(f, outcome) == [f EXCEPT !.pc = "ended", !.outcome = outcome]
Stays == UNCHANGED <<instance, canceled, clock>>

terminalState(s) == s \in {"COMPLETED", "TERMINATED"}

(* The checks before the first poll, and the defaults.                     *)
ValidFollow(r) ==
  /\ r.interval >= minPollInterval
  /\ r.timeout >= r.interval
  /\ r.maxEvents >= 1
  /\ r.idle >= 0

BeginFollow(asked) ==
  LET r == [asked EXCEPT !.timeout = IF @ = 0 THEN DefaultTimeout ELSE @,
                         !.maxEvents = IF @ = 0 THEN DefaultEvents ELSE @]
  IN
  /\ FAt("idle")
  /\ follow' = IF canceled \/ ~ValidFollow(r)
               THEN FEnd(follow, "refused")
               ELSE [follow EXCEPT !.pc = "instance", !.request = r,
                                   !.deadline = clock + r.timeout]
  /\ Stays

(* Get, first request: an instance that cannot be read ends everything.    *)
GetInstance ==
  /\ FAt("instance")
  /\ \/ ~canceled
        /\ follow' = [follow EXCEPT !.pc = "search", !.read = 0,
                        !.line = [state |-> instance.state, partial |-> FALSE,
                                  seen |-> [s \in Searches |-> 0]]]
     \/ follow' = FEnd(follow, "error")
  /\ Stays

(* A mutant: the state of the instance is read after everything else.      *)
SearchLate ==
  /\ FAt("search")
  /\ LET s == Order[follow.read + 1]
         then == [follow EXCEPT !.read = @ + 1, !.pc = IF follow.read = 2 THEN "got" ELSE @]
     IN  \/ ~canceled
            /\ follow' = [then EXCEPT !.line.seen[s] = instance.happened[s],
                                      !.line.state = instance.state]
         \/ \E n \in 0..instance.happened[s] :
              /\ canceled => n = 0
              /\ follow' = [then EXCEPT !.line.partial = TRUE, !.line.seen[s] = n]
  /\ Stays

(* Then one search after the other; one that fails, finds its context      *)
(* canceled or is partial itself leaves a warning and a partial timeline.  *)
searchScoped ==
  /\ FAt("search")
  /\ LET s == Order[follow.read + 1]
         then == [follow EXCEPT !.read = @ + 1, !.pc = IF follow.read = 2 THEN "got" ELSE @]
     IN  \/ ~canceled /\ follow' = [then EXCEPT !.line.seen[s] = instance.happened[s]]
         \/ \E n \in 0..instance.happened[s] :
              /\ canceled => n = 0
              /\ follow' = [then EXCEPT !.line.partial = TRUE, !.line.seen[s] = n]
  /\ Stays

(* FollowOnce: the fingerprint of a timeline is all there is in it.        *)
Changed == follow.emitted = 0 \/ follow.line # follow.prev

(* The first timeline, and each that changed, is emitted, and the last     *)
(* follows from its state or from the number of them.                      *)
Emit ==
  /\ FAt("got") /\ Changed
  /\ LET told == [follow EXCEPT !.emitted = @ + 1, !.prev = follow.line, !.lastChange = clock]
         last == terminalState(follow.line.state)
                   \/ told.emitted >= follow.request.maxEvents
     IN  \/ follow' = FEnd(follow, "error")
         \/ follow' = IF last THEN FEnd(told, "done") ELSE [told EXCEPT !.pc = "loop"]
  /\ Stays

Unchanged ==
  /\ FAt("got") /\ ~Changed
  /\ follow' = LET same == [follow EXCEPT !.prev = follow.line]
                   idle == /\ follow.request.idle > 0
                           /\ clock - follow.lastChange >= follow.request.idle
               IN  IF terminalState(follow.line.state) \/ idle
                   THEN FEnd(same, "done") ELSE [same EXCEPT !.pc = "loop"]
  /\ Stays

Smaller(a, b) == IF a < b THEN a ELSE b

(* A mutant: past the deadline it asks at once.                            *)
LoopOn ==
  /\ FAt("loop")
  /\ follow' = LET remaining == follow.deadline - clock
               IN  IF canceled THEN FEnd(follow, "canceled")
                   ELSE IF remaining <= 0 THEN [follow EXCEPT !.pc = "instance"]
                   ELSE [follow EXCEPT !.pc = "wait",
                           !.wake = clock + Smaller(follow.request.interval, remaining)]
  /\ Stays

(* The loop: no longer than the deadline and no sooner than the interval.  *)
Loop ==
  /\ FAt("loop")
  /\ follow' = LET remaining == follow.deadline - clock
               IN  IF canceled THEN FEnd(follow, "canceled")
                   ELSE IF remaining <= 0 THEN FEnd(follow, "timeout")
                   ELSE [follow EXCEPT !.pc = "wait",
                           !.wake = clock + Smaller(follow.request.interval, remaining)]
  /\ Stays

WaitPoll ==
  /\ FAt("wait")
  /\ \/ canceled /\ follow' = FEnd(follow, "canceled")
     \/ /\ clock >= follow.wake
        /\ follow' = IF clock < follow.deadline
                     THEN [follow EXCEPT !.pc = "instance"] ELSE FEnd(follow, "timeout")
  /\ Stays

(* The instance goes on until it completes; the caller may cancel.         *)
Happen ==
  /\ instance.state = "ACTIVE" /\ ~FAt("idle") /\ ~FAt("ended")
  /\ \/ \E s \in Searches : instance.happened[s] < MaxHappened
                            /\ instance' = [instance EXCEPT !.happened[s] = @ + 1]
     \/ instance' = [instance EXCEPT !.state = "COMPLETED"]
  /\ UNCHANGED <<follow, canceled, clock>>

CancelFollow == ~canceled /\ ~FAt("ended") /\ canceled' = TRUE /\ UNCHANGED <<instance, follow, clock>>

FTick ==
  /\ clock < MaxNow /\ ~FAt("idle") /\ ~FAt("ended")
  /\ clock' = clock + 1
  /\ UNCHANGED <<instance, follow, canceled>>

FollowStep == GetInstance \/ searchScoped \/ Emit \/ Unchanged \/ Loop \/ WaitPoll
FollowNext ==
  \/ \E r \in Follows : BeginFollow(r)
  \/ FollowStep \/ Happen \/ CancelFollow \/ FTick

(* A request is answered or fails, the loop goes on, time passes.          *)
FollowSpec ==
  FollowInit /\ [][FollowNext]_followVars /\ WF_followVars(FollowStep) /\ WF_followVars(FTick)
-------------------------------------------------------------------------------
(* What follow tells is the whole story.  A timeline that is not partial   *)
(* and says the instance has ended has everything that happened to it,     *)
(* although four requests made it and the instance ran meanwhile; and a    *)
(* follow that ends well has told its caller the last timeline it got, and *)
(* none has told more timelines than were asked for.                       *)
FollowTellsAll ==
  /\ follow.emitted <= follow.request.maxEvents
  /\ (follow.emitted > 0 /\ terminalState(follow.prev.state) /\ ~follow.prev.partial) =>
       follow.prev.seen = instance.happened
  /\ follow.outcome = "done" =>
       /\ follow.prev = follow.line
       /\ \/ terminalState(follow.line.state)
          \/ follow.emitted = follow.request.maxEvents
          \/ follow.request.idle > 0 /\ clock - follow.lastChange >= follow.request.idle

(* A follow that has begun ends, also for an instance that never does.     *)
FollowEnds == FAt("instance") ~> FAt("ended")
=============================================================================
