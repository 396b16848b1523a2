------------------------------ MODULE TokenCache ------------------------------
(***************************************************************************)
(* The bearer tokens of a remote cluster (src/internal/cluster/token.go):  *)
(* every HTTP request of the clients asks Token for one, concurrently, and *)
(* the calls share one cache entry per credential.  A call that finds no   *)
(* usable token fetches one and the others wait for it.                    *)
(*                                                                         *)
(* Entries of different credentials share nothing but the mutex, so one    *)
(* credential is modelled.  A call makes at most one entry: the entry is   *)
(* named after the call that made it, and its ready channel with it.  The  *)
(* sections under the mutex are one step each; the clock is read outside.  *)
(* A request that validateRequest refuses returns before any of this.      *)
(***************************************************************************)
EXTENDS Integers

CONSTANTS
  Call,       \* calls of Token with the same credential
  NoEntry,    \* no entry
  Lifetimes,  \* the values of expires_in the endpoint answers
  MaxSkew,    \* 30 seconds, in ticks
  Part,       \* the part of the lifetime the skew is at most: a tenth
  MaxTime,    \* the bound on the clock
  Stalls      \* whether a fetched token may run out before it is stored

ASSUME TokenAssumption ==
  /\ NoEntry \notin Call
  /\ Lifetimes \subseteq Nat \ {0}
  /\ MaxSkew \in Nat /\ Part \in Nat \ {0} /\ MaxTime \in Nat
  /\ Stalls \in BOOLEAN

VARIABLES
  now,        \* the clock
  entry,      \* the entry the cache holds
  closed,     \* entries whose ready channel is closed
  expires,    \* when the token of an entry expires
  until,      \* when the cache stops serving it
  doing,      \* what each call does next
  seen,       \* the clock as the call last read it
  on,         \* the entry a call made, waits for or took its token from
  cancelled   \* calls whose context is done while they wait

tokenVars == <<now, entry, closed, expires, until, doing, seen, on, cancelled>>

Fetching == {"fetch", "answered", "refused"}
Ended == {"done", "failed"}

TokenTypes ==
  /\ now \in Nat
  /\ entry \in Call \cup {NoEntry}
  /\ closed \subseteq Call
  /\ expires \in [Call -> Int]
  /\ until \in [Call -> Int]
  /\ doing \in [Call -> {"start", "look", "wait"} \cup Fetching \cup Ended]
  /\ seen \in [Call -> Nat]
  /\ on \in [Call -> Call \cup {NoEntry}]
  /\ \A c \in Call : doing[c] \in {"wait", "done"} \cup Fetching => on[c] # NoEntry
  /\ cancelled \subseteq Call

TokenInit ==
  /\ now = 0
  /\ entry = NoEntry
  /\ closed = {}
  /\ expires = [c \in Call |-> 0]
  /\ until = [c \in Call |-> 0]
  /\ doing = [c \in Call |-> "start"]
  /\ seen = [c \in Call |-> 0]
  /\ on = [c \in Call |-> NoEntry]
  /\ cancelled = {}

CallGoes(c, point) == doing' = [doing EXCEPT ![c] = point]

(* A mutant: the nil check is dropped.                                     *)
RefreshingUnchecked == entry \notin closed

(* entry.refreshing is cleared in the section that closes entry.ready.     *)
Refreshing == entry # NoEntry /\ entry \notin closed

(* A stored token the call finds still valid by the clock it has read.     *)
Usable(c) == entry # NoEntry /\ entry \in closed /\ seen[c] < until[entry]

(* The top of the loop: the clock is read before the mutex is taken.       *)
ReadClock(c) ==
  /\ doing[c] = "start"
  /\ CallGoes(c, "look")
  /\ seen' = [seen EXCEPT ![c] = now]
  /\ UNCHANGED <<now, entry, closed, expires, until, on, cancelled>>

Hit(c) ==
  /\ doing[c] = "look"
  /\ Usable(c)
  /\ CallGoes(c, "done")
  /\ on' = [on EXCEPT ![c] = entry]
  /\ UNCHANGED <<now, entry, closed, expires, until, seen, cancelled>>

Wait(c) ==
  /\ doing[c] = "look"
  /\ Refreshing
  /\ CallGoes(c, "wait")
  /\ on' = [on EXCEPT ![c] = entry]
  /\ UNCHANGED <<now, entry, closed, expires, until, seen, cancelled>>

(* A mutant: an expired entry is replaced even while it is refreshed.      *)
LeadAlways(c) ==
  /\ doing[c] = "look"
  /\ ~Usable(c)
  /\ CallGoes(c, "fetch")
  /\ entry' = c
  /\ on' = [on EXCEPT ![c] = c]
  /\ UNCHANGED <<now, closed, expires, until, seen, cancelled>>

Lead(c) ==
  /\ doing[c] = "look"
  /\ ~Usable(c) /\ ~Refreshing
  /\ CallGoes(c, "fetch")
  /\ entry' = c
  /\ on' = [on EXCEPT ![c] = c]
  /\ UNCHANGED <<now, closed, expires, until, seen, cancelled>>

(* Mutants: a waiter fetches for itself without another look at the cache; *)
(* a waiter fails with the call it waited for.                             *)
WakeAndFetch(c) ==
  /\ doing[c] = "wait"
  /\ on[c] \in closed
  /\ CallGoes(c, "fetch")
  /\ entry' = c
  /\ on' = [on EXCEPT ![c] = c]
  /\ UNCHANGED <<now, closed, expires, until, seen, cancelled>>

WakeSharingFailure(c) ==
  /\ doing[c] = "wait"
  /\ on[c] \in closed
  /\ CallGoes(c, IF doing[on[c]] = "failed" THEN "failed" ELSE "start")
  /\ UNCHANGED <<now, entry, closed, expires, until, seen, on, cancelled>>

(* The ready channel is closed: from the top again.                        *)
Wake(c) ==
  /\ doing[c] = "wait"
  /\ on[c] \in closed
  /\ CallGoes(c, "start")
  /\ UNCHANGED <<now, entry, closed, expires, until, seen, on, cancelled>>

GiveUp(c) ==
  /\ doing[c] = "wait"
  /\ c \in cancelled
  /\ CallGoes(c, "failed")
  /\ UNCHANGED <<now, entry, closed, expires, until, seen, on, cancelled>>

(* fetch: the endpoint's answer passes every check; its life counts from   *)
(* the clock as it is now.                                                 *)
Answer(c) ==
  /\ doing[c] = "fetch"
  /\ CallGoes(c, "answered")
  /\ \E lifetime \in Lifetimes : expires' = [expires EXCEPT ![c] = now + lifetime]
  /\ UNCHANGED <<now, entry, closed, until, seen, on, cancelled>>

(* The endpoint refuses, its answer fails a check, the client's 15 seconds *)
(* run out or the context of the call is done.                             *)
Refusal(c) ==
  /\ doing[c] = "fetch"
  /\ CallGoes(c, "refused")
  /\ UNCHANGED <<now, entry, closed, expires, until, seen, on, cancelled>>

(* A Go division truncates towards zero.                                   *)
Quotient(l) == IF l >= 0 THEN l \div Part ELSE -((-l) \div Part)

Skew(l) == IF Quotient(l) < MaxSkew THEN Quotient(l) ELSE MaxSkew

(* A mutant: the skew is added.                                            *)
StoreLate(c) ==
  /\ doing[c] = "answered"
  /\ until' = [until EXCEPT ![c] = expires[c] + Skew(expires[c] - now)]
  /\ closed' = closed \cup {c}
  /\ CallGoes(c, "done")
  /\ UNCHANGED <<now, entry, expires, seen, on, cancelled>>

Store(c) ==
  /\ doing[c] = "answered"
  /\ until' = [until EXCEPT ![c] = expires[c] - Skew(expires[c] - now)]
  /\ closed' = closed \cup {c}
  /\ CallGoes(c, "done")
  /\ UNCHANGED <<now, entry, expires, seen, on, cancelled>>

(* A mutant: the failed entry's channel stays open.                        *)
DropSilently(c) ==
  /\ doing[c] = "refused"
  /\ entry' = NoEntry
  /\ CallGoes(c, "failed")
  /\ UNCHANGED <<now, closed, expires, until, seen, on, cancelled>>

(* Failures are not cached.                                                *)
Drop(c) ==
  /\ doing[c] = "refused"
  /\ entry' = NoEntry
  /\ closed' = closed \cup {c}
  /\ CallGoes(c, "failed")
  /\ UNCHANGED <<now, expires, until, seen, on, cancelled>>

(* The context of a call is done: a call that fetches then is refused.     *)
Cancel(c) ==
  /\ doing[c] = "wait"
  /\ cancelled' = cancelled \cup {c}
  /\ UNCHANGED <<now, entry, closed, expires, until, doing, seen, on>>

(* Without stalls a token is stored before it runs out.                    *)
Tick ==
  /\ now < MaxTime
  /\ Stalls \/ \A c \in Call : doing[c] = "answered" => now + 1 < expires[c]
  /\ now' = now + 1
  /\ UNCHANGED <<entry, closed, expires, until, doing, seen, on, cancelled>>

Step(c) ==
  \/ ReadClock(c) \/ Hit(c) \/ Wait(c) \/ Lead(c) \/ Wake(c)
  \/ GiveUp(c) \/ Answer(c) \/ Refusal(c) \/ Store(c) \/ Drop(c)

TokenNext == Tick \/ \E c \in Call : Step(c) \/ Cancel(c)

TokenSpec == TokenInit /\ [][TokenNext]_tokenVars

(* A goroutine that can run does, and the HTTP client ends every fetch.    *)
FairTokenSpec == TokenSpec /\ \A c \in Call : WF_tokenVars(Step(c))

-----------------------------------------------------------------------------
(* The calls that put a token into the cache.                              *)
Stored == {c \in closed : doing[c] = "done"}

(* Concurrent calls share one request to the endpoint (token.go:130-142;   *)
(* auth_test.go:318 counts the requests of one schedule).                  *)
SingleFlight ==
  \A c, d \in Call : doing[c] \in Fetching /\ doing[d] \in Fetching => c = d

(* A call fails for a reason of its own, its context or its own fetch,     *)
(* never because the call it waited for was cancelled or refused           *)
(* (token.go:133-138, 160-162).                                            *)
OwnFailure ==
  \A c \in Call : doing[c] = "failed" => c \in cancelled \/ on[c] = c

(* The endpoint is asked only when every token ever fetched has left the   *)
(* cache for its age, whoever waited for, cancelled or failed what.        *)
NoWastedFetch ==
  [][\A c \in Call : doing[c] # "fetch" /\ doing'[c] = "fetch" =>
       \A e \in Stored : until[e] <= now]_tokenVars

(* A token out of the cache had not expired when the call read the clock,  *)
(* though the read is older than the look (token.go:122-128, 149-155).     *)
ServedUnexpired ==
  \A c \in Call : doing[c] = "done" => c = on[c] \/ seen[c] < expires[on[c]]

(* A call that has begun returns: nobody waits for a channel that is never *)
(* closed, or for ever for one entry after the other.                      *)
EveryCallReturns == \A c \in Call : doing[c] # "start" ~> doing[c] \in Ended

=============================================================================
