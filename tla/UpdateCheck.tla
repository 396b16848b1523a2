----------------------------- MODULE UpdateCheck -----------------------------
(***************************************************************************)
(* The check for a newer release (src/internal/update): fetchLatest asks   *)
(* GitHub under one mutex and keeps what it learned, or the error, for a   *)
(* while, for all who ask; Check compares it with the installed version.   *)
(* Releases are numbered, 0 is none.                                       *)
(***************************************************************************)
EXTENDS Integers

CONSTANTS
  Askers,       \* the requests that ask for an update
  Installed,    \* the installed version
  Channel,      \* "dev" or "release"
  TTL,          \* how long the cache holds
  MaxReleases, MaxTime

ASSUME UpdateAssumption ==
  /\ Installed \in Nat /\ TTL \in Nat \ {0} /\ MaxReleases \in Nat /\ MaxTime \in Nat
  /\ Channel \in {"dev", "release"}

VARIABLES
  released,   \* the latest release
  cache,      \* what is known, and since when
  asker,
  held,       \* who holds the mutex, or "free"
  past,       \* history: the latest release when each moment began
  time

updateVars == <<released, cache, asker, held, past, time>>
-------------------------------------------------------------------------------
UpdateInit ==
  /\ released = 0 /\ past = [t \in 0..MaxTime |-> 0] /\ time = 0 /\ held = "free"
  /\ cache = [tag |-> 0, fetched |-> 0 - TTL, err |-> FALSE]
  /\ asker = [a \in Askers |-> [pc |-> "idle", tag |-> 0, err |-> FALSE, newer |-> FALSE,
                                at |-> 0]]

QAt(a, pc) == asker[a].pc = pc

(* Newer, and the channel that never is offered an update.                 *)
UpdateAvailable(tag) == tag > Installed /\ Channel # "dev"

(* What Check answers: a tag that is known is used although an error comes *)
(* with it.                                                                *)
Answers(a, tag, err) ==
  /\ held' = "free"
  /\ asker' = [asker EXCEPT ![a] =
       [pc |-> "ended", tag |-> tag, err |-> err, at |-> time,
        newer |-> tag # 0 /\ UpdateAvailable(tag)]]

Ask(a) ==
  /\ QAt(a, "idle")
  /\ asker' = [asker EXCEPT ![a].pc = "lock"]
  /\ UNCHANGED <<released, cache, held, past, time>>

(* A mutant: a tag is used for as long as there is one.                    *)
FreshForever == cache.tag # 0 \/ (time - cache.fetched < TTL /\ cache.err)

(* What the cache holds counts while it is young.                          *)
Fresh == time - cache.fetched < TTL /\ (cache.tag # 0 \/ cache.err)

Lock(a) ==
  /\ QAt(a, "lock") /\ held = "free"
  /\ IF Fresh
     THEN Answers(a, cache.tag, cache.err)
     ELSE /\ held' = a
          /\ asker' = [asker EXCEPT ![a].pc = "request"]
  /\ UNCHANGED <<released, cache, past, time>>

(* The request, while others wait: a release, no release yet or another    *)
(* status than OK, which forgets the tag, or a failure, which does not; a  *)
(* request whose own context is canceled is such a failure.                *)
Request(a) ==
  /\ QAt(a, "request")
  /\ \/ /\ released # 0
        /\ cache' = [tag |-> released, fetched |-> time, err |-> FALSE]
        /\ Answers(a, released, FALSE)
     \/ /\ cache' = [cache EXCEPT !.tag = 0, !.err = TRUE, !.fetched = time]
        /\ Answers(a, 0, TRUE)
     \/ /\ cache' = [cache EXCEPT !.err = TRUE, !.fetched = time]
        /\ Answers(a, 0, TRUE)
  /\ UNCHANGED <<released, past, time>>

Release ==
  /\ released < MaxReleases /\ released' = released + 1
  /\ UNCHANGED <<cache, asker, held, past, time>>

UTick ==
  /\ time < MaxTime /\ time' = time + 1
  /\ past' = [past EXCEPT ![time + 1] = released]
  /\ UNCHANGED <<released, cache, asker, held>>

UpdateStep == \E a \in Askers : Lock(a) \/ Request(a)
UpdateNext ==
  \/ \E a \in Askers : Ask(a)
  \/ UpdateStep \/ Release \/ UTick

UpdateSpec == UpdateInit /\ [][UpdateNext]_updateVars /\ WF_updateVars(UpdateStep)
-------------------------------------------------------------------------------
UpdateTypes ==
  /\ cache.tag \in 0..MaxReleases /\ time \in 0..MaxTime
  /\ held = "free" \/ QAt(held, "request")

(* An answer that comes without an error is no older than the cache may    *)
(* be, although answers, failures and other requests wrote the same cache  *)
(* since; and it offers a release only over an older one.                  *)
LatestFresh ==
  \A a \in Askers :
    LET r == asker[a]
        since == r.at - TTL + 1
    IN  (QAt(a, "ended") /\ ~r.err) =>
          /\ r.tag >= past[IF since < 0 THEN 0 ELSE since] /\ r.tag <= released
          /\ r.newer => r.tag > Installed
=============================================================================
