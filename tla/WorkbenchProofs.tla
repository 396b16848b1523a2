--------------------------- MODULE WorkbenchProofs ---------------------------
(***************************************************************************)
(* Theorems about the commands that look after the tool itself: the check  *)
(* for an update, the Lab UI's server and the diagnoses, each for any      *)
(* number of requests, any times and any environment; and about what the   *)
(* workbench says of a process, for any processes and policies.            *)
(***************************************************************************)
EXTENDS UpdateCheck, UIDaemon, Diagnostics, ProcessGraph, FiniteSetTheorems, SequenceTheorems,
        WellFoundedInduction, TLAPS

-------------------------------------------------------------------------------
(* UpdateCheck.  The argument: releases only grow, so that what was the    *)
(* latest at one moment bounds what was at an earlier one; a cache without *)
(* an error holds what was the latest when it was fetched, and an answer   *)
(* is given while that is less than TTL ago.                               *)

AskerState == [pc : {"idle", "lock", "request", "ended"}, tag : Nat, err : BOOLEAN,
               newer : BOOLEAN, at : Nat]

UpdateTyped ==
  /\ released \in Nat /\ time \in 0..MaxTime
  /\ past \in [0..MaxTime -> Nat]
  /\ cache \in [tag : Nat, fetched : Int, err : BOOLEAN]
  /\ asker \in [Askers -> AskerState]

(* The latest release of each moment so far bounds those before it.        *)
ReleasesGrow ==
  /\ past[time] <= released
  /\ \A s, t \in 0..time : s <= t => past[s] <= past[t]

(* What the cache holds without an error was the latest when fetched.      *)
CacheTruthful ==
  cache.tag # 0 /\ ~cache.err =>
    /\ cache.fetched \in 0..time
    /\ cache.tag >= past[cache.fetched] /\ cache.tag <= released

Earliest(at) == IF at - TTL + 1 < 0 THEN 0 ELSE at - TTL + 1

(* And so was what an asker was told, TTL before at the earliest.          *)
AnswersFresh ==
  \A a \in Askers :
    QAt(a, "ended") =>
      /\ asker[a].at <= time
      /\ ~asker[a].err => /\ asker[a].tag >= past[Earliest(asker[a].at)]
                          /\ asker[a].tag <= released
      /\ asker[a].newer => asker[a].tag > Installed

UpdateInv == UpdateTyped /\ ReleasesGrow /\ CacheTruthful /\ AnswersFresh

(* The invariant holds before anybody asks.                                *)
LEMMA UpdateInitInv == UpdateInit => UpdateInv
BY UpdateAssumption
   DEF UpdateInit, UpdateInv, UpdateTyped, AskerState, ReleasesGrow, CacheTruthful, AnswersFresh,
       QAt

(* The moment an answer looks back to is one that has been.                *)
LEMMA EarliestInRange ==
  ASSUME NEW at \in Nat PROVE Earliest(at) \in 0..at
BY UpdateAssumption DEF Earliest

(* An answer has the type of one, and is all that changes.                 *)
LEMMA AnswersTyped ==
  ASSUME UpdateTyped, NEW a \in Askers, NEW tag \in Nat, NEW err \in BOOLEAN, Answers(a, tag, err)
  PROVE  /\ asker' \in [Askers -> AskerState]
         /\ asker'[a].pc = "ended" /\ asker'[a].tag = tag /\ asker'[a].err = err
         /\ asker'[a].at = time /\ (asker'[a].newer => tag > Installed)
         /\ \A b \in Askers \ {a} : asker'[b] = asker[b]
<1> DEFINE newer == tag # 0 /\ UpdateAvailable(tag)
           r == [pc |-> "ended", tag |-> tag, err |-> err, at |-> time, newer |-> newer]
<1>1. newer \in BOOLEAN /\ (newer => tag > Installed)
  BY DEF UpdateAvailable
<1>2. asker' = [asker EXCEPT ![a] = r]
  BY DEF Answers
<1> HIDE DEF newer
<1>3. time \in Nat
  BY UpdateAssumption DEF UpdateTyped
<1>4. r \in AskerState
  BY <1>1, <1>3 DEF AskerState
<1>5. asker'[a] = r
  BY <1>2 DEF UpdateTyped
<1> QED
  BY <1>1, <1>2, <1>4, <1>5 DEF UpdateTyped

(* Every step keeps the types.                                             *)
LEMMA UpdateStepTyped == UpdateTyped /\ [UpdateNext]_updateVars => UpdateTyped'
<1> SUFFICES ASSUME UpdateTyped, [UpdateNext]_updateVars PROVE UpdateTyped'
  OBVIOUS
<1> USE UpdateAssumption DEF UpdateTyped
<1>1. CASE UNCHANGED updateVars
  BY <1>1 DEF updateVars
<1>2. ASSUME NEW a \in Askers, Ask(a) PROVE UpdateTyped'
  BY <1>2 DEF Ask, AskerState
<1>3. ASSUME NEW a \in Askers, Lock(a) PROVE UpdateTyped'
  <2>1. CASE Fresh
    BY <1>3, <2>1, AnswersTyped DEF Lock
  <2>2. CASE ~Fresh
    <3>1. asker' = [asker EXCEPT ![a].pc = "request"] /\ UNCHANGED <<released, cache, past, time>>
      BY <1>3, <2>2 DEF Lock
    <3> QED
      BY <3>1 DEF AskerState
  <2> QED
    BY <2>1, <2>2
<1>4. ASSUME NEW a \in Askers, Request(a) PROVE UpdateTyped'
  <2>1. \E tag \in Nat, err \in BOOLEAN : Answers(a, tag, err)
    BY <1>4 DEF Request
  <2>2. asker' \in [Askers -> AskerState]
    BY <2>1, AnswersTyped
  <2>3. cache' \in [tag : Nat, fetched : Int, err : BOOLEAN]
    <3>1. \E tag \in Nat, err \in BOOLEAN : cache' = [tag |-> tag, fetched |-> time, err |-> err]
      BY <1>4 DEF Request
    <3> QED
      BY <3>1
  <2> QED
    BY <1>4, <2>2, <2>3 DEF Request
<1>5. CASE Release
  BY <1>5 DEF Release
<1>6. CASE UTick
  BY <1>6 DEF UTick
<1> QED
  BY <1>1, <1>2, <1>3, <1>4, <1>5, <1>6 DEF UpdateNext, UpdateStep

(* A true answer keeps the answers fresh.                                  *)
LEMMA AnswersStayFresh ==
  ASSUME UpdateInv, UpdateTyped', NEW a \in Askers, NEW tag \in Nat, NEW err \in BOOLEAN,
         Answers(a, tag, err), UNCHANGED <<released, past, time>>,
         ~err => tag >= past[Earliest(time)] /\ tag <= released
  PROVE  AnswersFresh'
BY AnswersTyped DEF UpdateInv, UpdateTyped, AnswersFresh, QAt, Earliest

(* Every step keeps the rest of the invariant.                             *)
LEMMA UpdateStepInv == UpdateInv /\ [UpdateNext]_updateVars => UpdateInv'
<1> SUFFICES ASSUME UpdateInv, [UpdateNext]_updateVars PROVE UpdateInv'
  OBVIOUS
<1>0. UpdateTyped'
  BY UpdateStepTyped DEF UpdateInv
<1>a. Earliest(time) \in 0..time /\ \A b \in Askers : Earliest(asker[b].at) \in 0..asker[b].at
  <2>1. time \in Nat /\ \A b \in Askers : asker[b].at \in Nat
    BY UpdateAssumption DEF UpdateInv, UpdateTyped, AskerState
  <2> QED
    BY <2>1, EarliestInRange
<1> USE UpdateAssumption DEF UpdateInv, UpdateTyped, ReleasesGrow, CacheTruthful
<1>1. CASE UNCHANGED updateVars
  BY <1>1, <1>0 DEF updateVars, AnswersFresh, QAt, Earliest
<1>2. ASSUME NEW a \in Askers, Ask(a) PROVE UpdateInv'
  BY <1>0, <1>2, SMTT(30) DEF Ask, AnswersFresh, QAt, Earliest, AskerState
<1>3. ASSUME NEW a \in Askers, Lock(a) PROVE UpdateInv'
  <2>1. CASE Fresh
    <3>1. cache.tag \in Nat /\ cache.err \in BOOLEAN /\ Answers(a, cache.tag, cache.err)
      BY <1>3, <2>1 DEF Lock
    <3>2. UNCHANGED <<released, cache, past, time>>
      BY <1>3 DEF Lock
    <3>3. ~cache.err => cache.tag >= past[Earliest(time)] /\ cache.tag <= released
      BY <2>1, <1>a DEF Fresh, Earliest
    <3>4. AnswersFresh'
      BY <1>0, <3>1, <3>2, <3>3, AnswersStayFresh
    <3> QED
      BY <1>0, <3>2, <3>4
  <2>2. CASE ~Fresh
    <3>1. asker' = [asker EXCEPT ![a].pc = "request"] /\ UNCHANGED <<released, cache, past, time>>
      BY <1>3, <2>2 DEF Lock
    <3> QED
      BY <1>0, <3>1, SMTT(30) DEF AnswersFresh, QAt, Earliest, AskerState
  <2> QED
    BY <2>1, <2>2
<1>4. ASSUME NEW a \in Askers, Request(a) PROVE UpdateInv'
  <2>1. UNCHANGED <<released, past, time>>
    BY <1>4 DEF Request
  <2>2. CASE released # 0 /\ cache' = [tag |-> released, fetched |-> time, err |-> FALSE]
             /\ Answers(a, released, FALSE)
    <3>1. released \in Nat /\ released >= past[Earliest(time)] /\ released <= released
      BY <1>a
    <3>2. Answers(a, released, FALSE)
      BY <2>2
    <3>3. AnswersFresh'
      BY <1>0, <2>1, <3>1, <3>2, AnswersStayFresh
    <3> QED
      BY <1>0, <2>1, <2>2, <3>3
  <2>3. CASE cache'.err /\ Answers(a, 0, TRUE)
    <3>1. AnswersFresh'
      BY <1>0, <2>1, <2>3, AnswersStayFresh
    <3> QED
      BY <1>0, <2>1, <2>3, <3>1
  <2> QED
    BY <1>4, <2>2, <2>3 DEF Request
<1>5. CASE Release
  BY <1>0, <1>5 DEF Release, AnswersFresh, QAt, Earliest, AskerState
<1>6. CASE UTick
  <2>1. \A t \in 0..time : past'[t] = past[t]
    BY <1>6 DEF UTick
  <2>2. time' = time + 1 /\ past'[time'] = released /\ UNCHANGED <<released, cache, asker>>
    BY <1>6, <1>0 DEF UTick
  <2>3. ReleasesGrow'
    <3>1. time \in Nat /\ \A s \in 0..time : past[s] <= released /\ past[s] \in Nat
      <4>1. time \in 0..time /\ \A s \in 0..time : s \in 0..MaxTime
        BY <1>0
      <4>2. past[time] <= released /\ released \in Nat /\ \A s \in 0..time : past[s] \in Nat
        BY <1>0, <4>1
      <4>3. \A s \in 0..time : past[s] <= past[time]
        <5>1. \A s, t \in 0..time : s <= t => past[s] <= past[t]
          BY <1>0
        <5>2. \A s \in 0..time : s <= time
          BY <1>0
        <5> QED
          BY <4>1, <5>1, <5>2, Zenon
      <4>4. ASSUME NEW s \in 0..time PROVE past[s] <= released /\ past[s] \in Nat
        <5>1. past[s] <= past[time] /\ past[s] \in Nat
          BY <4>2, <4>3
        <5> QED
          BY <5>1, <4>2, <4>1
      <4> QED
        BY <1>0, <4>4
    <3>2. ASSUME NEW s \in 0..time', NEW t \in 0..time', s <= t PROVE past'[s] <= past'[t]
      <4>1. CASE t \in 0..time
        BY <4>1, <3>1, <3>2, <2>1
      <4>2. CASE t = time'
        BY <4>2, <3>1, <3>2, <2>1, <2>2, SMTT(30)
      <4> QED
        BY <4>1, <4>2, <3>1, <2>2
    <3> QED
      BY <2>2, <3>1, <3>2
  <2>4. CacheTruthful'
    BY <1>0, <2>1, <2>2
  <2>5. AnswersFresh'
    BY <1>a, <2>1, <2>2, SMTT(30) DEF AnswersFresh, QAt, Earliest, AskerState
  <2> QED
    BY <1>0, <2>3, <2>4, <2>5
<1> QED
  BY <1>1, <1>2, <1>3, <1>4, <1>5, <1>6 DEF UpdateNext, UpdateStep

(* An answer without an error is no older than TTL, whatever wrote the     *)
(* cache in between (update/check.go:127-180).                             *)
THEOREM LatestStaysFresh == UpdateSpec => []LatestFresh
<1>1. UpdateInv => LatestFresh
  BY DEF UpdateInv, AnswersFresh, LatestFresh, Earliest
<1> QED
  BY <1>1, UpdateInitInv, UpdateStepInv, PTL DEF UpdateSpec

-------------------------------------------------------------------------------
(* UIDaemon.  The argument: as long as nothing disturbed the commands, at  *)
(* most one of them runs, and a server that lives is the one the file      *)
(* names, or the child of the command that is about to write the file.     *)
(* With a second port neither is so: the one file names one server only.   *)

(* Numbers that exist have a least one.                                    *)
LEMMA LeastExists ==
  ASSUME NEW S, S \subseteq Nat, S # {}
  PROVE  \E m \in S : \A n \in S : m <= n
<1>1. PICK m \in S : \A n \in S : <<n, m>> \notin OpToRel(<, Nat)
  BY NatLessThanWellFounded, WFMin
<1>2. \A n \in S : ~ (n < m)
  BY <1>1 DEF OpToRel
<1> QED
  BY <1>2

OnePort == \A p, q \in Ports : p = q

ServerState == [state : {"none", "starting", "serving", "dead"}, port : Ports \cup {0}]
UIState == [pc : {"idle", "spawn", "write", "ready", "dying", "ended"}, port : Ports \cup {0},
            pid : Pids \cup {0}, kind : {"none", "ensure", "stop"}, left : Pids \cup {0}]

Started(p) == p \in Pids /\ servers[p].state # "none"

(* The file names a server that was started, or none.                     *)
Named(file, all) == file = 0 \/ (file \in Pids /\ all[file].state # "none")

UITyped ==
  /\ servers \in [Pids -> ServerState] /\ ui \in [UICommands -> UIState]
  /\ Named(pidFile, servers) /\ disturbed \in BOOLEAN
  /\ \A p \in Pids : servers[p].state = "none" \/ servers[p].port \in Ports
  /\ \A c \in UICommands : (UAt(c, "write") => Started(ui[c].pid))
                           /\ (UAt(c, "idle") \/ ui[c].port \in Ports)
                           /\ (ui[c].pc \in {"spawn", "write", "ready"} => ui[c].kind = "ensure")

Alive == {p \in Pids : servers[p].state \in {"starting", "serving"}}

(* Where nothing disturbed the commands.                                   *)
OneAtATime == \A c, d \in Busy : c = d
StartsForSomebody == Starting # {} => \E c \in UICommands : UAt(c, "write") \/ UAt(c, "ready")
FileNamesTheLiving ==
  /\ (\A c \in UICommands : ~UAt(c, "write")) => Alive \subseteq {pidFile}
  /\ \A c \in UICommands :
       /\ UAt(c, "spawn") \/ UAt(c, "dying") => Alive = {}
       /\ UAt(c, "write") => Alive \subseteq {ui[c].pid}

UIInv ==
  /\ UITyped
  /\ ~disturbed => OneAtATime /\ StartsForSomebody /\ FileNamesTheLiving /\ StopStops

(* The invariant holds before any command.                                 *)
LEMMA UIInitInv == UIInit => UIInv
<1> SUFFICES ASSUME UIInit PROVE UIInv
  OBVIOUS
<1>1. /\ \A p \in Pids : servers[p].state = "none"
      /\ \A c \in UICommands : ui[c].pc = "idle"
  BY DEF UIInit
<1>2. UITyped
  BY <1>1 DEF UIInit, UITyped, ServerState, UIState, UAt, Named
<1>3. Alive = {} /\ Starting = {} /\ Busy = {}
  BY <1>1 DEF Alive, Starting, Busy, UAt
<1> QED
  BY <1>1, <1>2, <1>3
     DEF UIInv, OneAtATime, StartsForSomebody, FileNamesTheLiving, StopStops, UAt

(* The server that a start gets is new.                                    *)
LEMMA FirstFreshIsFresh ==
  ASSUME UIAssumption, FreshPids # {} PROVE FirstFresh \in FreshPids
<1>1. FreshPids \subseteq Nat
  BY DEF FreshPids, Pids, UIAssumption
<1>2. \E p \in FreshPids : \A q \in FreshPids : p <= q
  BY <1>1, LeastExists
<1> QED
  BY <1>2 DEF FirstFresh

(* Where nothing lives, a command finds nothing left.                      *)
LEMMA NothingLeft ==
  ASSUME NEW all, NEW port, \A p \in Pids : all[p].state # "serving" PROVE Left(all, port) = 0
BY DEF Left, ServingOf

(* What is left is a server, or none.                                      *)
LEMMA LeftTyped ==
  ASSUME NEW all, NEW port PROVE Left(all, port) \in Pids \cup {0}
<1>1. CASE ServingOf(all, port) = {}
  BY <1>1 DEF Left
<1>2. CASE ServingOf(all, port) # {}
  <2>1. \E p \in Pids : p \in ServingOf(all, port)
    BY <1>2 DEF ServingOf
  <2> QED
    BY <1>2, <2>1 DEF Left
<1> QED
  BY <1>1, <1>2

(* The end of a command.                                                   *)
LEMMA EndTyped ==
  ASSUME UITyped, NEW c \in UICommands, End(c)
  PROVE  /\ ui' \in [UICommands -> UIState]
         /\ ui'[c].pc = "ended" /\ ui'[c].kind = ui[c].kind /\ ui'[c].port = ui[c].port
         /\ ui'[c].left = Left(servers', ui[c].port)
         /\ \A d \in UICommands \ {c} : ui'[d] = ui[d]
<1> DEFINE l == Left(servers', ui[c].port)
<1>1. l \in Pids \cup {0}
  BY LeftTyped
<1>2. ui' = [ui EXCEPT ![c].pc = "ended", ![c].left = l]
  BY DEF End
<1> HIDE DEF l
<1>3. ui[c] \in UIState
  BY DEF UITyped
<1>4. ui' = [ui EXCEPT ![c] = [ui[c] EXCEPT !.pc = "ended", !.left = l]]
  BY <1>2, Zenon
<1>5. [ui[c] EXCEPT !.pc = "ended", !.left = l] \in UIState
  BY <1>1, <1>3 DEF UIState
<1> QED
  BY <1>3, <1>4, <1>5 DEF UITyped, UIState, l

(* A command that goes on as another, and is the only one to.              *)
LEMMA GoesOn ==
  ASSUME UITyped, NEW c \in UICommands, NEW r \in UIState, ui' = [ui EXCEPT ![c] = r]
  PROVE  /\ ui' \in [UICommands -> UIState] /\ ui'[c] = r
         /\ \A d \in UICommands \ {c} : ui'[d] = ui[d]
BY DEF UITyped

(* Types hold when one command goes on and no server is forgotten.         *)
LEMMA GoesOnTyped ==
  ASSUME UITyped, NEW c \in UICommands, NEW r \in UIState, ui' = [ui EXCEPT ![c] = r],
         r.pc = "idle" \/ r.port \in Ports,
         r.pc \in {"spawn", "write", "ready"} => r.kind = "ensure",
         r.pc = "write" => r.pid \in Pids /\ servers'[r.pid].state # "none",
         servers' \in [Pids -> ServerState], Named(pidFile', servers'), disturbed' \in BOOLEAN,
         \A p \in Pids : servers'[p].state = "none" \/ servers'[p].port \in Ports,
         \A p \in Pids : servers[p].state # "none" => servers'[p].state # "none"
  PROVE  UITyped'
<1>1. /\ ui' \in [UICommands -> UIState] /\ ui'[c] = r
      /\ \A d \in UICommands \ {c} : ui'[d] = ui[d]
  BY GoesOn
<1>2. ASSUME NEW d \in UICommands
      PROVE  /\ UAt(d, "write")' => Started(ui[d].pid)'
             /\ UAt(d, "idle")' \/ ui'[d].port \in Ports
             /\ ui'[d].pc \in {"spawn", "write", "ready"} => ui'[d].kind = "ensure"
  <2>1. CASE d = c
    <3>1. ui'[d] = r
      BY <1>1, <2>1
    <3> QED
      BY <3>1 DEF UAt, Started, Pids
  <2>2. CASE d # c
    <3>1. ui'[d] = ui[d]
      BY <1>1, <2>2
    <3> QED
      BY <3>1 DEF UAt, UITyped, Started, Pids
  <2> QED
    BY <2>1, <2>2
<1> QED
  BY <1>1, <1>2 DEF UITyped, ServerState, UIState, Pids

(* The file still names a server that was started, or none.                *)
LEMMA NamedStays ==
  ASSUME UITyped, pidFile' \in {0, pidFile},
         \A p \in Pids : servers[p].state # "none" => servers'[p].state # "none"
  PROVE  Named(pidFile', servers')
BY DEF UITyped, Named

(* A command that has ended, where nothing lives but what the file names.  *)
LEMMA EndQuiet ==
  ASSUME UIInv, NEW c \in UICommands, c \in Busy, End(c),
         servers' \in [Pids -> ServerState], pidFile' \in {0, pidFile}, disturbed' \in BOOLEAN,
         \A p \in Pids : servers'[p].state = "none" \/ servers'[p].port \in Ports,
         \A p \in Pids : servers[p].state # "none" => servers'[p].state # "none",
         ~disturbed' => /\ ~disturbed
                        /\ \A p \in Pids : servers'[p].state # "starting"
                        /\ \A p \in Pids : servers'[p].state = "serving" => p = pidFile'
                        /\ ui[c].kind = "stop" => Left(servers', ui[c].port) = 0
  PROVE  UIInv'
<1>1. /\ ui' \in [UICommands -> UIState]
      /\ ui'[c].pc = "ended" /\ ui'[c].kind = ui[c].kind /\ ui'[c].port = ui[c].port
      /\ ui'[c].left = Left(servers', ui[c].port)
      /\ \A d \in UICommands \ {c} : ui'[d] = ui[d]
  BY EndTyped DEF UIInv
<1>2. UITyped'
  <2>2. Named(pidFile', servers')
    BY NamedStays DEF UIInv
  <2>1. \A d \in UICommands : /\ UAt(d, "write")' => Started(ui[d].pid)'
                              /\ UAt(d, "idle")' \/ ui'[d].port \in Ports
                              /\ ui'[d].pc \in {"spawn", "write", "ready"} => ui'[d].kind = "ensure"
    BY <1>1 DEF UAt, UIInv, UITyped, Busy, Started, Pids
  <2> QED
    BY <1>1, <2>1, <2>2 DEF UIInv, UITyped, ServerState, UIState, Pids, Named
<1>3. ASSUME ~disturbed' PROVE OneAtATime' /\ StartsForSomebody' /\ FileNamesTheLiving' /\ StopStops'
  <2>1. OneAtATime /\ StopStops /\ ~disturbed
    BY <1>3 DEF UIInv
  <2>2. \A d \in UICommands : UAt(d, "idle")' \/ UAt(d, "ended")'
    BY <1>1, <2>1 DEF OneAtATime, Busy, UAt
  <2>3. StopStops'
    BY <1>1, <1>3, <2>1 DEF StopStops, UAt
  <2>4. OneAtATime'
    BY <2>2 DEF OneAtATime, Busy
  <2>5. StartsForSomebody'
    BY <1>3 DEF StartsForSomebody, Starting, Pids
  <2>6. Alive' \subseteq {pidFile'}
    BY <1>3 DEF Alive, Pids
  <2>7. \A d \in UICommands : ~UAt(d, "write")' /\ ~UAt(d, "spawn")' /\ ~UAt(d, "dying")'
    BY <2>2 DEF UAt
  <2>8. FileNamesTheLiving'
    BY <2>6, <2>7 DEF FileNamesTheLiving
  <2> QED
    BY <2>3, <2>4, <2>5, <2>8
<1> QED
  BY <1>2, <1>3 DEF UIInv

(* Where servers only begin to serve or die, nothing new lives.            *)
LEMMA ServersMayGo ==
  ASSUME UIInv, NEW p \in Pids, NEW s \in {"serving", "dead"},
         servers[p].state \in {"starting", "serving"},
         servers' = [servers EXCEPT ![p].state = s], UNCHANGED <<pidFile, ui, disturbed>>
  PROVE  UIInv'
<1>1. /\ servers' \in [Pids -> ServerState]
      /\ servers'[p].state = s /\ servers'[p].port = servers[p].port
      /\ \A q \in Pids \ {p} : servers'[q] = servers[q]
  BY DEF UIInv, UITyped, ServerState
<1>2. UITyped'
  <2>1. \A q \in Pids : servers'[q].state = "none" \/ servers'[q].port \in Ports
    BY <1>1 DEF UIInv, UITyped
  <2> QED
    BY <1>1, <2>1 DEF UIInv, UITyped, ServerState, UIState, Pids, UAt, Started, Named
<1>3. Alive' \subseteq Alive /\ Starting' \subseteq Starting
  BY <1>1 DEF Alive, Starting, Pids
<1> QED
  BY <1>2, <1>3
     DEF UIInv, OneAtATime, Busy, StartsForSomebody, FileNamesTheLiving, StopStops, UAt

(* Every step keeps what the commands rely on.                             *)
LEMMA UIStepInv ==
  ASSUME UIAssumption, OnePort, UIInv, [UINext]_uiVars PROVE UIInv'
<1>a. \A c \in UICommands : ui[c] \in UIState
  BY DEF UIInv, UITyped
<1>b. \A p \in Pids : servers[p] \in ServerState
  BY DEF UIInv, UITyped
<1>1. CASE UNCHANGED uiVars
  BY <1>1 DEF uiVars, UIInv, UITyped, Started, UIState, ServerState, Pids, UAt, OneAtATime, Busy,
              StartsForSomebody, Starting, FileNamesTheLiving, Alive, StopStops
<1>2. ASSUME NEW c \in UICommands, NEW port \in Ports, NEW running \in BOOLEAN,
             BeginEnsure(c, port, running)
      PROVE  UIInv'
  <2> DEFINE r == [ui[c] EXCEPT !.pc = IF running THEN "ended" ELSE "spawn",
                                !.port = port, !.kind = "ensure"]
  <2>1. UAt(c, "idle") /\ UNCHANGED <<servers, pidFile>>
        /\ disturbed' = (disturbed \/ Busy # {} \/ Missed(port, running))
    BY <1>2 DEF BeginEnsure, MayBegin
  <2>2. r \in UIState /\ r.pc \in {"ended", "spawn"} /\ r.kind = "ensure" /\ r.port = port
        /\ (r.pc = "spawn" => ~running)
    BY <1>a DEF UIState
  <2>3. ui' = [ui EXCEPT ![c] = r]
    BY <1>2, Zenon DEF BeginEnsure
  <2> HIDE DEF r
  <2>4. /\ ui' \in [UICommands -> UIState] /\ ui'[c] = r
        /\ \A d \in UICommands \ {c} : ui'[d] = ui[d]
    BY <2>2, <2>3, GoesOn DEF UIInv
  <2>5. UITyped'
    <3>1. disturbed' \in BOOLEAN
      BY <2>1
    <3> QED
      BY <2>1, <2>2, <2>3, <3>1, GoesOnTyped DEF UIInv, UITyped, Pids
  <2>6. ASSUME ~disturbed'
        PROVE  OneAtATime' /\ StartsForSomebody' /\ FileNamesTheLiving' /\ StopStops'
    <3>1. ~disturbed /\ Busy = {} /\ ~Missed(port, running)
      BY <2>1, <2>6
    <3>2. StartsForSomebody /\ FileNamesTheLiving /\ StopStops
      BY <3>1 DEF UIInv
    <3>3. \A d \in UICommands : UAt(d, "idle") \/ UAt(d, "ended")
      BY <3>1 DEF Busy
    <3>4. Starting = {} /\ Alive \subseteq {pidFile}
      BY <3>2, <3>3 DEF StartsForSomebody, FileNamesTheLiving, UAt
    <3>5. \A d \in UICommands \ {c} : UAt(d, "idle")' \/ UAt(d, "ended")'
      BY <2>4, <3>3 DEF UAt
    <3>6. UAt(c, "spawn")' => Alive = {}
      <4>1. UAt(c, "spawn")' => Serving(port) = {}
        BY <2>2, <2>4, <3>1 DEF UAt, Missed
      <4>2. \A p \in Alive : p \in Serving(port)
        BY <3>4, <1>b DEF Alive, Starting, Serving, ServingOf, OnePort, UIInv, UITyped
      <4> QED
        BY <4>1, <4>2
    <3>7. OneAtATime' /\ StartsForSomebody'
      BY <2>1, <3>4, <3>5 DEF OneAtATime, Busy, StartsForSomebody, Starting, Pids
    <3>8. FileNamesTheLiving'
      BY <2>1, <2>2, <2>4, <3>4, <3>5, <3>6 DEF FileNamesTheLiving, Alive, UAt, Pids
    <3>9. StopStops'
      BY <2>1, <2>2, <2>4, <3>2 DEF StopStops, UAt
    <3> QED
      BY <3>7, <3>8, <3>9
  <2> QED
    BY <2>5, <2>6 DEF UIInv
<1>3. ASSUME NEW c \in UICommands, Spawn(c) PROVE UIInv'
  <2>1. UAt(c, "spawn") /\ c \in Busy /\ UNCHANGED <<pidFile, disturbed>>
    BY <1>3 DEF Spawn, Busy, UAt
  <2>2. CASE UNCHANGED servers /\ End(c)
    <3>1. ~disturbed => Alive = {}
      BY <2>1 DEF UIInv, FileNamesTheLiving
    <3>2. ~disturbed => \A p \in Pids : servers'[p].state \notin {"starting", "serving"}
      BY <2>2, <3>1 DEF Alive
    <3>3. ~disturbed => Left(servers', ui[c].port) = 0
      BY <3>2, NothingLeft
    <3> QED
      BY <2>1, <2>2, <3>2, <3>3, EndQuiet DEF UIInv, UITyped
  <2>3. CASE Spawned(ui[c].port) /\ ui' = [ui EXCEPT ![c].pc = "write", ![c].pid = FirstFresh]
    <3>1. FirstFresh \in FreshPids /\ FirstFresh \in Pids
      BY <2>3, FirstFreshIsFresh DEF Spawned, FreshPids
    <3> DEFINE f == FirstFresh
               r == [ui[c] EXCEPT !.pc = "write", !.pid = f]
    <3>2. servers' = [servers EXCEPT ![f] = [state |-> "starting", port |-> ui[c].port]]
      BY <2>3 DEF Spawned
    <3>3. ui' = [ui EXCEPT ![c] = r]
      BY <2>3, Zenon
    <3> HIDE DEF f
    <3>4. r \in UIState /\ r.pc = "write" /\ r.pid = f
      BY <1>a, <3>1 DEF UIState, f
    <3> HIDE DEF r
    <3>5. /\ ui' \in [UICommands -> UIState] /\ ui'[c] = r
          /\ \A d \in UICommands \ {c} : ui'[d] = ui[d]
      BY <3>3, <3>4, GoesOn DEF UIInv
    <3>6. /\ servers' \in [Pids -> ServerState] /\ servers'[f].state = "starting"
          /\ servers'[f].port \in Ports /\ \A p \in Pids \ {f} : servers'[p] = servers[p]
      BY <1>a, <2>1, <3>1, <3>2 DEF UIInv, UITyped, ServerState, UIState, UAt, f
    <3>7. UITyped'
      <4>1. \A p \in Pids : servers'[p].state = "none" \/ servers'[p].port \in Ports
        BY <3>6 DEF UIInv, UITyped
      <4>2. \A p \in Pids : servers[p].state # "none" => servers'[p].state # "none"
        BY <3>6
      <4>3. r.port \in Ports /\ r.kind = "ensure"
        <5>1. r.port = ui[c].port /\ r.kind = ui[c].kind
          BY <1>a DEF UIState, r
        <5> QED
          BY <2>1, <5>1 DEF UAt, UIInv, UITyped
      <4>4. r.pid \in Pids /\ servers'[r.pid].state # "none"
        BY <3>1, <3>4, <3>6 DEF f
      <4>5. Named(pidFile', servers')
        BY <2>1, <4>2, NamedStays DEF UIInv
      <4> QED
        BY <2>1, <3>1, <3>3, <3>4, <3>6, <4>1, <4>2, <4>3, <4>4, <4>5, GoesOnTyped DEF UIInv, UITyped, Pids
    <3>8. ASSUME ~disturbed
          PROVE  OneAtATime' /\ StartsForSomebody' /\ FileNamesTheLiving' /\ StopStops'
      <4>1. OneAtATime /\ Alive = {} /\ StopStops
        BY <2>1, <3>8 DEF UIInv, FileNamesTheLiving
      <4>2. \A d \in UICommands \ {c} : UAt(d, "idle")' \/ UAt(d, "ended")'
        BY <2>1, <3>5, <4>1 DEF OneAtATime, Busy, UAt
      <4>3. UAt(c, "write")' /\ ui'[c].pid = f
        BY <3>4, <3>5 DEF UAt
      <4>4. Alive' \subseteq {f}
        BY <3>6, <4>1 DEF Alive, Pids
      <4>5. OneAtATime' /\ StartsForSomebody'
        BY <4>2, <4>3 DEF OneAtATime, Busy, StartsForSomebody
      <4>6. FileNamesTheLiving'
        BY <4>2, <4>3, <4>4 DEF FileNamesTheLiving, UAt
      <4>7. StopStops'
        BY <2>1, <3>5, <4>1, <4>3 DEF StopStops, UAt
      <4> QED
        BY <4>5, <4>6, <4>7
    <3> QED
      BY <2>1, <3>7, <3>8 DEF UIInv
  <2> QED
    BY <1>3, <2>2, <2>3 DEF Spawn
<1>4. ASSUME NEW c \in UICommands, writePIDFile(c) PROVE UIInv'
  <2>1. UAt(c, "write") /\ c \in Busy /\ UNCHANGED disturbed /\ Started(ui[c].pid) /\ ui[c].pid \in Pids
    BY <1>4 DEF writePIDFile, Busy, UAt, UIInv, UITyped, Started, Pids
  <2>2. CASE pidFile' = ui[c].pid /\ Go(c, "ready") /\ UNCHANGED servers
    <3> DEFINE r == [ui[c] EXCEPT !.pc = "ready"]
    <3>1. r \in UIState /\ r.pc = "ready" /\ r.port = ui[c].port /\ r.kind = ui[c].kind
      BY <1>a DEF UIState
    <3>2. ui' = [ui EXCEPT ![c] = r]
      BY <2>2, Zenon DEF Go
    <3> HIDE DEF r
    <3>3. /\ ui' \in [UICommands -> UIState] /\ ui'[c] = r
          /\ \A d \in UICommands \ {c} : ui'[d] = ui[d]
      BY <3>1, <3>2, GoesOn DEF UIInv
    <3>4. UITyped'
      <4>1. ui[c].port \in Ports /\ ui[c].kind = "ensure"
        BY <2>1 DEF UAt, UIInv, UITyped
      <4>2. Named(pidFile', servers')
        BY <2>1, <2>2 DEF Named, Started
      <4> QED
        BY <2>1, <2>2, <3>1, <3>2, <4>1, <4>2, GoesOnTyped DEF UIInv, UITyped, Pids
    <3>5. ASSUME ~disturbed
          PROVE  OneAtATime' /\ StartsForSomebody' /\ FileNamesTheLiving' /\ StopStops'
      <4>1. OneAtATime /\ Alive \subseteq {ui[c].pid} /\ StopStops
        BY <2>1, <3>5 DEF UIInv, FileNamesTheLiving
      <4>2. \A d \in UICommands \ {c} : UAt(d, "idle")' \/ UAt(d, "ended")'
        BY <2>1, <3>3, <4>1 DEF OneAtATime, Busy, UAt
      <4>3. UAt(c, "ready")'
        BY <3>1, <3>3 DEF UAt
      <4>4. Alive' \subseteq {pidFile'}
        BY <2>2, <4>1 DEF Alive, Pids
      <4>5. OneAtATime' /\ StartsForSomebody'
        BY <4>2, <4>3 DEF OneAtATime, Busy, StartsForSomebody
      <4>6. FileNamesTheLiving'
        BY <4>2, <4>3, <4>4 DEF FileNamesTheLiving, UAt
      <4>7. StopStops'
        BY <2>1, <3>3, <4>1, <4>3 DEF StopStops, UAt
      <4> QED
        BY <4>5, <4>6, <4>7
    <3> QED
      BY <2>1, <3>4, <3>5 DEF UIInv
  <2>3. CASE servers' = [servers EXCEPT ![ui[c].pid].state = "dead"] /\ UNCHANGED pidFile /\ End(c)
    <3>1. /\ servers' \in [Pids -> ServerState] /\ servers'[ui[c].pid].state = "dead"
          /\ servers'[ui[c].pid].port = servers[ui[c].pid].port
          /\ \A p \in Pids \ {ui[c].pid} : servers'[p] = servers[p]
      BY <2>1, <2>3, <1>b DEF UIInv, UITyped, ServerState
    <3>2. \A p \in Pids : servers'[p].state = "none" \/ servers'[p].port \in Ports
      <4>1. servers[ui[c].pid].state # "none"
        BY <2>1 DEF UIInv, UITyped, Started
      <4> QED
        BY <2>1, <3>1, <4>1 DEF UIInv, UITyped
    <3>3. ~disturbed => \A p \in Pids : servers'[p].state \notin {"starting", "serving"}
      BY <2>1, <3>1 DEF UIInv, FileNamesTheLiving, Alive
    <3>4. ~disturbed => Left(servers', ui[c].port) = 0
      BY <3>3, NothingLeft
    <3> QED
      BY <2>1, <2>3, <3>1, <3>2, <3>3, <3>4, EndQuiet DEF UIInv, UITyped
  <2> QED
    BY <1>4, <2>2, <2>3 DEF writePIDFile
<1>5. ASSUME NEW c \in UICommands, waitReady(c) PROVE UIInv'
  <2>1. UAt(c, "ready") /\ c \in Busy /\ UNCHANGED <<servers, pidFile>> /\ End(c)
        /\ ui[c].kind = "ensure"
    BY <1>5 DEF waitReady, Busy, UAt, UIInv, UITyped
  <2>2. disturbed' \in BOOLEAN /\ (~disturbed' => ~disturbed)
    <3>1. disturbed \in BOOLEAN /\ (disturbed' = disturbed \/ disturbed' = (disturbed \/ Starting # {}))
      BY <1>5 DEF waitReady, UIInv, UITyped
    <3> QED
      BY <3>1
  <2>3. ASSUME ~disturbed'
        PROVE  /\ \A p \in Pids : servers'[p].state # "starting"
               /\ \A p \in Pids : servers'[p].state = "serving" => p = pidFile'
    <3>1. \A d \in UICommands : ~UAt(d, "write")
      BY <2>1, <2>2, <2>3 DEF UIInv, OneAtATime, Busy, UAt
    <3>2. Alive \subseteq {pidFile}
      BY <2>2, <2>3, <3>1 DEF UIInv, FileNamesTheLiving
    <3>3. Serving(ui[c].port) # {} \/ Starting = {}
      BY <1>5, <2>3 DEF waitReady, IsRunning
    <3>4. Starting = {}
      BY <3>2, <3>3 DEF Serving, ServingOf, Alive, Starting
    <3> QED
      BY <2>1, <3>2, <3>4 DEF Starting, Alive
  <2> QED
    BY <2>1, <2>2, <2>3, EndQuiet DEF UIInv, UITyped
<1>6. ASSUME NEW c \in UICommands, Stopped(c) PROVE UIInv'
  <2>1. UAt(c, "dying") /\ c \in Busy /\ UNCHANGED servers /\ End(c)
    BY <1>6 DEF Stopped, Busy, UAt
  <2>2. disturbed' \in BOOLEAN /\ (~disturbed' => ~disturbed) /\ pidFile' \in {0, pidFile}
    <3>1. disturbed \in BOOLEAN
          /\ (disturbed' = disturbed \/ disturbed' = (disturbed \/ Serving(ui[c].port) # {}))
      BY <1>6 DEF Stopped, UIInv, UITyped
    <3>2. pidFile' \in {0, pidFile}
      BY <1>6 DEF Stopped, UIInv, UITyped
    <3> QED
      BY <3>1, <3>2
  <2>3. ~disturbed => \A p \in Pids : servers'[p].state \notin {"starting", "serving"}
    BY <2>1 DEF UIInv, FileNamesTheLiving, Alive
  <2>4. ~disturbed => Left(servers', ui[c].port) = 0
    BY <2>3, NothingLeft
  <2> QED
    BY <2>1, <2>2, <2>3, <2>4, EndQuiet DEF UIInv, UITyped
<1>7. ASSUME NEW c \in UICommands, CommandDies(c) PROVE UIInv'
  <2> DEFINE r == [ui[c] EXCEPT !.pc = "ended", !.kind = "none"]
  <2>1. c \in Busy /\ UNCHANGED <<servers, pidFile>>
        /\ disturbed' = (disturbed \/ Starting # {} \/ UAt(c, "write"))
    BY <1>7 DEF CommandDies
  <2>2. r \in UIState /\ r.pc = "ended" /\ r.kind = "none" /\ r.port = ui[c].port
    BY <1>a DEF UIState
  <2>3. ui' = [ui EXCEPT ![c] = r]
    BY <1>7, Zenon DEF CommandDies
  <2> HIDE DEF r
  <2>4. /\ ui' \in [UICommands -> UIState] /\ ui'[c] = r
        /\ \A d \in UICommands \ {c} : ui'[d] = ui[d]
    BY <2>2, <2>3, GoesOn DEF UIInv
  <2>5. UITyped'
    <3>1. ui[c].port \in Ports /\ disturbed' \in BOOLEAN
      BY <2>1 DEF Busy, UAt, UIInv, UITyped
    <3> QED
      BY <2>1, <2>2, <2>3, <3>1, GoesOnTyped DEF UIInv, UITyped, Pids
  <2>6. ASSUME ~disturbed'
        PROVE  OneAtATime' /\ StartsForSomebody' /\ FileNamesTheLiving' /\ StopStops'
    <3>1. ~disturbed /\ Starting = {} /\ ~UAt(c, "write")
      BY <2>1, <2>6
    <3>2. OneAtATime /\ FileNamesTheLiving /\ StopStops
      BY <3>1 DEF UIInv
    <3>3. \A d \in UICommands : UAt(d, "idle")' \/ UAt(d, "ended")'
      BY <2>1, <2>2, <2>4, <3>2 DEF OneAtATime, Busy, UAt
    <3>4. \A d \in UICommands : ~UAt(d, "write")
      BY <2>1, <3>1, <3>2 DEF OneAtATime, Busy, UAt
    <3>5. Alive' \subseteq {pidFile'}
      BY <2>1, <3>2, <3>4 DEF FileNamesTheLiving, Alive, Pids
    <3>6. OneAtATime' /\ StartsForSomebody'
      BY <2>1, <3>1, <3>3 DEF OneAtATime, Busy, StartsForSomebody, Starting, Pids
    <3>7. FileNamesTheLiving'
      BY <3>3, <3>5 DEF FileNamesTheLiving, UAt
    <3>8. StopStops'
      BY <2>1, <2>2, <2>4, <3>2 DEF StopStops, UAt
    <3> QED
      BY <3>6, <3>7, <3>8
  <2> QED
    BY <2>5, <2>6 DEF UIInv
<1>8. ASSUME NEW p \in Pids, Run(p) PROVE UIInv'
  <2>1. servers[p].state = "starting" /\ UNCHANGED <<pidFile, ui, disturbed>>
    BY <1>8 DEF Run, Starting
  <2>2. \E s \in {"serving", "dead"} : servers' = [servers EXCEPT ![p].state = s]
    BY <1>8 DEF Run
  <2> QED
    BY <2>1, <2>2, ServersMayGo
<1>9. ASSUME NEW p \in Pids, ServerDies(p) PROVE UIInv'
  BY <1>9, ServersMayGo DEF ServerDies
<1>10. ASSUME NEW port \in Ports, Foreground(port) PROVE UIInv'
  <2>1. FirstFresh \in FreshPids /\ FirstFresh \in Pids /\ disturbed' = TRUE
        /\ UNCHANGED <<pidFile, ui>>
    BY <1>10, FirstFreshIsFresh DEF Foreground, Spawned, FreshPids
  <2> DEFINE f == FirstFresh
  <2>2. servers' = [servers EXCEPT ![f] = [state |-> "starting", port |-> port]]
    BY <1>10 DEF Foreground, Spawned
  <2>3. /\ servers' \in [Pids -> ServerState] /\ servers'[f].state = "starting"
        /\ servers'[f].port \in Ports /\ \A p \in Pids \ {f} : servers'[p] = servers[p]
    BY <2>1, <2>2 DEF UIInv, UITyped, ServerState
  <2> HIDE DEF f
  <2>4. \A p \in Pids : servers'[p].state = "none" \/ servers'[p].port \in Ports
    BY <2>3 DEF UIInv, UITyped
  <2>5. \A p : Started(p) => p \in Pids /\ servers'[p].state # "none"
    BY <2>3 DEF Started
  <2>6. UITyped'
    BY <2>1, <2>3, <2>4, <2>5 DEF UIInv, UITyped, ServerState, UIState, Pids, UAt, Started, Named
  <2> QED
    BY <2>1, <2>6 DEF UIInv
<1>11. ASSUME NEW c \in UICommands, NEW port \in Ports, NEW running \in BOOLEAN,
              BeginStop(c, port, running)
       PROVE  UIInv'
  <2> DEFINE gone == pidFile = 0 \/ servers[pidFile].state = "dead"
             kills == running /\ ~gone
             l == Left(servers, port)
             pc == IF running /\ ~gone THEN "dying" ELSE "ended"
             stop == [ui[c] EXCEPT !.port = port, !.kind = "stop"]
             r == [stop EXCEPT !.pc = pc, !.left = l]
  <2>1. /\ UAt(c, "idle") /\ disturbed' = (disturbed \/ Busy # {} \/ Missed(port, running))
        /\ pidFile' = IF running THEN pidFile ELSE 0
        /\ servers' = IF running /\ ~gone THEN [servers EXCEPT ![pidFile].state = "dead"]
                      ELSE servers
    BY <1>11 DEF BeginStop, MayBegin
  <2>2. l \in Pids \cup {0}
    BY LeftTyped
  <2>3. ui' = [ui EXCEPT ![c] = r]
    BY <1>11, Zenon DEF BeginStop
  <2> HIDE DEF l, kills
  <2>4. /\ r \in UIState /\ r.pc = pc /\ r.kind = "stop" /\ r.port = port /\ r.left = l
        /\ pc \in {"dying", "ended"} /\ (pc = "dying" <=> kills)
    BY <1>a, <2>2 DEF UIState, kills
  <2> HIDE DEF r, pc
  <2>5. /\ ui' \in [UICommands -> UIState] /\ ui'[c] = r
        /\ \A d \in UICommands \ {c} : ui'[d] = ui[d]
    BY <2>3, <2>4, GoesOn DEF UIInv
  <2>6. /\ servers' \in [Pids -> ServerState]
        /\ \A p \in Pids : /\ servers'[p].port = servers[p].port
                           /\ servers'[p].state = servers[p].state
                              \/ (kills /\ p = pidFile /\ servers'[p].state = "dead")
        /\ kills => pidFile \in Pids /\ servers'[pidFile].state = "dead"
    <3>1. CASE kills
      <4>1. pidFile \in Pids /\ servers' = [servers EXCEPT ![pidFile].state = "dead"]
        BY <2>1, <3>1 DEF UIInv, UITyped, Named, kills
      <4>2. servers' \in [Pids -> ServerState] /\ servers'[pidFile].state = "dead"
            /\ servers'[pidFile].port = servers[pidFile].port
            /\ \A p \in Pids \ {pidFile} : servers'[p] = servers[p]
        BY <1>b, <4>1 DEF UIInv, UITyped, ServerState
      <4> QED
        BY <3>1, <4>1, <4>2
    <3>2. CASE ~kills
      <4>1. servers' = servers
        BY <2>1, <3>2 DEF kills
      <4>2. servers' \in [Pids -> ServerState]
        BY <4>1 DEF UIInv, UITyped
      <4> QED
        BY <3>2, <4>1, <4>2
    <3> QED
      BY <3>1, <3>2
  <2>7. ASSUME ~disturbed'
        PROVE  /\ ~disturbed /\ Busy = {} /\ (~running => Serving(port) = {})
               /\ Starting = {} /\ Alive \subseteq {pidFile}
               /\ (running => Serving(port) # {})
    <3>1. ~disturbed /\ Busy = {} /\ ~Missed(port, running)
      BY <2>1, <2>7
    <3>2. \A d \in UICommands : UAt(d, "idle") \/ UAt(d, "ended")
      BY <3>1 DEF Busy
    <3>3. Starting = {} /\ Alive \subseteq {pidFile}
      BY <3>1, <3>2 DEF UIInv, StartsForSomebody, FileNamesTheLiving, UAt
    <3>4. running => Serving(port) # {}
      BY <1>11 DEF BeginStop, IsRunning
    <3> QED
      BY <3>1, <3>3, <3>4 DEF Missed
  <2>8. ASSUME ~disturbed'
        PROVE  \A p \in Pids : servers'[p].state \notin {"starting", "serving"}
    <3>1. \A p \in Alive : p \in Serving(port)
      BY <1>b, <2>7, <2>8 DEF Alive, Starting, Serving, ServingOf, OnePort, UIInv, UITyped
    <3>2. CASE running
      <4>1. PICK p \in Pids : p \in Serving(port)
        BY <2>7, <2>8, <3>2 DEF Serving, ServingOf
      <4>2. servers[p].state = "serving" /\ p = pidFile
        BY <2>7, <2>8, <4>1 DEF Serving, ServingOf, Alive
      <4>3. kills
        BY <3>2, <4>2, UIAssumption DEF Pids, kills
      <4> QED
        BY <2>6, <2>7, <2>8, <4>3 DEF Alive
    <3>3. CASE ~running
      BY <2>6, <2>7, <2>8, <3>1, <3>3 DEF Alive
    <3> QED
      BY <3>2, <3>3
  <2>9. UITyped'
    <3>1. pidFile' \in {0, pidFile} /\ disturbed' \in BOOLEAN
      BY <2>1 DEF UIInv, UITyped
    <3>2. \A p \in Pids : /\ servers'[p].state = "none" \/ servers'[p].port \in Ports
                          /\ servers[p].state # "none" => servers'[p].state # "none"
      <4>1. kills => servers[pidFile].state # "none"
        BY DEF kills, UIInv, UITyped, Named
      <4> QED
        BY <2>6, <4>1 DEF UIInv, UITyped
    <3> QED
      <4>1. Named(pidFile', servers')
        BY <3>1, <3>2, NamedStays DEF UIInv
      <4> QED
        BY <2>3, <2>4, <2>6, <3>1, <3>2, <4>1, GoesOnTyped DEF UIInv
  <2>10. ASSUME ~disturbed'
         PROVE  OneAtATime' /\ StartsForSomebody' /\ FileNamesTheLiving' /\ StopStops'
    <3>1. \A d \in UICommands \ {c} : UAt(d, "idle")' \/ UAt(d, "ended")'
      BY <2>5, <2>7, <2>10 DEF Busy, UAt
    <3>2. Alive' = {} /\ Starting' = {}
      BY <2>8, <2>10 DEF Alive, Starting, Pids
    <3>3. UAt(c, "dying")' \/ (UAt(c, "ended")' /\ ui'[c].left = 0)
      <4>1. CASE kills
        BY <2>4, <2>5, <4>1 DEF UAt
      <4>2. CASE ~kills
        <5>1. \A p \in Pids : servers[p].state # "serving"
          BY <2>6, <2>8, <2>10, <4>2
        <5>2. l = 0
          BY <5>1, NothingLeft DEF l
        <5> QED
          BY <2>4, <2>5, <4>2, <5>2 DEF UAt
      <4> QED
        BY <4>1, <4>2
    <3>4. OneAtATime' /\ StartsForSomebody' /\ FileNamesTheLiving'
      BY <3>1, <3>2 DEF OneAtATime, Busy, StartsForSomebody, FileNamesTheLiving
    <3>5. StopStops'
      BY <2>5, <2>7, <2>10, <3>3 DEF UIInv, StopStops, UAt
    <3> QED
      BY <3>4, <3>5
  <2> QED
    BY <2>9, <2>10 DEF UIInv
<1> QED
  BY <1>1, <1>2, <1>3, <1>4, <1>5, <1>6, <1>7, <1>8, <1>9, <1>10, <1>11 DEF UINext, UIStep

(* After commands that ran one after the other, a command that stops the   *)
(* UI leaves none behind (ui/daemon.go:90-130), where one port is used.    *)
THEOREM StopsStop ==
  ASSUME OnePort PROVE UISpec => []StopStops
<1>1. UIInv => StopStops
  BY DEF UIInv, StopStops
<1>2. UIInv /\ [UINext]_uiVars => UIInv'
  BY UIAssumption, UIStepInv
<1> QED
  BY <1>1, <1>2, UIInitInv, PTL DEF UISpec

-------------------------------------------------------------------------------
(* Diagnostics.  The argument: the checks come in one order, so that what  *)
(* is skipped is decided after the environment and the services of the lab *)
(* are known, and a lab without services has failed already; a check that  *)
(* begins has time left, so only its own call can go over the overall one. *)

Remote == {"remote.auth", "remote.reachability"}
Known == {"config.active", "filesystem.config", "filesystem.version", "compose.services",
          "environment.active"}

AllChecks == {Checks[i] : i \in 1..Len(Checks)}
BudgetTypes == [{"check", "overall"} -> Int]
DoctorState ==
  [pc : {"idle", "checks", "fatal", "reported"}, next : Nat \ {0}, budget : BudgetTypes, time : Int,
   env : {"unknown", "lab", "remote", "incomplete"}, auth : BOOLEAN, labDown : BOOLEAN,
   failed : BOOLEAN, skipped : SUBSET AllChecks, ok : BOOLEAN]

(* What a diagnosis has skipped so far it had a reason for.                *)
SkipsJustified(d) ==
  /\ d.next <= 9 => d.skipped = {}
  /\ d.labDown => d.failed
  /\ \A c \in d.skipped : d.labDown \/ (c \in Remote /\ d.env = "lab")
  /\ d.ok => d.pc = "reported" /\ ~d.failed

InTime(d) == d.time <= d.budget["overall"] + Stall /\ (d.pc = "idle" => d.time = 0)

DoctorInv == doctor \in DoctorState /\ SkipsJustified(doctor) /\ InTime(doctor)

(* The first ten checks are the same everywhere, and come in this order.   *)
LEMMA FirstTen ==
  /\ Checks[1] = "config.active" /\ Checks[2] = "filesystem.config"
  /\ Checks[3] = "filesystem.version" /\ Checks[4] = "compose.services"
  /\ Checks[5] = "docker.disk" /\ Checks[6] = "docker.volumes"
  /\ Checks[7] = "overlay.consistency" /\ Checks[8] = "environment.active"
  /\ Checks[9] = "remote.auth" /\ Checks[10] = "remote.reachability"
BY ServicesAssumption DEF Checks, Files, Docker, Selected

(* The services follow.                                                    *)
LEMMA ThenServices ==
  /\ DOMAIN Checks = 1..(10 + Len(Services)) /\ Len(Services) \in Nat
  /\ Len(Checks) = 10 + Len(Services)
  /\ \A i \in 11..(10 + Len(Services)) : /\ i - 10 \in DOMAIN Services
                                         /\ Checks[i] = Services[i - 10]
BY ServicesAssumption DEF Checks, Files, Docker, Selected

(* The places of the checks whose answers later ones use.                  *)
LEMMA ChecksInOrder ==
  ASSUME NEW i \in 1..Len(Checks)
  PROVE  /\ i \in Nat
         /\ Checks[i] = "compose.services" => i = 4
         /\ Checks[i] = "environment.active" => i = 8
         /\ Checks[i] \in Remote => i \in {9, 10}
         /\ i <= 8 => Checks[i] \in Known \cup Optional
<1>1. i \in 1..(10 + Len(Services)) /\ Len(Services) \in Nat
  BY ServicesAssumption DEF Checks, Files, Docker, Selected
<1>2. CASE i > 10
  <2>1. i - 10 \in DOMAIN Services /\ Checks[i] = Services[i - 10]
    BY <1>1, <1>2, ThenServices
  <2> QED
    BY <1>1, <1>2, <2>1, ServicesAssumption DEF Remote
<1>3. CASE i <= 10
  <2>1. i \in {1, 2, 3, 4, 5, 6, 7, 8, 9, 10}
    BY <1>1, <1>3
  <2> QED
    BY <2>1, FirstTen DEF Remote, Known, Optional
<1> QED
  BY <1>1, <1>2, <1>3

(* A budget has a time for one check and one for all of them, and the      *)
(* latter is not zero.                                                     *)
LEMMA BudgetTyped ==
  /\ DefaultBudget \in BudgetTypes /\ DefaultBudget["overall"] > 0
  /\ \A asked \in Budgets : Budget(asked) \in BudgetTypes /\ Budget(asked)["overall"] > 0
<1>1. DefaultBudget \in BudgetTypes /\ DefaultBudget["overall"] > 0
  BY DiagnosticsAssumption DEF BudgetTypes
<1>2. ASSUME NEW asked \in Budgets
      PROVE  Budget(asked) \in BudgetTypes /\ Budget(asked)["overall"] > 0
  <2> DEFINE b == [f \in {"check", "overall"} |-> IF asked[f] <= 0 THEN DefaultBudget[f] ELSE asked[f]]
  <2>1. b \in BudgetTypes /\ b["overall"] > 0
    BY <1>1, DiagnosticsAssumption DEF BudgetTypes
  <2>2. Budget(asked) = [b EXCEPT !.check = IF b.check > b.overall THEN b.overall ELSE b.check]
    BY <2>1, Zenon DEF Budget
  <2> HIDE DEF b
  <2> QED
    BY <2>1, <2>2 DEF BudgetTypes
<1> QED
  BY <1>1, <1>2

(* The invariant holds before anybody asks.                                *)
LEMMA DoctorInit == DiagnosticsInit => DoctorInv
<1> SUFFICES ASSUME DiagnosticsInit PROVE DoctorInv
  OBVIOUS
<1>1. doctor = [pc |-> "idle", next |-> 1, budget |-> DefaultBudget, time |-> 0, env |-> "unknown",
               auth |-> FALSE, labDown |-> FALSE, failed |-> FALSE, skipped |-> {}, ok |-> FALSE]
  BY DEF DiagnosticsInit
<1>2. doctor \in DoctorState
  BY <1>1, BudgetTyped DEF DoctorState
<1>3. SkipsJustified(doctor)
  BY <1>1 DEF SkipsJustified
<1>4. InTime(doctor)
  BY <1>1, BudgetTyped, DiagnosticsAssumption DEF InTime, BudgetTypes
<1> QED
  BY <1>2, <1>3, <1>4 DEF DoctorInv

(* Whatever a check finds, the report stays justified.                     *)
LEMMA ReportStaysJustified ==
  ASSUME DoctorInv, doctor.pc = "checks", doctor.next \in 1..Len(Checks),
         NEW c, c = Checks[doctor.next], NEW status \in {"pass", "warn", "fail", "skipped"},
         status = "skipped" => doctor.next > 8 /\ (doctor.labDown \/ (c \in Remote /\ doctor.env = "lab")),
         NEW d, d = Report(c, status)
  PROVE  /\ d \in DoctorState /\ SkipsJustified(d) /\ d.pc = "checks"
         /\ d.time = doctor.time /\ d.budget = doctor.budget
         /\ d.next = doctor.next + 1 /\ (status # "skipped" => d.skipped = doctor.skipped)
         /\ status = "fail" /\ c \notin Optional => d.failed
<1>1. c \in AllChecks /\ doctor \in DoctorState
  BY DEF AllChecks, DoctorInv
<1>2. /\ d \in DoctorState
      /\ d.next = doctor.next + 1 /\ d.pc = doctor.pc /\ d.time = doctor.time
      /\ d.budget = doctor.budget /\ d.env = doctor.env /\ d.labDown = doctor.labDown
      /\ d.ok = doctor.ok
      /\ doctor.failed \/ (status = "fail" /\ c \notin Optional) => d.failed
      /\ d.failed => doctor.failed \/ (status = "fail" /\ c \notin Optional)
      /\ d.skipped = IF status = "skipped" THEN doctor.skipped \cup {c} ELSE doctor.skipped
  <2> DEFINE failed == doctor.failed \/ (status = "fail" /\ c \notin Optional)
             skipped == IF status = "skipped" THEN doctor.skipped \cup {c} ELSE doctor.skipped
  <2>1. failed \in BOOLEAN
    BY <1>1 DEF DoctorState
  <2>2. skipped \in SUBSET AllChecks /\ doctor.next + 1 \in Nat \ {0}
    BY <1>1 DEF DoctorState
  <2>3. d = [doctor EXCEPT !.next = doctor.next + 1, !.skipped = skipped, !.failed = failed]
    BY <1>1 DEF Report, DoctorState
  <2> HIDE DEF failed, skipped
  <2>4. /\ d \in DoctorState
        /\ d.next = doctor.next + 1 /\ d.pc = doctor.pc /\ d.time = doctor.time
        /\ d.budget = doctor.budget /\ d.env = doctor.env /\ d.labDown = doctor.labDown
        /\ d.ok = doctor.ok /\ d.failed = failed /\ d.skipped = skipped
    BY <1>1, <2>1, <2>2, <2>3, ZenonT(40) DEF DoctorState
  <2> QED
    BY <2>4 DEF failed, skipped
<1>3. SkipsJustified(d)
  BY <1>1, <1>2 DEF SkipsJustified, DoctorInv, DoctorState
<1> QED
  BY <1>2, <1>3

(* So it does with what the check learned for the later ones.              *)
LEMMA FindingsJustified ==
  ASSUME DoctorInv, doctor.pc = "checks", doctor.next \in 1..Len(Checks),
         NEW c, c = Checks[doctor.next], NEW d \in Findings(c)
  PROVE  /\ d \in DoctorState /\ SkipsJustified(d)
         /\ d.time = doctor.time /\ d.budget = doctor.budget /\ d.pc # "idle"
<1> DEFINE i == doctor.next
<1>a. /\ c = "compose.services" => i = 4
      /\ c = "environment.active" => i = 8
      /\ c \in Remote => i \in {9, 10}
      /\ i <= 8 => c \in Known \cup Optional
      /\ i \in Nat
  BY ChecksInOrder
<1>b. /\ (i <= 9 => doctor.skipped = {}) /\ (doctor.labDown => doctor.failed)
      /\ doctor \in DoctorState /\ ~doctor.ok
  BY DEF DoctorInv, SkipsJustified
<1>1. ASSUME NEW status \in {"pass", "warn", "fail"}, d = Report(c, status)
      PROVE  d \in DoctorState /\ SkipsJustified(d) /\ d.time = doctor.time /\ d.budget = doctor.budget
             /\ d.pc # "idle"
  BY <1>1, ReportStaysJustified
<1>2. CASE c = "config.active"
  BY <1>1, <1>2 DEF Findings, Reports
<1>3. CASE c = "compose.services"
  <2>1. CASE d \in Reports(c, {"fail"})
    BY <1>1, <2>1 DEF Reports
  <2>2. CASE \E states \in SUBSET {"running", "exited", "degraded"} :
               d = [Report(c, composeStatus(states)) EXCEPT !.labDown = states = {}]
    <3>1. PICK states \in SUBSET {"running", "exited", "degraded"} :
               d = [Report(c, composeStatus(states)) EXCEPT !.labDown = states = {}]
      BY <2>2
    <3> DEFINE e == Report(c, composeStatus(states))
               down == states = {}
    <3>2. composeStatus(states) \in {"pass", "warn", "fail"}
          /\ (states = {} => composeStatus(states) = "fail")
      BY DEF composeStatus
    <3>3. /\ e \in DoctorState /\ SkipsJustified(e) /\ e.pc = "checks" /\ e.time = doctor.time
          /\ e.budget = doctor.budget /\ e.skipped = doctor.skipped
          /\ (states = {} => e.failed)
      BY <1>3, <3>2, ReportStaysJustified DEF Optional
    <3>4. d = [e EXCEPT !.labDown = down] /\ down \in BOOLEAN
      BY <3>1
    <3> HIDE DEF e, down
    <3>5. d \in DoctorState /\ d.next = e.next /\ d.pc = e.pc /\ d.time = e.time /\ d.ok = e.ok
          /\ d.budget = e.budget /\ d.skipped = e.skipped /\ d.failed = e.failed /\ d.labDown = down
      BY <3>3, <3>4 DEF DoctorState
    <3>6. doctor.skipped = {}
      BY <1>3, <1>a, <1>b
    <3>7. SkipsJustified(d)
      BY <3>3, <3>5, <3>6 DEF SkipsJustified, down
    <3> QED
      BY <3>3, <3>5, <3>7
  <2> QED
    <3>1. Findings(c) =
            Reports(c, {"fail"}) \cup
            {[Report(c, composeStatus(states)) EXCEPT !.labDown = states = {}] :
               states \in SUBSET {"running", "exited", "degraded"}}
      BY <1>3 DEF Findings, Optional
    <3> QED
      BY <2>1, <2>2, <3>1
<1>4. CASE c \in Optional
  BY <1>1, <1>4 DEF Findings, Reports, Optional
<1>5. CASE c = "environment.active"
  <2>1. CASE d \in Reports(c, {"fail"})
    BY <1>1, <2>1 DEF Reports
  <2>2. CASE d = [doctor EXCEPT !.pc = "fatal"]
    BY <1>b, <2>2 DEF DoctorState, SkipsJustified, DoctorInv
  <2>3. ASSUME NEW e \in {"lab", "remote", "incomplete"}, d = [Report(c, "pass") EXCEPT !.env = e]
        PROVE  d \in DoctorState /\ SkipsJustified(d) /\ d.time = doctor.time /\ d.budget = doctor.budget
               /\ d.pc # "idle"
    <3> DEFINE f == Report(c, "pass")
    <3>1. /\ f \in DoctorState /\ SkipsJustified(f) /\ f.pc = "checks" /\ f.time = doctor.time
          /\ f.budget = doctor.budget /\ f.skipped = doctor.skipped
      BY ReportStaysJustified
    <3> HIDE DEF f
    <3>2. d \in DoctorState /\ d.next = f.next /\ d.pc = f.pc /\ d.time = f.time /\ d.ok = f.ok
          /\ d.budget = f.budget /\ d.skipped = f.skipped /\ d.failed = f.failed
          /\ d.labDown = f.labDown
      BY <2>3, <3>1 DEF DoctorState, f
    <3>3. doctor.skipped = {}
      BY <1>5, <1>a, <1>b
    <3> QED
      BY <3>1, <3>2, <3>3 DEF SkipsJustified
  <2> QED
    BY <1>5, <2>1, <2>2, <2>3 DEF Findings, Optional
<1>6. CASE c \in Remote
  <2>1. CASE d = Report(c, "skipped") /\ doctor.env = "lab"
    BY <1>6, <1>a, <2>1, ReportStaysJustified
  <2>2. CASE d \in Reports(c, {"pass", "fail"})
    BY <1>1, <2>2 DEF Reports
  <2>3. CASE d = [Report(c, "pass") EXCEPT !.auth = TRUE]
    <3> DEFINE f == Report(c, "pass")
    <3>1. /\ f \in DoctorState /\ SkipsJustified(f) /\ f.time = doctor.time
          /\ f.budget = doctor.budget /\ f.pc = "checks"
      BY ReportStaysJustified
    <3> HIDE DEF f
    <3> QED
      BY <2>3, <3>1 DEF DoctorState, SkipsJustified, f
  <2> QED
    BY <1>6, <2>1, <2>2, <2>3 DEF Findings, Optional, Remote, Reports
<1>7. CASE c \notin Known \cup Optional \cup Remote
  <2>1. CASE d = Report(c, "skipped") /\ doctor.labDown
    BY <1>7, <1>a, <2>1, ReportStaysJustified
  <2>2. CASE d \in Reports(c, {"pass", "warn", "fail"})
    BY <1>1, <2>2 DEF Reports
  <2> QED
    BY <1>7, <2>1, <2>2 DEF Findings, Optional, Remote, Known, Reports
<1>8. CASE c \in {"filesystem.config", "filesystem.version"}
  BY <1>1, <1>8 DEF Findings, Reports, Optional
<1> QED
  BY <1>2, <1>3, <1>4, <1>5, <1>6, <1>7, <1>8 DEF Known

(* The time a check takes disturbs nothing else.                           *)
LEMMA TimePasses ==
  ASSUME NEW d \in DoctorState, SkipsJustified(d), d.pc # "idle", NEW t \in Int, t <= d.budget["overall"] + Stall,
         doctor' = [d EXCEPT !.time = t]
  PROVE  DoctorInv'
<1>1. doctor' \in DoctorState /\ SkipsJustified(doctor')
  BY DEF DoctorState, SkipsJustified
<1>2. InTime(doctor')
  BY DEF DoctorState, InTime
<1> QED
  BY <1>1, <1>2 DEF DoctorInv, DoctorState, SkipsJustified, InTime

(* A check keeps the report justified and in time.                         *)
LEMMA CheckKeeps == ASSUME DoctorInv, Check PROVE DoctorInv'
<1> DEFINE c == Checks[doctor.next]
           start == doctor.time
           limit == Limit(start)
           gone == Reports(c, {"fail"}) \cup IF c \in Optional THEN Reports(c, {"warn"}) ELSE {}
<1>1. doctor.pc = "checks" /\ doctor.next \in 1..Len(Checks) /\ doctor \in DoctorState
      /\ InTime(doctor)
  <2>1. doctor.pc = "checks" /\ doctor.next <= Len(Checks)
    BY DEF Check
  <2>2. doctor.next \in Nat \ {0} /\ Len(Checks) \in Nat
    BY ThenServices DEF DoctorInv, DoctorState
  <2> QED
    BY <2>1, <2>2 DEF DoctorInv
<1>2. start \in Int /\ limit \in Int /\ limit <= doctor.budget["overall"] /\ Stall \in Nat
      /\ doctor.budget["overall"] \in Int
  BY <1>1, DiagnosticsAssumption DEF DoctorState, BudgetTypes, Limit
<1>3. CASE start >= limit
  <2>1. doctor' = Report(c, "fail")
    BY <1>3, Zenon DEF Check
  <2>2. DoctorInv'
    <3>1. doctor' \in DoctorState /\ SkipsJustified(doctor')
          /\ doctor'.time = doctor.time /\ doctor'.budget = doctor.budget /\ doctor'.pc = "checks"
      BY <1>1, <2>1, ReportStaysJustified
    <3> QED
      BY <1>1, <3>1 DEF DoctorInv, InTime
  <2> QED
    BY <2>2
<1>4. ASSUME start < limit, NEW d \in Findings(c), NEW t \in start..(limit - 1),
             doctor' = [d EXCEPT !.time = t]
      PROVE  DoctorInv'
  <2>1. /\ d \in DoctorState /\ SkipsJustified(d)
        /\ d.time = doctor.time /\ d.budget = doctor.budget /\ d.pc # "idle"
    BY <1>1, FindingsJustified
  <2>2. t \in Int /\ t <= d.budget["overall"] + Stall
    BY <1>2, <2>1
  <2> QED
    BY <1>4, <2>1, <2>2, TimePasses
<1>5. ASSUME start < limit, NEW d \in gone,
             NEW t \in limit..(IF Stalls(c) THEN start + Stall ELSE limit),
             doctor' = [d EXCEPT !.time = t]
      PROVE  DoctorInv'
  <2>1. PICK status \in {"warn", "fail"} : d = Report(c, status)
    BY DEF Reports
  <2>2. /\ d \in DoctorState /\ SkipsJustified(d)
        /\ d.time = doctor.time /\ d.budget = doctor.budget /\ d.pc # "idle"
    BY <1>1, <2>1, ReportStaysJustified
  <2>3. t \in Int /\ t <= d.budget["overall"] + Stall
    BY <1>2, <1>5, <2>2
  <2> QED
    BY <1>5, <2>2, <2>3, TimePasses
<1> QED
  <2>1. CASE start < limit
    <3>1. ~(start >= limit)
      BY <1>2, <2>1
    <3>2. \/ \E d \in Findings(c), t \in start..(limit - 1) : doctor' = [d EXCEPT !.time = t]
          \/ \E d \in gone, t \in limit..(IF Stalls(c) THEN start + Stall ELSE limit) :
               doctor' = [d EXCEPT !.time = t]
      BY <3>1, Zenon DEF Check
    <3> QED
      BY <1>4, <1>5, <2>1, <3>2
  <2> QED
    BY <1>2, <1>3, <2>1

(* Every step of a diagnosis keeps its report justified and in time.       *)
LEMMA DoctorStepInv == DoctorInv /\ [DiagnosticsNext]_diagnosticsVars => DoctorInv'
<1> SUFFICES ASSUME DoctorInv, [DiagnosticsNext]_diagnosticsVars PROVE DoctorInv'
  OBVIOUS
<1>1. CASE UNCHANGED doctor
  BY <1>1 DEF DoctorInv, DoctorState, SkipsJustified, InTime
<1>2. ASSUME NEW asked \in Budgets, NEW valid \in BOOLEAN, BeginDoctor(asked, valid)
      PROVE  DoctorInv'
  <2>1. doctor.pc = "idle" /\ doctor \in DoctorState /\ doctor.time = 0 /\ ~doctor.ok
    BY <1>2 DEF BeginDoctor, DoctorInv, SkipsJustified, InTime
  <2>2. CASE doctor' = [doctor EXCEPT !.pc = "checks", !.budget = Budget(asked)]
    <3>1. Budget(asked) \in BudgetTypes /\ Budget(asked)["overall"] > 0
      BY BudgetTyped
    <3> DEFINE b == Budget(asked)
    <3> HIDE DEF b
    <3>2. doctor' = [doctor EXCEPT !.pc = "checks", !.budget = b]
      BY <2>2 DEF b
    <3>3. b \in BudgetTypes /\ b["overall"] > 0
      BY <3>1 DEF b
    <3>4. doctor' \in DoctorState /\ doctor'.budget = b /\ doctor'.time = 0 /\ doctor'.pc = "checks"
      BY <2>1, <3>2, <3>3 DEF DoctorState
    <3>5. SkipsJustified(doctor')
      BY <2>1, <3>2 DEF DoctorInv, DoctorState, SkipsJustified
    <3>6. InTime(doctor')
      BY <3>3, <3>4, DiagnosticsAssumption DEF InTime, BudgetTypes
    <3> QED
      BY <3>4, <3>5, <3>6 DEF DoctorInv, SkipsJustified, InTime, DoctorState
  <2>3. CASE doctor' = [doctor EXCEPT !.pc = "fatal"]
    BY <2>1, <2>3 DEF DoctorInv, DoctorState, SkipsJustified, InTime
  <2> QED
    BY <1>2, <2>2, <2>3 DEF BeginDoctor
<1>3. CASE Check
  BY <1>3, CheckKeeps
<1>4. CASE Aggregate
  <2>1. doctor \in DoctorState /\ doctor.pc = "checks"
        /\ doctor' = [doctor EXCEPT !.pc = "reported", !.ok = ~doctor.failed]
    BY <1>4 DEF Aggregate, DoctorInv
  <2>2. (~doctor.failed) \in BOOLEAN
    BY <2>1 DEF DoctorState
  <2> DEFINE ok == ~doctor.failed
  <2> HIDE DEF ok
  <2>3. doctor' \in DoctorState /\ doctor'.pc = "reported" /\ doctor'.ok = ok
        /\ doctor'.failed = doctor.failed /\ doctor'.skipped = doctor.skipped
        /\ doctor'.next = doctor.next /\ doctor'.labDown = doctor.labDown
        /\ doctor'.env = doctor.env /\ doctor'.time = doctor.time /\ doctor'.budget = doctor.budget
    BY <2>1, <2>2 DEF DoctorState, ok
  <2>4. SkipsJustified(doctor') /\ InTime(doctor')
    BY <2>1, <2>3 DEF DoctorInv, SkipsJustified, InTime, ok
  <2> QED
    BY <2>3, <2>4 DEF DoctorInv, SkipsJustified, InTime, DoctorState
<1>5. CASE SmokeNext \/ UNCHANGED diagnosticsVars
  BY <1>1, <1>5
     DEF SmokeNext, BeginWait, WaitLoop, ProbeEndpoint, Probed, Turn, diagnosticsVars
<1> QED
  BY <1>2, <1>3, <1>4, <1>5 DEF DiagnosticsNext, DoctorNext

(* What a probe has asked, and what it will still ask, are all there is.   *)
SmokeState ==
  [pc : {"idle", "loop", "probe", "ended"}, deadline : Int, time : Int, todo : SUBSET All,
   passed : SUBSET All, failed : SUBSET All, last : {"none", "ok", "error"}]

SmokeInv ==
  /\ smoke \in SmokeState
  /\ smoke.pc = "probe" => All \subseteq smoke.todo \cup smoke.passed \cup smoke.failed
  /\ smoke.last = "ok" => smoke.pc = "ended" /\ RequiredEndpoints \subseteq smoke.passed

(* It is so before a wait begins, and every step of one keeps it.          *)
LEMMA SmokeStepInv ==
  /\ DiagnosticsInit => SmokeInv
  /\ SmokeInv /\ [DiagnosticsNext]_diagnosticsVars => SmokeInv'
<1>1. DiagnosticsInit => SmokeInv
  BY DEF DiagnosticsInit, SmokeInv, SmokeState
<1> SUFFICES ASSUME SmokeInv, [DiagnosticsNext]_diagnosticsVars PROVE SmokeInv'
  BY <1>1
<1>2. CASE UNCHANGED smoke
  BY <1>2 DEF SmokeInv
<1>3. CASE DoctorNext \/ UNCHANGED diagnosticsVars
  BY <1>2, <1>3 DEF DoctorNext, BeginDoctor, Check, Aggregate, diagnosticsVars
<1>4. ASSUME NEW t \in Timeouts, BeginWait(t) PROVE SmokeInv'
  <2>1. t \in Int
    BY DiagnosticsAssumption
  <2> QED
    BY <1>4, <2>1 DEF BeginWait, SmokeInv, SmokeState
<1>5. CASE WaitLoop
  BY <1>5 DEF WaitLoop, SmokeInv, SmokeState
<1>6. CASE ProbeEndpoint
  <2> DEFINE e == CHOOSE x \in smoke.todo : TRUE
  <2>1. e \in smoke.todo /\ smoke.pc = "probe" /\ smoke \in SmokeState
    BY <1>6 DEF ProbeEndpoint, SmokeInv
  <2>2. PICK t \in {0, ProbeTime} :
          \/ smoke' = [smoke EXCEPT !.todo = smoke.todo \ {e}, !.passed = smoke.passed \cup {e}]
          \/ smoke' = [smoke EXCEPT !.todo = smoke.todo \ {e}, !.failed = smoke.failed \cup {e},
                                   !.time = smoke.time + t]
    BY <1>6, <2>1 DEF ProbeEndpoint, SmokeState
  <2> HIDE DEF e
  <2>3. t \in Int
    BY DiagnosticsAssumption
  <2>4. /\ smoke.todo \ {e} \in SUBSET All /\ smoke.passed \cup {e} \in SUBSET All
        /\ smoke.failed \cup {e} \in SUBSET All /\ smoke.time + t \in Int
    BY <2>1, <2>3 DEF SmokeState
  <2>5. /\ smoke' \in SmokeState /\ smoke'.pc = smoke.pc /\ smoke'.last = smoke.last
        /\ smoke'.todo = smoke.todo \ {e}
        /\ \/ smoke'.passed = smoke.passed \cup {e} /\ smoke'.failed = smoke.failed
           \/ smoke'.failed = smoke.failed \cup {e} /\ smoke'.passed = smoke.passed
    <3>1. CASE smoke' = [smoke EXCEPT !.todo = smoke.todo \ {e}, !.passed = smoke.passed \cup {e}]
      BY <2>1, <2>4, <3>1 DEF SmokeState
    <3>2. CASE smoke' = [smoke EXCEPT !.todo = smoke.todo \ {e}, !.failed = smoke.failed \cup {e},
                                      !.time = smoke.time + t]
      BY <2>1, <2>4, <3>2 DEF SmokeState
    <3> QED
      BY <2>2, <3>1, <3>2
  <2>6. SmokeState' = SmokeState /\ All' = All
    BY DEF SmokeState, All
  <2> QED
    BY <2>1, <2>5, <2>6 DEF SmokeInv
<1>7. CASE Probed
  <2>1. smoke \in SmokeState /\ smoke.pc = "probe" /\ smoke.last # "ok"
        /\ All \subseteq smoke.passed \cup smoke.failed
    BY <1>7 DEF Probed, SmokeInv
  <2>2. CASE ProbeOK(smoke.passed, smoke.failed) /\ smoke' = [smoke EXCEPT !.pc = "ended", !.last = "ok"]
    <3>1. RequiredEndpoints \subseteq smoke.passed
      BY <2>1, <2>2 DEF ProbeOK, All
    <3> QED
      BY <2>1, <2>2, <3>1 DEF SmokeInv, SmokeState
  <2>3. CASE smoke' = [smoke EXCEPT !.pc = "loop", !.time = @ + Pause]
    <3>1. smoke.time + Pause \in Int
      BY <2>1, DiagnosticsAssumption DEF SmokeState
    <3> QED
      BY <2>1, <2>3, <3>1 DEF SmokeInv, SmokeState
  <2> QED
    BY <1>7, <2>2, <2>3 DEF Probed
<1>8. ASSUME NEW e \in All, Turn(e) PROVE SmokeInv'
  BY <1>2, <1>8 DEF Turn
<1> QED
  BY <1>3, <1>4, <1>5, <1>6, <1>7, <1>8 DEF DiagnosticsNext, SmokeNext

(* What is called well is well, and is told in time (doctor/deep.go,       *)
(* smoke/wait.go).                                                         *)
THEOREM WellStaysWell == DiagnosticsSpec => []WellMeansWell
<1>1. DoctorInv /\ SmokeInv => WellMeansWell
  <2> SUFFICES ASSUME DoctorInv, SmokeInv PROVE WellMeansWell
    OBVIOUS
  <2>1. doctor.ok => doctor.skipped \subseteq (IF doctor.env = "lab" THEN Remote ELSE {})
    BY DEF DoctorInv, SkipsJustified
  <2>2. doctor.time <= doctor.budget.overall + Stall
    BY DEF DoctorInv, InTime
  <2> QED
    BY <2>1, <2>2 DEF WellMeansWell, SmokeInv, Remote
<1> QED
  BY <1>1, DoctorInit, DoctorStepInv, SmokeStepInv, PTL DEF DiagnosticsSpec

-------------------------------------------------------------------------------
(* ProcessGraph.  The argument: what graph.go finds by following flows is  *)
(* what a recursive function returns.  Such a function is chosen by its    *)
(* equation, so each time a solution is shown that says what it finds      *)
(* without following anything (the closure, the simple paths, the simple   *)
(* cycles); and any solution agrees with it, since a set that grows within *)
(* a scope, and a path without repetitions, run out of elements            *)
(* (LessIsLeft, PathsRunOut).                                              *)

(* What the flows of C lead to is in C.                                    *)
IsClosed(p, C) == \A i \in C : Targets(p, i) \subseteq C

(* A set of natural numbers that is not empty has a least element.         *)
LEMMA LeastOf ==
  ASSUME NEW S, S \subseteq Nat, S # {}
  PROVE  \E m \in S : \A n \in S : m <= n
<1>1. PICK m \in S : \A n \in S : <<n, m>> \notin OpToRel(<, Nat)
  BY NatLessThanWellFounded, WFMin
<1>2. \A n \in S : ~ (n < m)
  BY <1>1 DEF OpToRel
<1> QED
  BY <1>2

(* The function that ReachableFrom applies: the elements a set of elements *)
(* reaches.                                                                *)
Reaches(p, scope) ==
  CHOOSE reach :
    reach = [S \in SUBSET Nodes(p, scope) |->
               LET more == S \cup UNION {Targets(p, i) : i \in S}
               IN  IF more = S THEN S ELSE reach[more]]

(* It is that function.                                                    *)
LEMMA ReachUnfolds ==
  ASSUME NEW p, NEW scope, NEW from
  PROVE  ReachableFrom(p, scope, from) = Reaches(p, scope)[from]
  BY DEF ReachableFrom, Reaches

(* The graph of a scope does not leave the scope.                          *)
LEMMA TargetsStay ==
  ASSUME NEW p, NEW scope, NEW i \in Nodes(p, scope)
  PROVE  Targets(p, i) \subseteq Nodes(p, scope)
  BY DEF Targets, Out, Nodes

(* One round more of what S reaches.                                       *)
More(p, S) == S \cup UNION {Targets(p, i) : i \in S}

(* The equation has a solution, the closure under Targets; so the function *)
(* obeys it.                                                               *)
LEMMA ReachIs ==
  ASSUME NEW p, NEW scope, NEW S \in SUBSET Nodes(p, scope)
  PROVE  /\ More(p, S) \in SUBSET Nodes(p, scope)
         /\ Reaches(p, scope)[S] = IF More(p, S) = S THEN S ELSE Reaches(p, scope)[More(p, S)]
<1> DEFINE N == Nodes(p, scope)
           eqn(r) == r = [T \in SUBSET N |-> IF More(p, T) = T THEN T ELSE r[More(p, T)]]
           g == [T \in SUBSET N |-> {i \in N : \A C \in SUBSET N : T \subseteq C /\ IsClosed(p, C) => i \in C}]
<1>1. \A T \in SUBSET N : More(p, T) \in SUBSET N
  BY TargetsStay DEF More
<1>2. ASSUME NEW T \in SUBSET N
      PROVE  g[T] = IF More(p, T) = T THEN T ELSE g[More(p, T)]
  <2>1. CASE More(p, T) = T
    <3>1. IsClosed(p, T)
      BY <2>1 DEF More, IsClosed
    <3> QED
      BY <2>1, <3>1
  <2>2. CASE More(p, T) # T
    <3>1. \A C \in SUBSET N : IsClosed(p, C) => (T \subseteq C <=> More(p, T) \subseteq C)
      BY DEF More, IsClosed
    <3> QED
      BY <2>2, <3>1, <1>1
  <2> QED
    BY <2>1, <2>2
<1>3. eqn(g)
  BY <1>2
<1>4. eqn(Reaches(p, scope))
  <2> HIDE DEF g
  <2>1. \E r : eqn(r)
    BY <1>3
  <2>2. Reaches(p, scope) = CHOOSE r : eqn(r)
    BY DEF Reaches, More
  <2> QED
    BY <2>1, <2>2
<1> QED
  BY <1>1, <1>4

(* A greater part of a finite set leaves less of it.                       *)
LEMMA LessIsLeft ==
  ASSUME NEW C, IsFiniteSet(C), NEW S \in SUBSET C, NEW T \in SUBSET C, S \subseteq T, S # T
  PROVE  /\ Cardinality(C \ S) \in Nat /\ Cardinality(C \ T) \in Nat
         /\ Cardinality(C \ T) < Cardinality(C \ S)
<1>1. IsFiniteSet(C \ S) /\ C \ T \in SUBSET (C \ S) /\ C \ T # C \ S
  BY FS_Subset
<1>2. IsFiniteSet(C \ T) /\ Cardinality(C \ T) <= Cardinality(C \ S)
      /\ Cardinality(C \ T) # Cardinality(C \ S)
  BY <1>1, FS_Subset
<1> QED
  BY <1>1, <1>2, FS_CardinalityType

(* What is reached lies in every set that has the starts and is closed.    *)
LEMMA ReachedIsWithin ==
  ASSUME NEW p, NEW scope, IsFiniteSet(DOMAIN p.elements), NEW C \in SUBSET Nodes(p, scope),
         IsClosed(p, C), NEW from \in SUBSET C
  PROVE  ReachableFrom(p, scope, from) \subseteq C
<1> DEFINE N == Nodes(p, scope)
           r == Reaches(p, scope)
           bad == {S \in SUBSET C : ~(r[S] \subseteq C)}
           left(S) == Cardinality(C \ S)
           lefts == {left(S) : S \in bad}
<1>1. IsFiniteSet(C)
  BY FS_Subset DEF Nodes
<1>2. \A S \in SUBSET C : left(S) \in Nat
  BY <1>1, FS_Subset, FS_CardinalityType
<1>3. bad = {}
  <2> SUFFICES ASSUME bad # {} PROVE FALSE
    OBVIOUS
  <2>1. lefts \subseteq Nat /\ lefts # {}
    BY <1>2
  <2>2. PICK m \in lefts : \A n \in lefts : m <= n
    <3> HIDE DEF lefts
    <3> QED
      BY <2>1, LeastOf
  <2>3. PICK S \in bad : m = left(S)
    BY <2>2
  <2>4. S \in SUBSET N /\ S \in SUBSET C /\ ~(r[S] \subseteq C)
    BY <2>3
  <2>5. More(p, S) \in SUBSET C /\ S \subseteq More(p, S)
    BY <2>4 DEF More, IsClosed
  <2>6. More(p, S) # S /\ r[S] = r[More(p, S)]
    BY <2>4, ReachIs
  <2>7. More(p, S) \in bad
    BY <2>4, <2>5, <2>6
  <2>8. left(More(p, S)) < left(S)
    BY <1>1, <2>4, <2>5, <2>6, LessIsLeft
  <2>9. left(More(p, S)) \in lefts
    BY <2>7
  <2>10. left(S) <= left(More(p, S)) /\ left(S) \in Nat /\ left(More(p, S)) \in Nat
    BY <2>2, <2>3, <2>9, <1>2, <2>4, <2>5
  <2> QED
    BY <2>8, <2>10
<1> QED
  BY <1>3, ReachUnfolds

(* A scope is entered: the process, or an activity that is reached within  *)
(* a scope that is.                                                        *)
Enters(p, s, active) ==
  \/ s = 0
  \/ /\ s \in DOMAIN p.elements /\ p.elements[s].type \in Containers
     /\ active[p.elements[s].parent]
     /\ s \in LocalStarts(p, p.elements[s].parent)

(* The function that scopeReachable applies.                               *)
Entered(p) ==
  CHOOSE active :
    active = [s \in Scopes(p) \cup {0} |->
                \/ s = 0
                \/ /\ s \in DOMAIN p.elements /\ p.elements[s].type \in Containers
                   /\ active[p.elements[s].parent]
                   /\ s \in LocalStarts(p, p.elements[s].parent)]

(* It is that function.                                                    *)
LEMMA EnteredUnfolds ==
  ASSUME NEW p, NEW scope
  PROVE  scopeReachable(p, scope) = Entered(p)[scope]
  BY DEF scopeReachable, Entered

(* A scope that counts as entered is the process, or reached in a scope    *)
(* that counts as entered.                                                 *)
LEMMA EnteredIs ==
  ASSUME NEW p, NEW s \in Scopes(p) \cup {0}
  PROVE  Entered(p)[s] = Enters(p, s, Entered(p))
<1> DEFINE D == Scopes(p) \cup {0}
           eqn(a) == a = [t \in D |-> Enters(p, t, a)]
           within(A) == \A t \in A : t = 0 \/ (/\ t \in DOMAIN p.elements /\ p.elements[t].type \in Containers
                                             /\ p.elements[t].parent \in A
                                             /\ t \in LocalStarts(p, p.elements[t].parent))
           g == [t \in D |-> \E A \in SUBSET D : t \in A /\ within(A)]
<1>1. \A t \in DOMAIN p.elements : p.elements[t].parent \in D
  BY DEF Scopes
<1>2. ASSUME NEW t \in D
      PROVE  g[t] <=> Enters(p, t, g)
  <2>1. ASSUME g[t] PROVE Enters(p, t, g)
    BY <2>1, <1>1 DEF Enters
  <2>2. ASSUME Enters(p, t, g) PROVE g[t]
    <3>1. CASE t = 0
      <4>1. {0} \in SUBSET D /\ t \in {0} /\ within({0})
        BY <3>1
      <4> QED
        BY <4>1
    <3>2. CASE t # 0
      <4>1. /\ t \in DOMAIN p.elements /\ p.elements[t].type \in Containers
            /\ g[p.elements[t].parent] /\ t \in LocalStarts(p, p.elements[t].parent)
        BY <2>2, <3>2 DEF Enters
      <4>2. PICK A \in SUBSET D : p.elements[t].parent \in A /\ within(A)
        BY <4>1, <1>1
      <4>3. A \cup {t} \in SUBSET D /\ t \in A \cup {t} /\ within(A \cup {t})
        BY <4>1, <4>2
      <4> QED
        BY <4>3
    <3> QED
      BY <3>1, <3>2
  <2> QED
    BY <2>1, <2>2
<1>3. eqn(g)
  <2>1. \A t \in D : g[t] \in BOOLEAN /\ Enters(p, t, g) \in BOOLEAN
    BY DEF Enters
  <2> QED
    BY <1>2, <2>1
<1>4. eqn(Entered(p))
  <2> HIDE DEF g
  <2>1. \E a : eqn(a)
    BY <1>3
  <2>2. Entered(p) = CHOOSE a : eqn(a)
    BY DEF Entered, Enters
  <2> QED
    BY <2>1, <2>2
<1> QED
  BY <1>4

(* What is reported is what the operators say of the process and the       *)
(* policy.                                                                 *)
GraphInvariant ==
  inspected # <<>> =>
    \E p \in Processes, policy \in Policies :
      /\ inspected = <<p, policy>>
      /\ insight.findings = RunLint(p, policy.ignore)
      /\ insight.happy = [s \in summarizeScopes(p) |-> HappyPath(p, s)]
      /\ insight.alternates = [s \in summarizeScopes(p) |-> AlternatePaths(p, s)]
      /\ insight.cycles = [s \in summarizeScopes(p) |-> Cycles(p, s)]
      /\ insight.missing = writeGraphDiagnostics(p)

(* Nothing changes what was reported once (lint.go:10-33,                  *)
(* explain.go:23-62).                                                      *)
LEMMA InspectionIsKept == GraphSpec => []GraphInvariant
<1>1. GraphInit => GraphInvariant
  BY DEF GraphInit, GraphInvariant
<1>2. GraphInvariant /\ [Inspect]_graphVars => GraphInvariant'
  <2> SUFFICES ASSUME GraphInvariant, [Inspect]_graphVars PROVE GraphInvariant'
    OBVIOUS
  <2>1. CASE Inspect
    <3>1. PICK p \in Processes, policy \in Policies :
            /\ inspected' = <<p, policy>>
            /\ insight' = [findings |-> RunLint(p, policy.ignore),
                failed |-> ShouldFail(RunLint(p, policy.ignore), policy.failOn),
                happy |-> [s \in summarizeScopes(p) |-> HappyPath(p, s)],
                alternates |-> [s \in summarizeScopes(p) |-> AlternatePaths(p, s)],
                cycles |-> [s \in summarizeScopes(p) |-> Cycles(p, s)],
                missing |-> writeGraphDiagnostics(p)]
      BY <2>1 DEF Inspect
    <3> QED
      BY <3>1 DEF GraphInvariant
  <2>2. CASE UNCHANGED graphVars
    BY <2>2 DEF GraphInvariant, graphVars
  <2> QED
    BY <2>1, <2>2
<1> QED
  BY <1>1, <1>2, PTL DEF GraphSpec

(* A timer without a finding is in every set that is closed under what a   *)
(* token does: first its scope is, from the outermost on, then its starts  *)
(* and what they reach in it.                                              *)
LEMMA SilentTimerIsReached ==
  ASSUME NEW p \in Processes, NEW i \in DOMAIN p.elements, p.elements[i].timer,
         NEW policy, "timer-reachable" \notin policy.ignore,
         <<"timer-reachable", "warning", i>> \notin RunLint(p, policy.ignore)
  PROVE  TokenReaches(p, i)
<1>1. LocallyReachable(p, i) /\ scopeReachable(p, p.elements[i].parent)
  <2>1. <<"timer-reachable", "warning", i>> \notin timerReachable(p)
    BY DEF RunLint
  <2> QED
    BY <2>1 DEF timerReachable
<1> SUFFICES ASSUME NEW S \in SUBSET DOMAIN p.elements, starts(p, 0) \subseteq S,
                    \A j \in S : /\ Targets(p, j) \subseteq S
                                 /\ p.elements[j].type \in Containers => starts(p, j) \subseteq S
                                 /\ {b \in DOMAIN p.elements : p.elements[b].attached = j} \subseteq S
             PROVE  i \in S
  BY DEF TokenReaches
<1>2. ASSUME NEW s, starts(p, s) \subseteq S
      PROVE  LocalStarts(p, s) \subseteq S
  <2> DEFINE C == S \cap Nodes(p, s)
  <2>1. starts(p, s) \in SUBSET C /\ C \in SUBSET Nodes(p, s)
    BY <1>2 DEF starts
  <2>2. IsClosed(p, C)
    BY TargetsStay DEF IsClosed
  <2>3. IsFiniteSet(DOMAIN p.elements)
    BY GraphAssumption DEF IsProcess
  <2> HIDE DEF C
  <2>4. ReachableFrom(p, s, starts(p, s)) \subseteq C
    BY <2>1, <2>2, <2>3, ReachedIsWithin
  <2> QED
    BY <2>4 DEF LocalStarts, C
<1> DEFINE bad == {s \in DOMAIN p.elements : s \in Scopes(p) /\ Entered(p)[s] /\ ~(starts(p, s) \subseteq S)}
<1>3. bad = {}
  <2> SUFFICES ASSUME bad # {} PROVE FALSE
    OBVIOUS
  <2>1. PICK s \in bad : p.elements[s].parent \notin bad
    <3>1. bad \in SUBSET DOMAIN p.elements
      OBVIOUS
    <3>2. IsProcess(p)
      BY GraphAssumption
    <3> HIDE DEF bad
    <3> QED
      BY <3>1, <3>2 DEF IsProcess
  <2> DEFINE above == p.elements[s].parent
  <2>2. s # 0 /\ above \in DOMAIN p.elements \cup {0} /\ above \in Scopes(p)
    BY GraphAssumption DEF IsProcess, Scopes
  <2>3. Enters(p, s, Entered(p))
    BY EnteredIs
  <2>4. Entered(p)[above] /\ s \in LocalStarts(p, above) /\ p.elements[s].type \in Containers
    BY <2>2, <2>3 DEF Enters
  <2>5. starts(p, above) \subseteq S
    BY <2>1, <2>2, <2>4
  <2>6. s \in S
    BY <2>4, <2>5, <1>2
  <2> QED
    BY <2>1, <2>4, <2>6
<1>4. LocalStarts(p, p.elements[i].parent) \subseteq S
  <2>1. p.elements[i].parent \in DOMAIN p.elements \cup {0} /\ p.elements[i].parent \in Scopes(p)
    BY GraphAssumption DEF IsProcess, Scopes
  <2>2. Entered(p)[p.elements[i].parent]
    BY <1>1, EnteredUnfolds
  <2>3. starts(p, p.elements[i].parent) \subseteq S
    BY <2>1, <2>2, <1>3
  <2> QED
    BY <2>3, <1>2
<1> QED
  BY <1>1, <1>4 DEF LocallyReachable

(* A timer of any process about which the linter is silent is one a token  *)
(* may reach: the walk of a scope and the walk from scope to scope         *)
(* (rules_timer.go:9-67) agree with what a process does.                   *)
THEOREM SilentTimersAreReached == GraphSpec => []SilentTimersReached
<1>1. GraphInvariant => SilentTimersReached
  <2> SUFFICES ASSUME GraphInvariant, inspected # <<>>,
                      NEW i \in DOMAIN inspected[1].elements, inspected[1].elements[i].timer,
                      "timer-reachable" \notin inspected[2].ignore,
                      <<"timer-reachable", "warning", i>> \notin insight.findings
               PROVE  TokenReaches(inspected[1], i)
    BY DEF SilentTimersReached
  <2>1. PICK p \in Processes, policy \in Policies :
          inspected = <<p, policy>> /\ insight.findings = RunLint(p, policy.ignore)
    BY DEF GraphInvariant
  <2> QED
    BY <2>1, SilentTimerIsReached
<1> QED
  BY <1>1, InspectionIsKept, PTL

(* w is path, followed by elements each of which the one before it leads   *)
(* to, and none of which stands twice.                                     *)
Extends(p, path, w) ==
  /\ Len(path) <= Len(w) /\ \A k \in 1..Len(path) : w[k] = path[k]
  /\ \A k \in (Len(path) + 1)..Len(w) :
       /\ k > 1 => w[k] \in Targets(p, w[k - 1])
       /\ \A m \in 1..(k - 1) : w[m] # w[k]

(* The elements of a sequence, and of one longer by an element.            *)
LEMMA ToSetIs ==
  ASSUME NEW S, NEW s \in Seq(S)
  PROVE  /\ ToSet(s) = {s[k] : k \in 1..Len(s)} /\ ToSet(s) \subseteq S
         /\ \A x \in S : ToSet(Append(s, x)) = ToSet(s) \cup {x}
<1>1. ToSet(s) = {s[k] : k \in 1..Len(s)} /\ ToSet(s) \subseteq S
  BY DEF ToSet
<1>2. ASSUME NEW x \in S
      PROVE  ToSet(Append(s, x)) = ToSet(s) \cup {x}
  <2> DEFINE t == Append(s, x)
  <2>1. /\ t \in Seq(S) /\ Len(t) = Len(s) + 1 /\ t[Len(s) + 1] = x
        /\ \A k \in 1..Len(s) : t[k] = s[k]
    BY AppendProperties
  <2>2. ToSet(t) = {t[k] : k \in 1..Len(t)}
    BY <2>1 DEF ToSet
  <2> HIDE DEF t
  <2>3. ToSet(t) = {t[k] : k \in 1..Len(s)} \cup {t[Len(s) + 1]}
    BY <2>1, <2>2
  <2> QED
    BY <1>1, <2>1, <2>3 DEF t
<1> QED
  BY <1>1, <1>2

(* An extension is the path itself, or extends it by an element that a     *)
(* flow leads to.                                                          *)
LEMMA ExtendsUnrolls ==
  ASSUME NEW p, NEW N, NEW path \in Seq(N), NEW w \in Seq(N), path # <<>>
  PROVE  Extends(p, path, w) <=>
           \/ w = path
           \/ \E i \in (Targets(p, Last(path)) \ ToSet(path)) \cap N : Extends(p, Append(path, i), w)
<1> DEFINE n == Len(path)
<1>1. n \in Nat /\ n > 0 /\ Last(path) = path[n] /\ Len(w) \in Nat
  BY EmptySeq, LenProperties DEF Last
<1>2. ASSUME Extends(p, path, w), w # path
      PROVE  \E i \in (Targets(p, Last(path)) \ ToSet(path)) \cap N : Extends(p, Append(path, i), w)
  <2>1. Len(w) > n
    <3>1. Len(w) = n => w = path
      BY <1>2, <1>1, SeqEqual DEF Extends
    <3> QED
      BY <3>1, <1>2, <1>1 DEF Extends
  <2> DEFINE i == w[n + 1]
  <2>2. i \in N /\ i \in Targets(p, w[n]) /\ w[n] = path[n] /\ \A m \in 1..n : w[m] # i
    BY <2>1, <1>1, <1>2 DEF Extends
  <2>3. i \notin ToSet(path)
    BY <2>2, <1>2, <1>1, ToSetIs DEF Extends
  <2>4. /\ Append(path, i) \in Seq(N) /\ Len(Append(path, i)) = n + 1
        /\ Append(path, i)[n + 1] = i /\ \A k \in 1..n : Append(path, i)[k] = path[k]
    BY <2>2, AppendProperties
  <2>5. Extends(p, Append(path, i), w)
    <3> HIDE DEF i
    <3>1. Len(Append(path, i)) <= Len(w) /\ \A k \in 1..(n + 1) : w[k] = Append(path, i)[k]
      BY <2>1, <2>4, <1>1, <1>2 DEF Extends, i
    <3>2. \A k \in (n + 1 + 1)..Len(w) :
            /\ k > 1 => w[k] \in Targets(p, w[k - 1])
            /\ \A m \in 1..(k - 1) : w[m] # w[k]
      BY <1>1, <1>2 DEF Extends
    <3> QED
      BY <3>1, <3>2, <2>4, Zenon DEF Extends
  <2> QED
    BY <2>2, <2>3, <2>5, <1>1
<1>3. ASSUME NEW i \in N, i \in Targets(p, Last(path)), i \notin ToSet(path), Extends(p, Append(path, i), w)
      PROVE  Extends(p, path, w)
  <2>1. /\ Append(path, i) \in Seq(N) /\ Len(Append(path, i)) = n + 1
        /\ Append(path, i)[n + 1] = i /\ \A k \in 1..n : Append(path, i)[k] = path[k]
    BY AppendProperties
  <2>2. \A m \in 1..n : path[m] # i
    BY <1>3, ToSetIs
  <2>3. n <= Len(w) /\ \A k \in 1..n : w[k] = path[k]
    BY <2>1, <1>1, <1>3 DEF Extends
  <2>4. w[n + 1] = i
    BY <2>1, <1>1, <1>3 DEF Extends
  <2>5. ASSUME NEW k \in (n + 1)..Len(w)
        PROVE  /\ k > 1 => w[k] \in Targets(p, w[k - 1])
               /\ \A m \in 1..(k - 1) : w[m] # w[k]
    <3>1. CASE k = n + 1
      <4>1. w[k - 1] = path[n]
        BY <3>1, <2>3, <1>1
      <4>2. w[k] \in Targets(p, w[k - 1])
        BY <3>1, <4>1, <2>4, <1>1, <1>3
      <4>3. \A m \in 1..(k - 1) : w[m] # w[k]
        BY <3>1, <2>2, <2>3, <2>4, <1>1
      <4> QED
        BY <4>2, <4>3
    <3>2. CASE k # n + 1
      <4>1. k \in (Len(Append(path, i)) + 1)..Len(w)
        BY <3>2, <2>1, <1>1
      <4> QED
        BY <4>1, <1>3 DEF Extends
    <3> QED
      BY <3>1, <3>2
  <2> QED
    BY <2>3, <2>5 DEF Extends
<1>4. Extends(p, path, path)
  BY <1>1 DEF Extends
<1> QED
  BY <1>2, <1>3, <1>4

(* Facts about one scope of a process that are used all the time.          *)
LEMMA ScopeIs ==
  ASSUME NEW p \in Processes, NEW scope
  PROVE  /\ IsFiniteSet(Nodes(p, scope)) /\ Nodes(p, scope) \subseteq Nat \ {0}
         /\ \A i \in Nodes(p, scope) : Targets(p, i) \subseteq Nodes(p, scope)
  <1>1. Nodes(p, scope) \subseteq DOMAIN p.elements
    BY DEF Nodes
  <1> QED
    BY <1>1, TargetsStay, GraphAssumption, FS_Subset DEF IsProcess

(* A path with one element more.                                           *)
LEMMA GrowsBy ==
  ASSUME NEW N, NEW path \in Seq(N), NEW i \in N
  PROVE  /\ Append(path, i) \in Seq(N) /\ Append(path, i) # <<>> /\ Last(Append(path, i)) = i
         /\ ToSet(Append(path, i)) = ToSet(path) \cup {i} /\ ToSet(path) \subseteq N
<1>1. /\ Append(path, i) \in Seq(N) /\ Append(path, i) # <<>> /\ Len(Append(path, i)) = Len(path) + 1
      /\ Append(path, i)[Len(path) + 1] = i
  BY AppendProperties
<1> QED
  BY <1>1, ToSetIs DEF Last

(* The last element of a path is one of its elements.                      *)
LEMMA LastIsIn ==
  ASSUME NEW N, NEW path \in Seq(N), path # <<>>
  PROVE  Last(path) \in N /\ Len(path) \in Nat /\ Len(path) > 0 /\ Last(path) \in ToSet(path)
  BY EmptySeq, LenProperties, ToSetIs, ElementOfSeq DEF Last

(* A property of paths holds of all of them when it holds of one whenever  *)
(* it holds of those with one element more: a path runs out of elements.   *)
LEMMA PathsRunOut ==
  ASSUME NEW N, IsFiniteSet(N), NEW good, NEW D \in SUBSET Seq(N),
         \A path \in D :
           (\A i \in N \ ToSet(path) : Append(path, i) \in D => Append(path, i) \in good) => path \in good
  PROVE  D \subseteq good
<1> DEFINE bad == D \ good
           left(path) == Cardinality(N \ ToSet(path))
           lefts == {left(path) : path \in bad}
<1>1. \A path \in D : ToSet(path) \subseteq N /\ left(path) \in Nat
  <2>1. \A path \in D : ToSet(path) \subseteq N
    BY ToSetIs
  <2> QED
    BY <2>1, FS_Subset, FS_CardinalityType
<1> SUFFICES ASSUME bad # {} PROVE FALSE
  OBVIOUS
<1>2. lefts \subseteq Nat /\ lefts # {}
  <2>1. bad \subseteq D
    OBVIOUS
  <2> HIDE DEF bad, left
  <2> QED
    BY <1>1, <2>1
<1>3. PICK m \in lefts : \A n \in lefts : m <= n
  <2> HIDE DEF lefts
  <2> QED
    BY <1>2, LeastOf
<1>4. PICK path \in bad : m = left(path)
  <2> HIDE DEF bad, left
  <2> QED
    BY <1>3
<1>5. path \in Seq(N) /\ path \in D /\ path \notin good
  BY <1>4
<1>6. PICK i \in N \ ToSet(path) : Append(path, i) \in D /\ Append(path, i) \notin good
  BY <1>5
<1>7. ToSet(Append(path, i)) = ToSet(path) \cup {i} /\ ToSet(path) \subseteq N
  <2>1. path \in Seq(N) /\ i \in N
    BY <1>5, <1>6
  <2> HIDE DEF bad, lefts, left
  <2> QED
    BY <2>1, GrowsBy
<1>8. left(Append(path, i)) < left(path) /\ left(Append(path, i)) \in Nat /\ left(path) \in Nat
  BY <1>6, <1>7, LessIsLeft
<1>9. left(path) <= left(Append(path, i))
  <2>1. Append(path, i) \in bad
    BY <1>6
  <2>2. left(Append(path, i)) \in lefts
    <3> HIDE DEF bad, left
    <3> QED
      BY <2>1
  <2> HIDE DEF lefts, left
  <2> QED
    BY <1>3, <1>4, <2>2
<1> QED
  BY <1>8, <1>9
-------------------------------------------------------------------------------
(* The paths.                                                              *)

(* The function that walkPaths applies.                                    *)
Walks(p, scope) ==
  CHOOSE walk :
    walk = [path \in Seq(Nodes(p, scope)) \ {<<>>} |->
              IF Out(p, Last(path)) = {} THEN {path}
              ELSE UNION {walk[Append(path, i)] : i \in Targets(p, Last(path)) \ ToSet(path)}]

(* It is that function.                                                    *)
LEMMA WalksUnfold ==
  ASSUME NEW p, NEW scope, NEW from
  PROVE  walkPaths(p, scope, from) = Walks(p, scope)[<<from>>]
  BY DEF walkPaths, Walks

(* The paths from path on to an element without an outgoing flow.          *)
WholePaths(p, N, path) == {w \in Seq(N) : Extends(p, path, w) /\ Out(p, Last(w)) = {}}

(* A flow out of an element leads to one.                                  *)
LEMMA NoOutNoTargets ==
  ASSUME NEW p, NEW i
  PROVE  Out(p, i) = {} <=> Targets(p, i) = {}
  BY DEF Targets

(* The whole paths obey the equation of the walk.                          *)
LEMMA WholePathsUnroll ==
  ASSUME NEW p \in Processes, NEW scope, NEW path \in Seq(Nodes(p, scope)) \ {<<>>}
  PROVE  WholePaths(p, Nodes(p, scope), path) =
           IF Out(p, Last(path)) = {} THEN {path}
           ELSE UNION {WholePaths(p, Nodes(p, scope), Append(path, i)) : i \in Targets(p, Last(path)) \ ToSet(path)}
<1> DEFINE N == Nodes(p, scope)
<1>1. Targets(p, Last(path)) \subseteq N
  BY LastIsIn, ScopeIs
<1>2. \A w \in Seq(N) :
        Extends(p, path, w) <=> \/ w = path
                                \/ \E i \in Targets(p, Last(path)) \ ToSet(path) : Extends(p, Append(path, i), w)
  BY <1>1, ExtendsUnrolls
<1>3. CASE Out(p, Last(path)) = {}
  <2>1. Targets(p, Last(path)) = {}
    BY <1>3, NoOutNoTargets
  <2> QED
    BY <1>2, <1>3, <2>1 DEF WholePaths
<1>4. CASE Out(p, Last(path)) # {}
  <2>1. \A w \in Seq(N) : w = path => Out(p, Last(w)) # {}
    BY <1>4
  <2> QED
    BY <1>2, <1>4, <2>1 DEF WholePaths
<1> QED
  BY <1>3, <1>4

(* Hence the equation has a solution; and any solution finds the whole     *)
(* paths, because paths run out.                                           *)
LEMMA WalksAre ==
  ASSUME NEW p \in Processes, NEW scope, NEW path \in Seq(Nodes(p, scope)) \ {<<>>}
  PROVE  Walks(p, scope)[path] = WholePaths(p, Nodes(p, scope), path)
<1> DEFINE N == Nodes(p, scope)
           D == Seq(N) \ {<<>>}
           rhs(r, q) == IF Out(p, Last(q)) = {} THEN {q}
                        ELSE UNION {r[Append(q, i)] : i \in Targets(p, Last(q)) \ ToSet(q)}
           eqn(r) == r = [q \in D |-> rhs(r, q)]
           g == [q \in D |-> WholePaths(p, N, q)]
           r == Walks(p, scope)
<1>1. \A q \in D : \A i \in Targets(p, Last(q)) \ ToSet(q) : i \in N \ ToSet(q) /\ Append(q, i) \in D
  <2> TAKE q \in D
  <2> TAKE i \in Targets(p, Last(q)) \ ToSet(q)
  <2>1. q \in Seq(N) /\ Last(q) \in N
    BY LastIsIn
  <2>2. i \in N
    BY <2>1, ScopeIs
  <2>3. Append(q, i) \in Seq(N) /\ Append(q, i) # <<>>
    BY <2>1, <2>2, GrowsBy
  <2> QED
    BY <2>2, <2>3
<1>2. \A q \in D : WholePaths(p, N, q) = rhs(g, q)
  <2> TAKE q \in D
  <2>1. WholePaths(p, N, q) = IF Out(p, Last(q)) = {} THEN {q}
           ELSE UNION {WholePaths(p, N, Append(q, i)) : i \in Targets(p, Last(q)) \ ToSet(q)}
    BY WholePathsUnroll
  <2>2. \A i \in Targets(p, Last(q)) \ ToSet(q) : g[Append(q, i)] = WholePaths(p, N, Append(q, i))
    BY <1>1
  <2>3. {g[Append(q, i)] : i \in Targets(p, Last(q)) \ ToSet(q)}
        = {WholePaths(p, N, Append(q, i)) : i \in Targets(p, Last(q)) \ ToSet(q)}
    BY <2>2
  <2> HIDE DEF g
  <2> QED
    BY <2>1, <2>3
<1>3. eqn(g)
  BY <1>2
<1>4. eqn(r)
  <2> HIDE DEF g, eqn
  <2>1. \E f : eqn(f)
    BY <1>3
  <2>2. r = CHOOSE f : eqn(f)
    BY DEF Walks, eqn
  <2> QED
    BY <2>1, <2>2
<1> DEFINE good == {q \in D : r[q] = WholePaths(p, N, q)}
<1>5. \A q \in D : (\A i \in N \ ToSet(q) : Append(q, i) \in D => Append(q, i) \in good) => q \in good
  <2> SUFFICES ASSUME NEW q \in D, \A i \in N \ ToSet(q) : Append(q, i) \in D => Append(q, i) \in good
               PROVE  r[q] = WholePaths(p, N, q)
    OBVIOUS
  <2>1. \A i \in Targets(p, Last(q)) \ ToSet(q) : r[Append(q, i)] = g[Append(q, i)]
    BY <1>1
  <2>2. {r[Append(q, i)] : i \in Targets(p, Last(q)) \ ToSet(q)}
        = {g[Append(q, i)] : i \in Targets(p, Last(q)) \ ToSet(q)}
    BY <2>1
  <2>3. rhs(r, q) = rhs(g, q)
    <3> HIDE DEF g, r
    <3> QED
      BY <2>2
  <2>4. r[q] = rhs(r, q)
    <3> HIDE DEF rhs, r
    <3> QED
      BY <1>4
  <2> HIDE DEF rhs, r, g
  <2> QED
    BY <1>2, <2>3, <2>4
<1>6. IsFiniteSet(N)
  BY ScopeIs
<1>7. D \subseteq good
  <2>1. D \in SUBSET Seq(N)
    OBVIOUS
  <2> HIDE DEF good, D
  <2> QED
    BY <1>5, <1>6, <2>1, PathsRunOut
<1> QED
  BY <1>7

(* A path through a scope that passes nothing twice.                       *)
SimpleIn(p, N) ==
  {q \in Seq(N) : /\ q # <<>> /\ \A k \in 1..(Len(q) - 1) : q[k + 1] \in Targets(p, q[k])
                  /\ \A i, j \in 1..Len(q) : q[i] = q[j] => i = j}

(* A sequence without repetitions is no longer than its set is large.      *)
LEMMA NoLongerThan ==
  ASSUME NEW N, IsFiniteSet(N), NEW n \in Nat, NEW q \in [1..n -> N],
         \A i, j \in 1..n : q[i] = q[j] => i = j
  PROVE  n <= Cardinality(N)
<1>1. IsFiniteSet(1..n) /\ Cardinality(1..n) = n
  BY FS_Interval
<1>2. CASE n <= Cardinality(N)
  BY <1>2
<1>3. CASE ~(n <= Cardinality(N))
  <2>1. Cardinality(1..n) > Cardinality(N)
    BY <1>1, <1>3, FS_CardinalityType
  <2>2. \E x, y \in 1..n : x # y /\ q[x] = q[y]
    BY <1>1, <2>1, FS_PigeonHole
  <2> QED
    BY <2>2
<1> QED
  BY <1>2, <1>3

(* SimplePaths and Chained say the same.                                   *)
LEMMA SimplePathsAre ==
  ASSUME NEW p, NEW N, IsFiniteSet(N)
  PROVE  {q \in SimplePaths(N) : Chained(p, q)} = SimpleIn(p, N)
<1>1. ASSUME NEW q \in SimplePaths(N), Chained(p, q) PROVE q \in SimpleIn(p, N)
  <2>1. PICK n \in 1..Cardinality(N) : q \in [1..n -> N] /\ \A i, j \in 1..n : q[i] = q[j] => i = j
    BY DEF SimplePaths
  <2>2. n \in Nat /\ n > 0
    BY FS_CardinalityType
  <2>3. q \in Seq(N) /\ Len(q) = n /\ q # <<>>
    BY <2>1, <2>2
  <2> QED
    BY <1>1, <2>1, <2>3 DEF SimpleIn, Chained
<1>2. ASSUME NEW q \in SimpleIn(p, N) PROVE q \in SimplePaths(N) /\ Chained(p, q)
  <2>1. /\ q \in Seq(N) /\ q # <<>> /\ Chained(p, q)
        /\ \A i, j \in 1..Len(q) : q[i] = q[j] => i = j
    BY DEF SimpleIn, Chained
  <2>2. Len(q) \in Nat /\ Len(q) > 0 /\ q \in [1..Len(q) -> N]
    BY <2>1, LastIsIn, LenProperties
  <2>3. Len(q) <= Cardinality(N)
    BY <2>1, <2>2, NoLongerThan
  <2>4. Len(q) \in 1..Cardinality(N)
    BY <2>2, <2>3, FS_CardinalityType
  <2> QED
    BY <2>1, <2>2, <2>4 DEF SimplePaths
<1> QED
  BY <1>1, <1>2

(* A simple path extends its first element.                                *)
LEMMA SimpleExtends ==
  ASSUME NEW p, NEW N, NEW i \in N, NEW w \in Seq(N)
  PROVE  Extends(p, <<i>>, w) <=> w \in SimpleIn(p, N) /\ Head(w) = i
<1>1. Len(<<i>>) = 1 /\ <<i>>[1] = i /\ Len(w) \in Nat /\ (w # <<>> <=> Len(w) > 0)
  BY EmptySeq
<1>2. ASSUME Extends(p, <<i>>, w) PROVE w \in SimpleIn(p, N) /\ Head(w) = i
  <2>1. Len(w) > 0 /\ w[1] = i
    BY <1>1, <1>2 DEF Extends
  <2>2. \A k \in 1..(Len(w) - 1) : w[k + 1] \in Targets(p, w[k])
    <3> TAKE k \in 1..(Len(w) - 1)
    <3>1. k + 1 \in (Len(<<i>>) + 1)..Len(w) /\ k + 1 > 1 /\ (k + 1) - 1 = k
      BY <1>1
    <3>2. w[k + 1] \in Targets(p, w[(k + 1) - 1])
      BY <1>2, <3>1 DEF Extends
    <3> QED
      BY <3>1, <3>2
  <2>3. \A k \in 2..Len(w) : \A m \in 1..(k - 1) : w[m] # w[k]
    BY <1>1, <1>2 DEF Extends
  <2>4. \A k, m \in 1..Len(w) : w[k] = w[m] => k = m
    <3> SUFFICES ASSUME NEW k \in 1..Len(w), NEW m \in 1..Len(w), k < m PROVE w[k] # w[m]
      BY <1>1
    <3> QED
      BY <2>3, <1>1
  <2> QED
    BY <2>1, <2>2, <2>4, <1>1 DEF SimpleIn
<1>3. ASSUME w \in SimpleIn(p, N), Head(w) = i PROVE Extends(p, <<i>>, w)
  <2>1. Len(w) > 0 /\ w[1] = i
    BY <1>1, <1>3 DEF SimpleIn
  <2>2. ASSUME NEW k \in 2..Len(w)
        PROVE  w[k] \in Targets(p, w[k - 1]) /\ \A m \in 1..(k - 1) : w[m] # w[k]
    <3>1. k - 1 \in 1..(Len(w) - 1) /\ (k - 1) + 1 = k
      BY <1>1
    <3>2. w[(k - 1) + 1] \in Targets(p, w[k - 1])
      BY <3>1, <1>3 DEF SimpleIn
    <3>3. \A m \in 1..(k - 1) : m \in 1..Len(w) /\ k \in 1..Len(w) /\ m # k
      BY <1>1
    <3> QED
      BY <3>1, <3>2, <3>3, <1>3 DEF SimpleIn
  <2> QED
    BY <1>1, <2>1, <2>2 DEF Extends
<1> QED
  BY <1>2, <1>3

(* Following the flows from the starts finds the whole simple paths.       *)
LEMMA WalksFindAll ==
  ASSUME NEW p \in Processes, NEW scope
  PROVE  UNION {walkPaths(p, scope, i) : i \in starts(p, scope)}
         = {q \in SimpleIn(p, Nodes(p, scope)) : Head(q) \in starts(p, scope) /\ Out(p, Last(q)) = {}}
<1> DEFINE N == Nodes(p, scope)
<1>1. \A i \in starts(p, scope) : i \in N
  BY DEF starts
<1>2. ASSUME NEW i \in starts(p, scope)
      PROVE  walkPaths(p, scope, i) = {q \in SimpleIn(p, N) : Head(q) = i /\ Out(p, Last(q)) = {}}
  <2>1. <<i>> \in Seq(N) \ {<<>>}
    BY <1>1
  <2>2. walkPaths(p, scope, i) = WholePaths(p, N, <<i>>)
    BY <2>1, WalksUnfold, WalksAre
  <2>3. \A w \in Seq(N) : Extends(p, <<i>>, w) <=> w \in SimpleIn(p, N) /\ Head(w) = i
    BY <1>1, SimpleExtends
  <2> QED
    BY <2>2, <2>3 DEF WholePaths, SimpleIn
<1> QED
  BY <1>2

(* Where the preferred flow leads to.                                      *)
NextOn(p, i) == p.flows[preferredOutgoing(p, i)].target

(* Smallest is an element, and the least.                                  *)
LEMMA SmallestIs ==
  ASSUME NEW S, S \subseteq Nat, S # {}
  PROVE  Smallest(S) \in S /\ \A j \in S : Smallest(S) <= j
  BY LeastOf DEF Smallest

(* There is a preferred flow where there is a flow.                        *)
LEMMA OneIsPreferred ==
  ASSUME NEW p \in Processes, NEW i, Out(p, i) # {}
  PROVE  NextOn(p, i) \in Targets(p, i)
<1> DEFINE O == Out(p, i)
           rank(h) == IF h = p.elements[i].default THEN 0 ELSE IF p.flows[h].condition THEN 2 ELSE 1
           to(h) == p.flows[h].target
           ranks == {rank(h) : h \in O}
<1>1. \A f \in O : f \in Nat /\ to(f) \in Nat
  BY GraphAssumption DEF IsProcess, Out, Nodes
<1>2. PICK m \in ranks : \A n \in ranks : m <= n
  <2>1. ranks \subseteq Nat /\ ranks # {}
    OBVIOUS
  <2> HIDE DEF ranks
  <2> QED
    BY <2>1, LeastOf
<1> DEFINE O1 == {h \in O : rank(h) = m}
           tos == {to(h) : h \in O1}
<1>3. PICK t \in tos : \A n \in tos : t <= n
  <2>1. tos \subseteq Nat
    BY <1>1
  <2>2. tos # {}
    BY <1>2
  <2> HIDE DEF tos
  <2> QED
    BY <2>1, <2>2, LeastOf
<1> DEFINE O2 == {h \in O1 : to(h) = t}
<1>4. PICK f \in O2 : \A g \in O2 : f <= g
  <2>1. O2 \subseteq Nat
    BY <1>1
  <2>2. O2 # {}
    BY <1>3
  <2> HIDE DEF O2
  <2> QED
    BY <2>1, <2>2, LeastOf
<1>5. f \in O /\ rank(f) = m /\ to(f) = t
  BY <1>4
<1>6. ASSUME NEW g \in O PROVE Preferred(p, i, f, g)
  <2>1. rank(g) \in ranks /\ m <= rank(g) /\ m \in Nat /\ rank(g) \in Nat
    BY <1>2
  <2>2. CASE rank(g) # m
    BY <2>1, <2>2, <1>5 DEF Preferred
  <2>3. CASE rank(g) = m
    <3>1. to(g) \in tos /\ t <= to(g) /\ t \in Nat /\ to(g) \in Nat
      BY <2>3, <1>3, <1>1
    <3>2. CASE to(g) # t
      <4>1. rank(f) = rank(g) /\ to(f) < to(g)
        BY <2>3, <1>5, <3>1, <3>2
      <4> QED
        BY <4>1 DEF Preferred
    <3>3. CASE to(g) = t
      <4>1. f <= g /\ rank(f) = rank(g) /\ to(f) = to(g)
        BY <2>3, <3>3, <1>4, <1>5
      <4> QED
        BY <4>1 DEF Preferred
    <3> QED
      BY <3>2, <3>3
  <2> QED
    BY <2>2, <2>3
<1>7. preferredOutgoing(p, i) \in O
  BY <1>5, <1>6 DEF preferredOutgoing
<1> QED
  BY <1>7 DEF NextOn, Targets

(* The function that HappyPath applies.                                    *)
Onwards(p, scope) ==
  CHOOSE onward :
    onward = [path \in Seq(Nodes(p, scope)) \ {<<>>} |->
              LET next == p.flows[preferredOutgoing(p, Last(path))].target
              IN  IF Out(p, Last(path)) = {} \/ next \in ToSet(path) THEN path
                  ELSE onward[Append(path, next)]]

(* It is that function.                                                    *)
LEMMA HappyPathUnfolds ==
  ASSUME NEW p, NEW scope
  PROVE  HappyPath(p, scope) =
           IF starts(p, scope) = {} THEN <<>> ELSE Onwards(p, scope)[<<Smallest(starts(p, scope))>>]
  BY DEF HappyPath, Onwards

(* The happy path stops here: no flow leads on, or the preferred one leads *)
(* back.                                                                   *)
Stops(p, path) == Out(p, Last(path)) = {} \/ NextOn(p, Last(path)) \in ToSet(path)

(* w is path, followed by the preferred elements up to where they stop.    *)
Prefers(p, path, w) ==
  /\ Len(path) <= Len(w) /\ \A k \in 1..Len(path) : w[k] = path[k]
  /\ \A k \in Len(path)..(Len(w) - 1) :
       /\ Out(p, w[k]) # {} /\ w[k + 1] = NextOn(p, w[k])
       /\ \A m \in 1..k : w[m] # w[k + 1]
  /\ Stops(p, w)

(* There is nothing to choose: such an extension goes on with the          *)
(* preferred element.                                                      *)
LEMMA PrefersUnrolls ==
  ASSUME NEW p \in Processes, NEW scope, NEW path \in Seq(Nodes(p, scope)) \ {<<>>},
         NEW w \in Seq(Nodes(p, scope))
  PROVE  Prefers(p, path, w) <=>
           IF Stops(p, path) THEN w = path ELSE Prefers(p, Append(path, NextOn(p, Last(path))), w)
<1> DEFINE N == Nodes(p, scope)
           n == Len(path)
           i == NextOn(p, Last(path))
<1>1. n \in Nat /\ n > 0 /\ Last(path) = path[n] /\ Len(w) \in Nat /\ Last(path) \in N
  BY LastIsIn DEF Last
<1>2. CASE Stops(p, path)
  <2>1. ASSUME Prefers(p, path, w) PROVE w = path
    <3>1. Len(w) = n => w = path
      BY <2>1, <1>1, SeqEqual DEF Prefers
    <3>2. ASSUME Len(w) > n PROVE FALSE
      <4>1. /\ w[n] = path[n] /\ Out(p, w[n]) # {} /\ w[n + 1] = NextOn(p, w[n])
            /\ \A m \in 1..n : w[m] # w[n + 1] /\ w[m] = path[m]
        BY <2>1, <3>2, <1>1 DEF Prefers
      <4>2. i \in ToSet(path)
        BY <4>1, <1>1, <1>2 DEF Stops
      <4> QED
        BY <4>1, <4>2, <1>1, ToSetIs
    <3> QED
      BY <3>1, <3>2, <2>1, <1>1 DEF Prefers
  <2>2. Prefers(p, path, path)
    BY <1>1, <1>2 DEF Prefers
  <2> QED
    BY <1>2, <2>1, <2>2
<1>3. CASE ~Stops(p, path)
  <2>1. Out(p, path[n]) # {} /\ i = NextOn(p, path[n]) /\ i \notin ToSet(path) /\ i \in N
    BY <1>3, <1>1, OneIsPreferred, ScopeIs DEF Stops
  <2>2. \A m \in 1..n : path[m] # i
    BY <2>1, ToSetIs
  <2> DEFINE t == Append(path, i)
  <2>3. t \in Seq(N) /\ Len(t) = n + 1 /\ t[n + 1] = i /\ \A k \in 1..n : t[k] = path[k]
    BY <2>1, AppendProperties
  <2> HIDE DEF t, i
  <2>4. ASSUME Prefers(p, path, w) PROVE Prefers(p, t, w)
    <3>1. Len(w) > n
      <4>1. Len(w) = n => w = path
        BY <2>4, <1>1, SeqEqual DEF Prefers
      <4> QED
        BY <4>1, <2>4, <1>1, <1>3 DEF Prefers
    <3>2. w[n + 1] = i
      BY <2>4, <3>1, <1>1, <2>1 DEF Prefers
    <3>3. Len(t) <= Len(w) /\ \A k \in 1..Len(t) : w[k] = t[k]
      BY <2>3, <2>4, <3>1, <3>2, <1>1 DEF Prefers
    <3>4. \A k \in Len(t)..(Len(w) - 1) : k \in n..(Len(w) - 1)
      BY <2>3, <1>1
    <3> QED
      BY <3>3, <3>4, <2>4 DEF Prefers
  <2>5. ASSUME Prefers(p, t, w) PROVE Prefers(p, path, w)
    <3>1. n < Len(w) /\ w[n + 1] = i /\ \A k \in 1..n : w[k] = path[k]
      BY <2>3, <2>5, <1>1 DEF Prefers
    <3>2. ASSUME NEW k \in n..(Len(w) - 1)
          PROVE  /\ Out(p, w[k]) # {} /\ w[k + 1] = NextOn(p, w[k])
                 /\ \A m \in 1..k : w[m] # w[k + 1]
      <4>1. CASE k = n
        BY <4>1, <3>1, <2>1, <2>2, <1>1
      <4>2. CASE k # n
        <5>1. k \in Len(t)..(Len(w) - 1)
          BY <4>2, <2>3, <1>1
        <5> QED
          BY <5>1, <2>5 DEF Prefers
      <4> QED
        BY <4>1, <4>2
    <3> QED
      BY <3>1, <3>2, <2>5 DEF Prefers
  <2> QED
    BY <1>3, <2>4, <2>5 DEF t, i
<1> QED
  BY <1>2, <1>3

(* Every path has one such extension, because paths run out: the equation  *)
(* has a solution.                                                         *)
LEMMA OnwardIs ==
  ASSUME NEW p \in Processes, NEW scope, NEW path \in Seq(Nodes(p, scope)) \ {<<>>}
  PROVE  Onwards(p, scope)[path] =
           IF Stops(p, path) THEN path ELSE Onwards(p, scope)[Append(path, NextOn(p, Last(path)))]
<1> DEFINE N == Nodes(p, scope)
           D == Seq(N) \ {<<>>}
           eqn(r) == r = [q \in D |-> IF Stops(p, q) THEN q ELSE r[Append(q, NextOn(p, Last(q)))]]
           ends(q) == CHOOSE w : w \in Seq(N) /\ Prefers(p, q, w)
           g == [q \in D |-> ends(q)]
<1>1. \A q \in D : ~Stops(p, q) => Append(q, NextOn(p, Last(q))) \in D
  <2> SUFFICES ASSUME NEW q \in D, ~Stops(p, q) PROVE Append(q, NextOn(p, Last(q))) \in D
    OBVIOUS
  <2>1. Last(q) \in N /\ NextOn(p, Last(q)) \in N
    BY LastIsIn, OneIsPreferred, ScopeIs DEF Stops
  <2> QED
    BY <2>1, GrowsBy
<1>2. ASSUME NEW q \in D
      PROVE  g[q] = IF Stops(p, q) THEN q ELSE g[Append(q, NextOn(p, Last(q)))]
  <2>1. CASE Stops(p, q)
    <3>1. \A w : (w \in Seq(N) /\ Prefers(p, q, w)) <=> w = q
      BY <2>1, PrefersUnrolls
    <3> QED
      BY <2>1, <3>1
  <2>2. CASE ~Stops(p, q)
    <3> DEFINE t == Append(q, NextOn(p, Last(q)))
    <3>1. \A w : (w \in Seq(N) /\ Prefers(p, q, w)) <=> (w \in Seq(N) /\ Prefers(p, t, w))
      BY <2>2, PrefersUnrolls
    <3>2. ends(q) = ends(t)
      BY <3>1
    <3>3. t \in D
      BY <2>2, <1>1
    <3> HIDE DEF ends, t, D
    <3>4. g[q] = ends(q) /\ g[t] = ends(t)
      BY <3>3
    <3> HIDE DEF g
    <3> QED
      BY <2>2, <3>2, <3>4 DEF t
  <2> QED
    BY <2>1, <2>2
<1>3. eqn(g)
  <2> HIDE DEF g
  <2>1. g = [q \in D |-> g[q]]
    BY DEF g
  <2> QED
    BY <1>2, <2>1
<1>4. eqn(Onwards(p, scope))
  <2> HIDE DEF g
  <2>1. \E f : eqn(f)
    BY <1>3
  <2>2. Onwards(p, scope) = CHOOSE f : eqn(f)
    BY DEF Onwards, Stops, NextOn
  <2> HIDE DEF eqn
  <2> QED
    BY <2>1, <2>2
<1> QED
  BY <1>4

(* A simple path with an element more that it does not have yet.           *)
LEMMA SimpleGrows ==
  ASSUME NEW p, NEW N, NEW q \in SimpleIn(p, N), NEW i \in N, i \in Targets(p, Last(q)), i \notin ToSet(q)
  PROVE  Append(q, i) \in SimpleIn(p, N)
<1> DEFINE t == Append(q, i)
           n == Len(q)
<1>1. q \in Seq(N) /\ n \in Nat /\ n > 0 /\ Last(q) = q[n] /\ \A m \in 1..n : q[m] # i
  BY LastIsIn, ToSetIs DEF SimpleIn, Last
<1>2. t \in Seq(N) /\ Len(t) = n + 1 /\ t[n + 1] = i /\ \A k \in 1..n : t[k] = q[k]
  BY <1>1, AppendProperties
<1> HIDE DEF t
<1>3. \A k \in 1..(Len(t) - 1) : t[k + 1] \in Targets(p, t[k])
  <2> TAKE k \in 1..(Len(t) - 1)
  <2>1. CASE k = n
    BY <2>1, <1>1, <1>2
  <2>2. CASE k # n
    <3>1. k \in 1..(n - 1) /\ t[k] = q[k] /\ t[k + 1] = q[k + 1]
      BY <2>2, <1>1, <1>2
    <3> QED
      BY <3>1 DEF SimpleIn
  <2> QED
    BY <2>1, <2>2
<1>4. \A j, k \in 1..Len(t) : t[j] = t[k] => j = k
  <2> TAKE j \in 1..Len(t), k \in 1..Len(t)
  <2>1. (j \in 1..n \/ j = n + 1) /\ (k \in 1..n \/ k = n + 1)
    BY <1>1, <1>2
  <2>2. j \in 1..n /\ k \in 1..n => (q[j] = q[k] => j = k)
    BY DEF SimpleIn
  <2> QED
    BY <2>1, <2>2, <1>1, <1>2
<1>5. t # <<>>
  BY <1>1, <1>2
<1> QED
  BY <1>2, <1>3, <1>4, <1>5 DEF SimpleIn, t

(* The happy path passes nothing twice and follows the flows.              *)
LEMMA HappyPathIsSimple ==
  ASSUME NEW p \in Processes, NEW scope
  PROVE  HappyPath(p, scope) \in SimpleIn(p, Nodes(p, scope)) \cup {<<>>}
<1> DEFINE N == Nodes(p, scope)
           D == SimpleIn(p, N)
           good == {q \in D : Onwards(p, scope)[q] \in D}
<1>1. D \in SUBSET Seq(N) /\ <<>> \notin D /\ IsFiniteSet(N)
  BY ScopeIs DEF SimpleIn
<1>2. ASSUME NEW q \in D, \A i \in N \ ToSet(q) : Append(q, i) \in D => Append(q, i) \in good
      PROVE  q \in good
  <2>1. Onwards(p, scope)[q] = IF Stops(p, q) THEN q ELSE Onwards(p, scope)[Append(q, NextOn(p, Last(q)))]
    BY <1>1, OnwardIs
  <2>2. CASE Stops(p, q)
    BY <2>1, <2>2
  <2>3. CASE ~Stops(p, q)
    <3> DEFINE i == NextOn(p, Last(q))
    <3>1. Last(q) \in N /\ i \in Targets(p, Last(q)) /\ i \in N /\ i \notin ToSet(q)
      BY <2>3, <1>1, LastIsIn, OneIsPreferred, ScopeIs DEF Stops
    <3>2. Append(q, i) \in D
      BY <3>1, SimpleGrows
    <3>3. Append(q, i) \in good
      <4> HIDE DEF good, D, i
      <4> QED
        BY <1>2, <3>1, <3>2
    <3> QED
      BY <2>1, <2>3, <3>3
  <2> QED
    BY <2>2, <2>3
<1>3. D \subseteq good
  <2> HIDE DEF D, good
  <2> QED
    BY <1>1, <1>2, PathsRunOut
<1>4. CASE starts(p, scope) = {}
  BY <1>4, HappyPathUnfolds
<1>5. CASE starts(p, scope) # {}
  <2> DEFINE i == Smallest(starts(p, scope))
  <2>1. i \in N
    BY <1>5, SmallestIs, ScopeIs DEF starts
  <2>2. <<i>> \in D
    BY <2>1 DEF SimpleIn
  <2>3. HappyPath(p, scope) = Onwards(p, scope)[<<i>>]
    BY <1>5, HappyPathUnfolds
  <2> HIDE DEF i
  <2> QED
    BY <1>3, <2>2, <2>3
<1> QED
  BY <1>4, <1>5
-------------------------------------------------------------------------------
(* The cycles.                                                             *)

(* A remainder, of what is less than twice the divisor.                    *)
LEMMA RemainderIs ==
  ASSUME NEW n \in Nat, n > 0, NEW a \in Nat, a <= 2 * n
  PROVE  a % n = IF a < n THEN a ELSE IF a < 2 * n THEN a - n ELSE 0
  OBVIOUS

(* The place of the k-th element of a cycle that is told from its at-th    *)
(* element on.                                                             *)
LEMMA TurnIs ==
  ASSUME NEW n \in Nat, n > 0, NEW at \in 1..n, NEW k \in 1..n
  PROVE  ((at + k - 2) % n) + 1 = IF at + k - 1 <= n THEN at + k - 1 ELSE at + k - 1 - n
<1>1. PICK a \in Nat : a = at + k - 2
  OBVIOUS
<1>2. a % n = IF a < n THEN a ELSE IF a < 2 * n THEN a - n ELSE 0
  BY <1>1, RemainderIs
<1>3. (a % n) + 1 = IF at + k - 1 <= n THEN at + k - 1 ELSE at + k - 1 - n
  BY <1>1, <1>2
<1> QED
  BY <1>1, <1>3

(* The canonical form of a cycle is the cycle from its smallest element    *)
(* on.                                                                     *)
LEMMA CanonicalIs ==
  ASSUME NEW N, N \subseteq Nat, NEW c \in Seq(N), c # <<>>, \A j, k \in 1..Len(c) : c[j] = c[k] => j = k
  PROVE  \E at \in 1..Len(c) :
           /\ c[at] = Smallest(ToSet(c)) /\ canonicalCycle(c) \in Seq(N)
           /\ Len(canonicalCycle(c)) = Len(c)
           /\ \A k \in 1..Len(c) :
                canonicalCycle(c)[k] = c[IF at + k - 1 <= Len(c) THEN at + k - 1 ELSE at + k - 1 - Len(c)]
<1> DEFINE n == Len(c)
           at == CHOOSE k \in DOMAIN c : c[k] = Smallest(ToSet(c))
<1>1. n \in Nat /\ n > 0 /\ DOMAIN c = 1..n /\ c \in [1..n -> N]
  BY LastIsIn, LenProperties
<1>2. ToSet(c) = {c[k] : k \in 1..n} /\ ToSet(c) \subseteq Nat /\ c[1] \in ToSet(c)
  <2>1. ToSet(c) = {c[k] : k \in 1..n} /\ ToSet(c) \subseteq N
    BY ToSetIs
  <2>2. 1 \in 1..n
    BY <1>1
  <2> QED
    BY <2>1, <2>2
<1>3. Smallest(ToSet(c)) \in ToSet(c)
  BY <1>2, SmallestIs
<1>4. at \in 1..n /\ c[at] = Smallest(ToSet(c))
  <2> DEFINE x == Smallest(ToSet(c))
  <2>1. x \in {c[k] : k \in 1..n}
    BY <1>2, <1>3
  <2> HIDE DEF x
  <2>2. \E k \in DOMAIN c : c[k] = x
    BY <1>1, <2>1
  <2> QED
    BY <2>2, <1>1 DEF x
<1> HIDE DEF at
<1>5. canonicalCycle(c) = [k \in 1..n |-> c[((at + k - 2) % n) + 1]]
  BY <1>1 DEF canonicalCycle, at
<1>6. \A k \in 1..n :
        ((at + k - 2) % n) + 1 = IF at + k - 1 <= n THEN at + k - 1 ELSE at + k - 1 - n
  BY <1>1, <1>4, TurnIs
<1>7. \A k \in 1..n : (IF at + k - 1 <= n THEN at + k - 1 ELSE at + k - 1 - n) \in 1..n
  BY <1>1, <1>4
<1>8. canonicalCycle(c) = [k \in 1..n |-> c[IF at + k - 1 <= n THEN at + k - 1 ELSE at + k - 1 - n]]
  BY <1>5, <1>6
<1>9. canonicalCycle(c) \in [1..n -> N]
  BY <1>1, <1>7, <1>8
<1>10. canonicalCycle(c) \in Seq(N) /\ Len(canonicalCycle(c)) = n
  BY <1>1, <1>9
<1> QED
  BY <1>4, <1>8, <1>10

(* The cycle that a flow from the end of w back to j closes.               *)
Loop(w, j) == SubSeq(w, CHOOSE k \in DOMAIN w : w[k] = j, Len(w))

(* The function that Cycles applies.                                       *)
Visits(p, scope) ==
  CHOOSE visit :
    visit = [path \in Seq(Nodes(p, scope)) \ {<<>>} |->
        UNION {IF i \in ToSet(path)
               THEN {canonicalCycle(SubSeq(path, CHOOSE k \in DOMAIN path : path[k] = i, Len(path)))}
               ELSE visit[Append(path, i)] : i \in Targets(p, Last(path))}]

(* It is that function.                                                    *)
LEMMA CyclesUnfold ==
  ASSUME NEW p, NEW scope
  PROVE  Cycles(p, scope) = UNION {Visits(p, scope)[<<i>>] : i \in Nodes(p, scope)}
  BY DEF Cycles, Visits

(* The cycles that the extensions of a path end with.                      *)
Endings(p, w) == {canonicalCycle(Loop(w, j)) : j \in Targets(p, Last(w)) \cap ToSet(w)}
(* And of all of its extensions.                                           *)
FoundFrom(p, N, path) == UNION {Endings(p, w) : w \in {v \in Seq(N) : Extends(p, path, v)}}

(* What a visit does with one more element.                                *)
Visited(p, r, path, i) ==
  IF i \in ToSet(path) THEN {canonicalCycle(Loop(path, i))} ELSE r[Append(path, i)]

(* They obey the equation of the visit.                                    *)
LEMMA FoundUnrolls ==
  ASSUME NEW p \in Processes, NEW scope, NEW path \in Seq(Nodes(p, scope)) \ {<<>>},
         NEW r, \A i \in Targets(p, Last(path)) \ ToSet(path) :
                  r[Append(path, i)] = FoundFrom(p, Nodes(p, scope), Append(path, i))
  PROVE  FoundFrom(p, Nodes(p, scope), path)
           = UNION {Visited(p, r, path, i) : i \in Targets(p, Last(path))}
<1> DEFINE N == Nodes(p, scope)
           ext(q) == {v \in Seq(N) : Extends(p, q, v)}
           next == Targets(p, Last(path))
<1>1. next \subseteq N
  BY LastIsIn, ScopeIs
<1>2. \A v \in Seq(N) : Extends(p, path, v) <=>
                          \/ v = path
                          \/ \E j \in next \ ToSet(path) : Extends(p, Append(path, j), v)
  BY <1>1, ExtendsUnrolls
<1>3. ext(path) = {path} \cup UNION {ext(Append(path, j)) : j \in next \ ToSet(path)}
  BY <1>1, <1>2
<1>4. FoundFrom(p, N, path) = Endings(p, path) \cup UNION {FoundFrom(p, N, Append(path, j)) : j \in next \ ToSet(path)}
  <2>1. \A q : FoundFrom(p, N, q) = UNION {Endings(p, w) : w \in ext(q)}
    BY DEF FoundFrom
  <2> HIDE DEF ext
  <2> QED
    BY <1>3, <2>1
<1>5. Endings(p, path) = UNION {Visited(p, r, path, j) : j \in next \cap ToSet(path)}
  BY DEF Endings, Visited
<1>6. \A j \in next \ ToSet(path) : Visited(p, r, path, j) = FoundFrom(p, N, Append(path, j))
  BY DEF Visited
<1>7. UNION {FoundFrom(p, N, Append(path, j)) : j \in next \ ToSet(path)}
        = UNION {Visited(p, r, path, j) : j \in next \ ToSet(path)}
  BY <1>6
<1> HIDE DEF next
<1>8. FoundFrom(p, N, path) = UNION {Visited(p, r, path, j) : j \in next}
  BY <1>4, <1>5, <1>7
<1> QED
  BY <1>8 DEF next

(* Hence the equation has a solution; and any solution finds them, because *)
(* paths run out.                                                          *)
LEMMA VisitsAre ==
  ASSUME NEW p \in Processes, NEW scope, NEW path \in Seq(Nodes(p, scope)) \ {<<>>}
  PROVE  Visits(p, scope)[path] = FoundFrom(p, Nodes(p, scope), path)
<1> DEFINE N == Nodes(p, scope)
           D == Seq(N) \ {<<>>}
           rhs(r, q) == UNION {Visited(p, r, q, i) : i \in Targets(p, Last(q))}
           eqn(r) == r = [q \in D |-> rhs(r, q)]
           g == [q \in D |-> FoundFrom(p, N, q)]
           r == Visits(p, scope)
<1>1. \A q \in D : \A i \in Targets(p, Last(q)) \ ToSet(q) : i \in N \ ToSet(q) /\ Append(q, i) \in D
  <2> TAKE q \in D
  <2> TAKE i \in Targets(p, Last(q)) \ ToSet(q)
  <2>1. q \in Seq(N) /\ Last(q) \in N
    BY LastIsIn
  <2>2. i \in N
    BY <2>1, ScopeIs
  <2>3. Append(q, i) \in Seq(N) /\ Append(q, i) # <<>>
    BY <2>1, <2>2, GrowsBy
  <2> QED
    BY <2>2, <2>3
<1>2. \A q \in D : FoundFrom(p, N, q) = rhs(g, q)
  <2> TAKE q \in D
  <2>1. \A i \in Targets(p, Last(q)) \ ToSet(q) : g[Append(q, i)] = FoundFrom(p, N, Append(q, i))
    BY <1>1
  <2> HIDE DEF g
  <2> QED
    BY <2>1, FoundUnrolls
<1>3. eqn(g)
  <2> HIDE DEF rhs
  <2> QED
    BY <1>2
<1>4. eqn(r)
  <2> HIDE DEF g, eqn
  <2>1. \E f : eqn(f)
    BY <1>3
  <2>2. r = CHOOSE f : eqn(f)
    BY DEF Visits, eqn, Loop, Visited
  <2> HIDE DEF r
  <2> QED
    BY <2>1, <2>2
<1> DEFINE good == {q \in D : r[q] = FoundFrom(p, N, q)}
<1>5. ASSUME NEW q \in D, \A i \in N \ ToSet(q) : Append(q, i) \in D => Append(q, i) \in good
      PROVE  q \in good
  <2>1. r[q] = rhs(r, q)
    <3> HIDE DEF rhs, r
    <3> QED
      BY <1>4
  <2>2. \A i \in Targets(p, Last(q)) \ ToSet(q) : r[Append(q, i)] = FoundFrom(p, N, Append(q, i))
    <3> HIDE DEF r
    <3> QED
      BY <1>1, <1>5
  <2>3. FoundFrom(p, N, q) = rhs(r, q)
    <3> HIDE DEF r
    <3> QED
      BY <2>2, FoundUnrolls
  <2> HIDE DEF rhs, r
  <2> QED
    BY <2>1, <2>3
<1>6. IsFiniteSet(N)
  BY ScopeIs
<1>7. D \subseteq good
  <2>1. D \in SUBSET Seq(N)
    OBVIOUS
  <2> HIDE DEF good, D
  <2> QED
    BY <1>5, <1>6, <2>1, PathsRunOut
<1> HIDE DEF r
<1> QED
  BY <1>7 DEF r

(* The simple cycles: paths that pass nothing twice and lead back.         *)
RoundIn(p, N) == {q \in SimpleIn(p, N) : Head(q) \in Targets(p, Last(q))}

(* The cycle a simple path closes is the part of it from that element on.  *)
LEMMA LoopIs ==
  ASSUME NEW p, NEW N, NEW w \in SimpleIn(p, N), NEW m \in 1..Len(w)
  PROVE  /\ Loop(w, w[m]) = SubSeq(w, m, Len(w))
         /\ SubSeq(w, m, Len(w)) \in SimpleIn(p, N)
         /\ Head(SubSeq(w, m, Len(w))) = w[m] /\ Last(SubSeq(w, m, Len(w))) = Last(w)
<1> DEFINE n == Len(w)
           q == SubSeq(w, m, n)
<1>1. /\ w \in Seq(N) /\ n \in Nat /\ n > 0 /\ DOMAIN w = 1..n
      /\ \A i, j \in 1..n : w[i] = w[j] => i = j
  BY LastIsIn DEF SimpleIn
<1>2. (CHOOSE k \in DOMAIN w : w[k] = w[m]) = m
  BY <1>1
<1>3. q \in Seq(N) /\ Len(q) = n - m + 1 /\ \A k \in 1..(n - m + 1) : q[k] = w[m + k - 1]
  BY <1>1, SubSeqProperties
<1> HIDE DEF q
<1>4. Loop(w, w[m]) = q
  BY <1>2 DEF Loop, q
<1>5. q # <<>> /\ Head(q) = w[m] /\ Last(q) = w[n]
  <2>1. PICK l \in Nat : l = n - m + 1 /\ l > 0 /\ m + 1 - 1 = m /\ m + l - 1 = n
    BY <1>1
  <2>2. Len(q) = l /\ \A k \in 1..l : q[k] = w[m + k - 1]
    BY <1>3, <2>1, Zenon
  <2>3. 1 \in 1..l /\ l \in 1..l
    BY <2>1
  <2>4. q[1] = w[m] /\ q[l] = w[n]
    BY <2>1, <2>2, <2>3, Zenon
  <2>5. q # <<>> /\ Head(q) = q[1]
    BY <1>3, <2>1, <2>2
  <2>6. Last(q) = q[l]
    BY <2>2, Zenon DEF Last
  <2> QED
    BY <2>4, <2>5, <2>6, Zenon
<1>6. \A k \in 1..(Len(q) - 1) : q[k + 1] \in Targets(p, q[k])
  <2> TAKE k \in 1..(Len(q) - 1)
  <2>1. /\ m + k - 1 \in 1..(n - 1) /\ k \in 1..(n - m + 1) /\ k + 1 \in 1..(n - m + 1)
        /\ m + (k + 1) - 1 = (m + k - 1) + 1
    <3>1. k \in 1..(n - m + 1 - 1)
      BY <1>3
    <3> QED
      BY <1>1, <3>1
  <2>2. q[k] = w[m + k - 1] /\ q[k + 1] = w[(m + k - 1) + 1]
    <3>1. q[k] = w[m + k - 1] /\ q[k + 1] = w[m + (k + 1) - 1]
      BY <1>3, <2>1, Zenon
    <3> QED
      BY <2>1, <3>1, Zenon
  <2> QED
    <3>1. PICK k0 \in 1..(n - 1) : k0 = m + k - 1
      BY <2>1
    <3>2. w[k0 + 1] \in Targets(p, w[k0])
      BY <1>1, <3>1 DEF SimpleIn
    <3> QED
      BY <2>2, <3>1, <3>2
<1>7. \A i, j \in 1..Len(q) : q[i] = q[j] => i = j
  <2> TAKE i \in 1..Len(q), j \in 1..Len(q)
  <2>1. m + i - 1 \in 1..n /\ m + j - 1 \in 1..n /\ q[i] = w[m + i - 1] /\ q[j] = w[m + j - 1]
    <3>1. i \in 1..(n - m + 1) /\ j \in 1..(n - m + 1)
      BY <1>3, Zenon
    <3>2. m + i - 1 \in 1..n /\ m + j - 1 \in 1..n
      BY <1>1, <3>1
    <3>3. q[i] = w[m + i - 1] /\ q[j] = w[m + j - 1]
      BY <1>3, <3>1, Zenon
    <3> QED
      BY <3>2, <3>3
  <2>2. w[m + i - 1] = w[m + j - 1] => m + i - 1 = m + j - 1
    BY <1>1, <2>1
  <2> QED
    BY <1>1, <2>1, <2>2
<1> QED
  BY <1>3, <1>4, <1>5, <1>6, <1>7 DEF SimpleIn, q, Last

(* The cycles told are the simple cycles, each in its canonical form.      *)
LEMMA CyclesAre ==
  ASSUME NEW p \in Processes, NEW scope
  PROVE  Cycles(p, scope) = {canonicalCycle(q) : q \in RoundIn(p, Nodes(p, scope))}
<1> DEFINE N == Nodes(p, scope)
<1>1. \A i \in N : Visits(p, scope)[<<i>>] = UNION {Endings(p, w) : w \in {v \in SimpleIn(p, N) : Head(v) = i}}
  <2> TAKE i \in N
  <2>1. <<i>> \in Seq(N) \ {<<>>}
    OBVIOUS
  <2>2. Visits(p, scope)[<<i>>] = UNION {Endings(p, w) : w \in {v \in Seq(N) : Extends(p, <<i>>, v)}}
    BY <2>1, VisitsAre DEF FoundFrom
  <2>3. {v \in Seq(N) : Extends(p, <<i>>, v)} = {v \in SimpleIn(p, N) : Head(v) = i}
    <3>1. \A v \in Seq(N) : Extends(p, <<i>>, v) <=> v \in SimpleIn(p, N) /\ Head(v) = i
      BY SimpleExtends
    <3>2. SimpleIn(p, N) \subseteq Seq(N)
      BY DEF SimpleIn
    <3> QED
      BY <3>1, <3>2
  <2> QED
    BY <2>2, <2>3
<1>2. ASSUME NEW c \in Cycles(p, scope) PROVE \E q \in RoundIn(p, N) : c = canonicalCycle(q)
  <2>1. PICK i \in N : c \in Visits(p, scope)[<<i>>]
    BY CyclesUnfold
  <2>2. PICK w \in SimpleIn(p, N) : c \in Endings(p, w)
    BY <1>1, <2>1
  <2>3. PICK j \in Targets(p, Last(w)) \cap ToSet(w) : c = canonicalCycle(Loop(w, j))
    BY <2>2 DEF Endings
  <2>4. PICK m \in 1..Len(w) : j = w[m]
    BY <2>3, ToSetIs DEF SimpleIn
  <2>5. Loop(w, j) \in SimpleIn(p, N) /\ Head(Loop(w, j)) = j /\ Last(Loop(w, j)) = Last(w)
    <3> DEFINE q == SubSeq(w, m, Len(w))
    <3>1. Loop(w, w[m]) = q /\ q \in SimpleIn(p, N) /\ Head(q) = w[m] /\ Last(q) = Last(w)
      BY LoopIs
    <3>2. Loop(w, j) = q
      BY <2>4, <3>1
    <3> HIDE DEF q
    <3> QED
      BY <2>4, <3>1, <3>2
  <2> QED
    BY <2>3, <2>5 DEF RoundIn
<1>3. ASSUME NEW q \in RoundIn(p, N) PROVE canonicalCycle(q) \in Cycles(p, scope)
  <2>1. q \in SimpleIn(p, N) /\ q \in Seq(N) /\ q # <<>> /\ Head(q) \in Targets(p, Last(q))
    BY DEF RoundIn, SimpleIn
  <2>2. Len(q) \in Nat /\ Len(q) > 0 /\ Head(q) = q[1] /\ q[1] \in N
    BY <2>1, LastIsIn
  <2>3. Head(q) \in ToSet(q)
    BY <2>1, <2>2, ToSetIs
  <2>4. Loop(q, Head(q)) = q
    <3>1. 1 \in 1..Len(q)
      BY <2>2
    <3>2. Loop(q, q[1]) = SubSeq(q, 1, Len(q))
      BY <2>1, <3>1, LoopIs
    <3>3. SubSeq(q, 1, Len(q)) = q
      BY <2>1, SubSeqFull
    <3> QED
      BY <3>2, <3>3, <2>2
  <2>5. canonicalCycle(q) \in Endings(p, q)
    BY <2>1, <2>3, <2>4 DEF Endings
  <2>6. canonicalCycle(q) \in Visits(p, scope)[<<Head(q)>>]
    BY <1>1, <2>1, <2>2, <2>5
  <2> QED
    BY <2>2, <2>6, CyclesUnfold
<1> QED
  BY <1>2, <1>3

(* c is q, begun n elements later.                                         *)
Turned(c, q, n) == \A k \in DOMAIN q : c[((k + n) % Len(q)) + 1] = q[k]

(* The place of the k-th element of a cycle of length l begun n elements   *)
(* later, and the way back.                                                *)
Place(k, n, l) == IF k + n < l THEN k + n + 1 ELSE IF k + n < 2 * l THEN k + n - l + 1 ELSE 1
Back(m, n, l) ==
  IF m - 1 - n >= 1 THEN m - 1 - n ELSE IF m - 1 - n + l >= 1 THEN m - 1 - n + l ELSE l

(* It is the remainder of canonicalCycle.                                  *)
LEMMA PlaceIs ==
  ASSUME NEW l \in Nat, l > 0, NEW n \in 1..l, NEW k \in 1..l
  PROVE  ((k + n) % l) + 1 = Place(k, n, l) /\ Place(k, n, l) \in 1..l
<1>1. PICK a \in Nat : a = k + n /\ a <= 2 * l
  OBVIOUS
<1>2. a % l = IF a < l THEN a ELSE IF a < 2 * l THEN a - l ELSE 0
  BY <1>1, RemainderIs
<1>3. (a % l) + 1 = Place(k, n, l)
  BY <1>1, <1>2 DEF Place
<1>4. Place(k, n, l) \in 1..l
  BY DEF Place
<1> QED
  BY <1>1, <1>3, <1>4

(* There and back.                                                         *)
LEMMA BackIs ==
  ASSUME NEW l \in Nat, l > 0, NEW n \in 1..l, NEW m \in 1..l
  PROVE  Back(m, n, l) \in 1..l /\ Place(Back(m, n, l), n, l) = m
  BY DEF Place, Back

(* Turned, without remainders.                                             *)
LEMMA TurnedIs ==
  ASSUME NEW N, NEW c \in Seq(N), NEW q \in Seq(N), q # <<>>, Len(c) = Len(q), NEW n \in 1..Len(q)
  PROVE  /\ Turned(c, q, n) <=> \A k \in 1..Len(q) : c[Place(k, n, Len(q))] = q[k]
         /\ Turned(c, q, n) => \A m \in 1..Len(q) : c[m] = q[Back(m, n, Len(q))]
<1>1. Len(q) \in Nat /\ Len(q) > 0 /\ DOMAIN q = 1..Len(q)
  BY LastIsIn
<1>2. Turned(c, q, n) <=> \A k \in 1..Len(q) : c[Place(k, n, Len(q))] = q[k]
  <2>1. \A k \in 1..Len(q) : ((k + n) % Len(q)) + 1 = Place(k, n, Len(q))
    BY <1>1, PlaceIs
  <2> QED
    BY <1>1, <2>1 DEF Turned
<1>3. \A m \in 1..Len(q) : Back(m, n, Len(q)) \in 1..Len(q) /\ Place(Back(m, n, Len(q)), n, Len(q)) = m
  BY <1>1, BackIs
<1> QED
  BY <1>2, <1>3

(* A turned cycle has the same elements.                                   *)
LEMMA TurnedHasTheSame ==
  ASSUME NEW N, NEW c \in Seq(N), NEW q \in Seq(N), q # <<>>, Len(c) = Len(q), NEW n \in 1..Len(q),
         Turned(c, q, n)
  PROVE  ToSet(c) = ToSet(q)
<1>1. Len(q) \in Nat /\ Len(q) > 0
  BY LastIsIn
<1>2. ToSet(c) = {c[k] : k \in 1..Len(q)} /\ ToSet(q) = {q[k] : k \in 1..Len(q)}
  BY ToSetIs
<1>3. \A k \in 1..Len(q) : Place(k, n, Len(q)) \in 1..Len(q) /\ Back(k, n, Len(q)) \in 1..Len(q)
  BY <1>1, PlaceIs, BackIs
<1>4. \A k \in 1..Len(q) : c[Place(k, n, Len(q))] = q[k] /\ c[k] = q[Back(k, n, Len(q))]
  BY TurnedIs
<1>5. \A k \in 1..Len(q) : q[k] \in ToSet(c)
  BY <1>2, <1>3, <1>4
<1>6. \A k \in 1..Len(q) : c[k] \in ToSet(q)
  BY <1>2, <1>3, <1>4
<1> QED
  BY <1>2, <1>5, <1>6

(* Where the k-th element of a sequence of l elements that is begun with   *)
(* the at-th one was before.                                               *)
From(at, k, l) == IF at + k - 1 <= l THEN at + k - 1 ELSE at + k - 1 - l

(* It passes through every place once, from the last one to the first.     *)
LEMMA FromIs ==
  ASSUME NEW l \in Nat, l > 0, NEW at \in 1..l, NEW k \in 1..l
  PROVE  /\ From(at, k, l) \in 1..l
         /\ \A j \in 1..l : From(at, j, l) = From(at, k, l) => j = k
         /\ k < l => From(at, k + 1, l) = IF From(at, k, l) = l THEN 1 ELSE From(at, k, l) + 1
  BY DEF From

(* It undoes Place.                                                        *)
LEMMA FromPlace ==
  ASSUME NEW l \in Nat, l > 0, NEW at \in 1..l, NEW k \in 1..l
  PROVE  From(at, Place(k, IF at < l THEN l - at ELSE l, l), l) = k
<1>1. CASE at < l
  BY <1>1 DEF From, Place
<1>2. CASE at = l
  BY <1>2 DEF From, Place
<1> QED
  BY <1>1, <1>2

(* The canonical form of a cycle is the cycle, begun with its smallest     *)
(* element.                                                                *)
LEMMA CanonicalTurns ==
  ASSUME NEW p, NEW N, N \subseteq Nat, NEW q \in RoundIn(p, N)
  PROVE  /\ canonicalCycle(q) \in RoundIn(p, N) /\ Len(canonicalCycle(q)) = Len(q)
         /\ canonicalCycle(q)[1] = Smallest(ToSet(canonicalCycle(q)))
         /\ \E n \in 1..Len(q) : Turned(canonicalCycle(q), q, n)
<1> DEFINE l == Len(q)
           c == canonicalCycle(q)
           s(at, k) == From(at, k, l)
<1>1. /\ q \in Seq(N) /\ q # <<>> /\ l \in Nat /\ l > 0 /\ DOMAIN q = 1..l
      /\ Head(q) = q[1] /\ Last(q) = q[l] /\ q[1] \in Targets(p, q[l])
      /\ \A i, j \in 1..l : q[i] = q[j] => i = j
      /\ \A k \in 1..(l - 1) : q[k + 1] \in Targets(p, q[k])
  <2>1. /\ q \in Seq(N) /\ q # <<>> /\ Head(q) \in Targets(p, Last(q))
        /\ \A i, j \in 1..l : q[i] = q[j] => i = j
        /\ \A k \in 1..(l - 1) : q[k + 1] \in Targets(p, q[k])
    BY DEF RoundIn, SimpleIn
  <2>2. l \in Nat /\ l > 0
    BY <2>1, LastIsIn
  <2>3. DOMAIN q = 1..l /\ Head(q) = q[1]
    BY <2>1
  <2>4. Last(q) = q[l]
    BY DEF Last
  <2>5. q[1] \in Targets(p, q[l])
    BY <2>1, <2>3, <2>4, Zenon
  <2> QED
    BY <2>1, <2>2, <2>3, <2>4, <2>5, Zenon
<1>2. PICK at \in 1..l : /\ q[at] = Smallest(ToSet(q)) /\ c \in Seq(N) /\ Len(c) = l
                         /\ \A k \in 1..l : c[k] = q[s(at, k)]
  <2>1. q \in Seq(N) /\ q # <<>> /\ \A j, k \in 1..Len(q) : q[j] = q[k] => j = k
    BY <1>1, Zenon
  <2>2. \E at \in 1..Len(q) :
          /\ q[at] = Smallest(ToSet(q)) /\ canonicalCycle(q) \in Seq(N) /\ Len(canonicalCycle(q)) = Len(q)
          /\ \A k \in 1..Len(q) :
               canonicalCycle(q)[k] = q[IF at + k - 1 <= Len(q) THEN at + k - 1 ELSE at + k - 1 - Len(q)]
    BY <2>1, CanonicalIs, Zenon
  <2> QED
    BY <2>2, Zenon DEF From
<1> HIDE DEF c
<1>3. \A k \in 1..l : s(at, k) \in 1..l
  BY <1>1, FromIs
<1>4. \A k \in 1..(Len(c) - 1) : c[k + 1] \in Targets(p, c[k])
  <2> TAKE k \in 1..(Len(c) - 1)
  <2>1. k \in 1..l /\ k + 1 \in 1..l
    BY <1>1, <1>2
  <2>2. c[k] = q[s(at, k)] /\ c[k + 1] = q[s(at, k + 1)]
    BY <1>2, <2>1
  <2>3. CASE s(at, k) = l
    <3>1. s(at, k + 1) = 1
      BY <1>1, <1>2, <2>1, <2>3, FromIs
    <3> HIDE DEF s
    <3> QED
      BY <1>1, <2>2, <2>3, <3>1
  <2>4. CASE s(at, k) # l
    <3>1. s(at, k + 1) = s(at, k) + 1 /\ s(at, k) \in 1..(l - 1)
      <4>1. /\ k < l /\ s(at, k) \in 1..l
            /\ s(at, k + 1) = IF s(at, k) = l THEN 1 ELSE s(at, k) + 1
        <5>1. k < l /\ k \in 1..l /\ at \in 1..l /\ l \in Nat /\ l > 0
          BY <1>1, <1>2, <2>1
        <5> HIDE DEF l
        <5> QED
          BY <5>1, FromIs
      <4> HIDE DEF s
      <4> QED
        BY <1>1, <2>4, <4>1
    <3> HIDE DEF s
    <3> QED
      BY <1>1, <2>2, <3>1
  <2> QED
    BY <2>3, <2>4
<1>5. \A i, j \in 1..Len(c) : c[i] = c[j] => i = j
  <2> TAKE i \in 1..Len(c), j \in 1..Len(c)
  <2>1. i \in 1..l /\ j \in 1..l /\ c[i] = q[s(at, i)] /\ c[j] = q[s(at, j)]
    BY <1>2
  <2>2. s(at, i) = s(at, j) => i = j
    BY <1>1, <2>1, FromIs
  <2>3. s(at, i) \in 1..l /\ s(at, j) \in 1..l
    BY <1>3, <2>1
  <2> HIDE DEF s
  <2> QED
    BY <1>1, <2>1, <2>2, <2>3
<1>6. c # <<>> /\ Head(c) = c[1] /\ Last(c) = c[l] /\ 1 \in 1..l /\ l \in 1..l
  BY <1>1, <1>2 DEF Last
<1>7. Head(c) \in Targets(p, Last(c))
  <2>1. c[1] = q[at] /\ s(at, l) = IF at = 1 THEN l ELSE at - 1
    BY <1>1, <1>2 DEF From
  <2>2. c[l] = q[s(at, l)]
    BY <1>2, <1>6
  <2>3. CASE at = 1
    BY <1>1, <1>6, <2>1, <2>2, <2>3
  <2>4. CASE at # 1
    <3>1. at - 1 \in 1..(l - 1) /\ (at - 1) + 1 = at /\ s(at, l) = at - 1
      BY <1>1, <2>1, <2>4
    <3>2. q[(at - 1) + 1] \in Targets(p, q[at - 1])
      BY <1>1, <3>1
    <3> HIDE DEF s
    <3> QED
      BY <1>6, <2>1, <2>2, <3>1, <3>2
  <2> QED
    BY <2>3, <2>4
<1>8. c \in RoundIn(p, N)
  BY <1>2, <1>4, <1>5, <1>6, <1>7 DEF RoundIn, SimpleIn
<1> DEFINE n == IF at < l THEN l - at ELSE l
<1>9. n \in 1..l /\ Turned(c, q, n)
  <2>1. n \in 1..l
    BY <1>1
  <2>2. \A k \in 1..l : Place(k, n, l) \in 1..l /\ s(at, Place(k, n, l)) = k
    <3>1. \A k \in 1..l : s(at, Place(k, n, l)) = k
      BY <1>1, FromPlace
    <3>2. \A k \in 1..l : Place(k, n, l) \in 1..l
      <4> HIDE DEF n
      <4> QED
        BY <1>1, <2>1, PlaceIs
    <3> QED
      BY <3>1, <3>2
  <2>3. \A k \in 1..l : c[Place(k, n, l)] = q[k]
    <3> HIDE DEF s, n
    <3> QED
      BY <1>2, <2>2
  <2> HIDE DEF n
  <2> QED
    BY <1>1, <1>2, <2>1, <2>3, TurnedIs
<1>10. ToSet(c) = ToSet(q)
  <2> HIDE DEF n
  <2> QED
    BY <1>1, <1>2, <1>9, TurnedHasTheSame
<1>11. c[1] = q[at]
  BY <1>1, <1>2 DEF From
<1> HIDE DEF n
<1> QED
  BY <1>2, <1>8, <1>9, <1>10, <1>11 DEF c

(* Each simple cycle is told once.                                         *)
LEMMA EachCycleOnce ==
  ASSUME NEW p \in Processes, NEW scope, NEW q \in RoundIn(p, Nodes(p, scope))
  PROVE  Cardinality({c \in Cycles(p, scope) : Len(c) = Len(q) /\ \E n \in 1..Len(q) : Turned(c, q, n)}) = 1
<1> DEFINE N == Nodes(p, scope)
           l == Len(q)
           same == {c \in Cycles(p, scope) : Len(c) = l /\ \E n \in 1..l : Turned(c, q, n)}
           first == canonicalCycle(q)
<1>1. N \subseteq Nat
  BY ScopeIs
<1>2. /\ q \in Seq(N) /\ q # <<>> /\ l \in Nat /\ l > 0 /\ DOMAIN q = 1..l
      /\ \A i, j \in 1..l : q[i] = q[j] => i = j
  BY LastIsIn DEF RoundIn, SimpleIn
<1>3. first \in same
  BY <1>1, CyclesAre, CanonicalTurns
<1>4. \A c \in same : c \in Seq(N) /\ Len(c) = l /\ c[1] = Smallest(ToSet(q)) /\ \E n \in 1..l : Turned(c, q, n)
  <2> SUFFICES ASSUME NEW c \in same PROVE c \in Seq(N) /\ c[1] = Smallest(ToSet(q))
    OBVIOUS
  <2>1. PICK r \in RoundIn(p, N) : c = canonicalCycle(r)
    BY CyclesAre
  <2>2. c \in Seq(N) /\ c[1] = Smallest(ToSet(c))
    BY <1>1, <2>1, CanonicalTurns DEF RoundIn, SimpleIn
  <2>3. PICK n \in 1..l : Turned(c, q, n) /\ Len(c) = l
    OBVIOUS
  <2>4. ToSet(c) = ToSet(q)
    BY <1>2, <2>2, <2>3, TurnedHasTheSame
  <2> QED
    BY <2>2, <2>4
<1> HIDE DEF same
<1>5. ASSUME NEW c \in same, NEW d \in same PROVE c = d
  <2>1. PICK n \in 1..l : Turned(c, q, n)
    BY <1>4
  <2>2. PICK m \in 1..l : Turned(d, q, m)
    BY <1>4
  <2>3. \A k \in 1..l : c[k] = q[Back(k, n, l)] /\ d[k] = q[Back(k, m, l)]
    BY <1>2, <1>4, <2>1, <2>2, TurnedIs
  <2>4. Back(1, n, l) \in 1..l /\ Back(1, m, l) \in 1..l /\ 1 \in 1..l
    BY <1>2, BackIs
  <2>5. Back(1, n, l) = Back(1, m, l)
    BY <1>2, <1>4, <2>3, <2>4
  <2>6. n = m
    <3> HIDE DEF l
    <3> QED
      BY <1>2, <2>5 DEF Back
  <2>7. \A k \in 1..l : c[k] = d[k]
    BY <2>3, <2>6
  <2> QED
    BY <1>2, <1>4, <2>7, SeqEqual
<1>6. same = {first}
  BY <1>3, <1>5
<1>7. Cardinality(same) = 1
  BY <1>6, FS_Singleton
<1> QED
  BY <1>7 DEF same

(* PathsToldOnce, of one scope.                                            *)
LEMMA PathsAreToldOnce ==
  ASSUME NEW p \in Processes, NEW s
  PROVE  LET simple == {q \in SimplePaths(Nodes(p, s)) : Chained(p, q)}
             whole == {q \in simple : Head(q) \in starts(p, s) /\ Out(p, Last(q)) = {}}
             round == {q \in simple : Head(q) \in Targets(p, Last(q))}
         IN  /\ AlternatePaths(p, s) = whole \ {HappyPath(p, s)}
             /\ HappyPath(p, s) \in simple \cup {<<>>}
             /\ \A q \in round :
                  Cardinality({c \in Cycles(p, s) : Len(c) = Len(q) /\ \E n \in 1..Len(q) :
                                 \A k \in DOMAIN q : c[((k + n) % Len(q)) + 1] = q[k]}) = 1
             /\ Cycles(p, s) \subseteq round
<1> DEFINE N == Nodes(p, s)
           simple == {q \in SimplePaths(N) : Chained(p, q)}
           whole == {q \in simple : Head(q) \in starts(p, s) /\ Out(p, Last(q)) = {}}
           round == {q \in simple : Head(q) \in Targets(p, Last(q))}
<1>1. simple = SimpleIn(p, N)
  BY ScopeIs, SimplePathsAre
<1> HIDE DEF simple
<1>2. AlternatePaths(p, s) = whole \ {HappyPath(p, s)}
  <2>1. whole = {q \in SimpleIn(p, N) : Head(q) \in starts(p, s) /\ Out(p, Last(q)) = {}}
    BY <1>1
  <2>2. AlternatePaths(p, s) = (UNION {walkPaths(p, s, i) : i \in starts(p, s)}) \ {HappyPath(p, s)}
    BY DEF AlternatePaths
  <2>3. UNION {walkPaths(p, s, i) : i \in starts(p, s)}
          = {q \in SimpleIn(p, N) : Head(q) \in starts(p, s) /\ Out(p, Last(q)) = {}}
    BY WalksFindAll
  <2> HIDE DEF whole, N
  <2> QED
    BY <2>1, <2>2, <2>3
<1>3. HappyPath(p, s) \in simple \cup {<<>>}
  BY <1>1, HappyPathIsSimple
<1>4. round = RoundIn(p, N)
  BY <1>1 DEF RoundIn
<1>5. \A q \in round :
        Cardinality({c \in Cycles(p, s) : Len(c) = Len(q) /\ \E n \in 1..Len(q) : Turned(c, q, n)}) = 1
  BY <1>4, EachCycleOnce
<1>6. Cycles(p, s) \subseteq round
  BY <1>4, CyclesAre, CanonicalTurns, ScopeIs
<1> QED
  BY <1>2, <1>3, <1>5, <1>6 DEF simple, Turned

(* Of any process, every whole simple path is the happy path or an         *)
(* alternate path, and every simple cycle is told exactly once             *)
(* (graph.go:96-181, explain.go:90-174).                                   *)
THEOREM PathsAreTold == GraphSpec => []PathsToldOnce
<1>1. GraphInvariant => PathsToldOnce
  <2> SUFFICES ASSUME GraphInvariant, inspected # <<>> PROVE PathsToldOnce
    BY DEF PathsToldOnce
  <2>1. PICK p \in Processes :
          /\ inspected[1] = p
          /\ insight.happy = [s \in summarizeScopes(p) |-> HappyPath(p, s)]
          /\ insight.alternates = [s \in summarizeScopes(p) |-> AlternatePaths(p, s)]
          /\ insight.cycles = [s \in summarizeScopes(p) |-> Cycles(p, s)]
    BY DEF GraphInvariant
  <2>2. \A s \in summarizeScopes(p) :
          /\ insight.happy[s] = HappyPath(p, s) /\ insight.alternates[s] = AlternatePaths(p, s)
          /\ insight.cycles[s] = Cycles(p, s)
    BY <2>1
  <2> QED
    BY <2>1, <2>2, PathsAreToldOnce DEF PathsToldOnce
<1> QED
  BY <1>1, InspectionIsKept, PTL

(* A scope without a cycle lets no simple path lead back into itself.      *)
LEMMA QuietScopeFinishes ==
  ASSUME NEW p \in Processes, NEW s, Cycles(p, s) = {}, NEW q \in SimpleIn(p, Nodes(p, s))
  PROVE  Targets(p, Last(q)) \cap ToSet(q) = {}
<1> DEFINE N == Nodes(p, s)
<1> SUFFICES ASSUME NEW j \in Targets(p, Last(q)) \cap ToSet(q) PROVE FALSE
  OBVIOUS
<1>1. PICK m \in 1..Len(q) : j = q[m]
  BY ToSetIs DEF SimpleIn
<1> DEFINE r == SubSeq(q, m, Len(q))
<1>2. r \in SimpleIn(p, N) /\ Head(r) = j /\ Last(r) = Last(q)
  <2>1. SubSeq(q, m, Len(q)) \in SimpleIn(p, N) /\ Head(SubSeq(q, m, Len(q))) = q[m]
        /\ Last(SubSeq(q, m, Len(q))) = Last(q)
    BY LoopIs
  <2> QED
    BY <1>1, <2>1
<1> HIDE DEF r
<1>3. r \in RoundIn(p, N)
  BY <1>2 DEF RoundIn
<1>4. canonicalCycle(r) \in Cycles(p, s)
  <2>1. Cycles(p, s) = {canonicalCycle(c) : c \in RoundIn(p, N)}
    BY CyclesAre
  <2> HIDE DEF N
  <2> QED
    BY <1>3, <2>1
<1> QED
  BY <1>4

(* A finite set of elements that are nested in each other has one that has *)
(* none of the others right within it.                                     *)
LEMMA InnermostExists ==
  ASSUME NEW p \in Processes, NEW P \in SUBSET DOMAIN p.elements, P # {}
  PROVE  \E s \in P : Nodes(p, s) \cap P = {}
<1> SUFFICES ASSUME \A s \in P : Nodes(p, s) \cap P # {} PROVE FALSE
  OBVIOUS
<1> DEFINE f == [s \in P |-> CHOOSE i \in P : i \in Nodes(p, s)]
<1>1. \A s \in P : f[s] \in P /\ p.elements[f[s]].parent = s
  BY DEF Nodes
<1>2. IsFiniteSet(P)
  BY GraphAssumption, FS_Subset DEF IsProcess
<1> HIDE DEF f
<1>3. f \in [P -> P] /\ \A s, t \in P : f[s] = f[t] => s = t
  <2>1. f \in [P -> P]
    BY <1>1 DEF f
  <2> QED
    BY <1>1, <2>1
<1>4. f \in Injection(P, P)
  BY <1>3 DEF Injection, IsInjective
<1>5. f \in Surjection(P, P)
  BY <1>2, <1>4, FS_Injection
<1>6. \A i \in P : \E s \in P : f[s] = i
  BY <1>5 DEF Surjection
<1>7. \A i \in P : p.elements[i].parent \in P
  BY <1>1, <1>6
<1> QED
  BY <1>7, GraphAssumption DEF IsProcess

(* Of elements of a scope of which each leads on to one of them, some lie  *)
(* on a cycle: a simple path through them runs out.                        *)
LEMMA LeadingOnGoesRound ==
  ASSUME NEW p \in Processes, NEW s, Cycles(p, s) = {},
         NEW X \in SUBSET Nodes(p, s), \A i \in X : Targets(p, i) \cap X # {}
  PROVE  X = {}
<1> DEFINE N == Nodes(p, s)
           D == {q \in SimpleIn(p, N) : ToSet(q) \subseteq X}
<1>1. D \in SUBSET Seq(N)
  BY DEF SimpleIn
<1>2. ASSUME NEW q \in D PROVE \E i \in N \ ToSet(q) : Append(q, i) \in D
  <2>1. q \in SimpleIn(p, N) /\ q \in Seq(N) /\ q # <<>> /\ ToSet(q) \subseteq X
    BY <1>2 DEF SimpleIn
  <2>2. Last(q) \in X /\ Len(q) \in Nat /\ Len(q) > 0
    BY <2>1, LastIsIn
  <2>3. PICK i \in X : i \in Targets(p, Last(q))
    BY <2>2
  <2>4. i \notin ToSet(q)
    BY <2>1, <2>3, QuietScopeFinishes
  <2>5. Append(q, i) \in SimpleIn(p, N)
    BY <2>1, <2>2, <2>3, <2>4, SimpleGrows
  <2>6. ToSet(Append(q, i)) \subseteq X
    BY <2>1, <2>3, GrowsBy
  <2> QED
    BY <2>3, <2>4, <2>5, <2>6
<1>3. IsFiniteSet(N)
  BY ScopeIs
<1>4. D \subseteq {}
  <2> HIDE DEF D, N
  <2> DEFINE good == {}
  <2>1. \A q \in D :
          (\A i \in N \ ToSet(q) : Append(q, i) \in D => Append(q, i) \in good) => q \in good
    BY <1>2
  <2> HIDE DEF good
  <2>2. D \subseteq good
    BY <1>1, <1>3, <2>1, PathsRunOut
  <2> QED
    BY <2>2 DEF good
<1>5. ASSUME NEW i \in X PROVE FALSE
  <2>1. <<i>> \in Seq(N) /\ <<i>> # <<>> /\ Len(<<i>>) = 1 /\ <<i>>[1] = i
    OBVIOUS
  <2>2. <<i>> \in SimpleIn(p, N)
    BY <2>1 DEF SimpleIn
  <2>3. ToSet(<<i>>) \subseteq X
    <3>1. <<i>> \in Seq(X)
      OBVIOUS
    <3> QED
      BY <3>1, ToSetIs
  <2> QED
    BY <1>4, <2>2, <2>3
<1> QED
  BY <1>5

(* The sets of which Finishing is the least.                               *)
Leading(p, S, j) ==
  /\ Targets(p, j) \subseteq S
  /\ Targets(p, j) = {} => p.elements[j].type = "endEvent"
  /\ p.elements[j].type = "subProcess" => starts(p, j) # {} /\ starts(p, j) \subseteq S

LEMMA FinishingIs ==
  ASSUME NEW p
  PROVE  Finishing(p) =
           {i \in DOMAIN p.elements :
              \A S \in SUBSET DOMAIN p.elements :
                (\A j \in DOMAIN p.elements : Leading(p, S, j) => j \in S) => i \in S}
  BY DEF Finishing, Leading

(* With no cycle, no dead end and a start everywhere each element          *)
(* finishes: one that does not has another after it or within it, and an   *)
(* innermost scope of such elements would hold a cycle.                    *)
LEMMA QuietIsFinishing ==
  ASSUME NEW p \in Processes,
         \A s \in summarizeScopes(p) :
           starts(p, s) # {} /\ Cycles(p, s) = {} /\ DeadEnds(p, s) = {}
  PROVE  \A s \in summarizeScopes(p) : Nodes(p, s) \subseteq Finishing(p)
<1> SUFFICES ASSUME NEW S \in SUBSET DOMAIN p.elements,
                    \A j \in DOMAIN p.elements : Leading(p, S, j) => j \in S,
                    NEW s \in summarizeScopes(p), NEW i \in Nodes(p, s), i \notin S
             PROVE  FALSE
  BY FinishingIs DEF Nodes
<1> DEFINE B == {j \in DOMAIN p.elements : p.elements[j].parent \in summarizeScopes(p) /\ j \notin S}
           P == {p.elements[j].parent : j \in B}
<1>1. /\ P \subseteq summarizeScopes(p) /\ P # {}
      /\ summarizeScopes(p) \subseteq {0} \cup DOMAIN p.elements
  BY DEF Nodes, summarizeScopes
<1>2. \A t : 0 \notin Nodes(p, t)
  BY ScopeIs
<1>3. PICK t \in P : Nodes(p, t) \cap P = {}
  <2> HIDE DEF P
  <2>1. CASE P \subseteq {0}
    <3>1. 0 \in P /\ \A x \in Nodes(p, 0) \cap P : FALSE
      BY <1>1, <1>2, <2>1
    <3>2. Nodes(p, 0) \cap P = {}
      BY <3>1
    <3> QED
      BY <3>1, <3>2
  <2>2. CASE P \ {0} # {}
    <3>1. PICK t \in P \ {0} : Nodes(p, t) \cap (P \ {0}) = {}
      <4>1. P \ {0} \in SUBSET DOMAIN p.elements
        BY <1>1
      <4> QED
        BY <2>2, <4>1, InnermostExists
    <3> QED
      BY <1>2, <3>1
  <2> QED
    BY <2>1, <2>2
<1> DEFINE X == Nodes(p, t) \cap B
<1>4. X # {} /\ X \in SUBSET Nodes(p, t)
  BY <1>3 DEF Nodes
<1>5. ASSUME NEW j \in X PROVE Targets(p, j) \cap X # {}
  <2>1. /\ j \in Nodes(p, t) /\ j \in DOMAIN p.elements /\ j \notin S
        /\ t \in summarizeScopes(p) /\ j \notin P
    BY <1>1, <1>3, <1>5
  <2>2. ~Leading(p, S, j)
    BY <2>1
  <2>3. p.elements[j].type = "subProcess" => starts(p, j) # {} /\ starts(p, j) \subseteq S
    <3> SUFFICES ASSUME p.elements[j].type = "subProcess"
                 PROVE  starts(p, j) # {} /\ starts(p, j) \subseteq S
      OBVIOUS
    <3>1. j \in summarizeScopes(p)
      BY <2>1 DEF summarizeScopes
    <3>2. ASSUME NEW k \in starts(p, j), k \notin S PROVE FALSE
      <4>1. k \in B /\ p.elements[k].parent = j
        BY <3>1, <3>2 DEF starts, Nodes
      <4> QED
        BY <2>1, <4>1
    <3> QED
      BY <3>1, <3>2
  <2>4. Targets(p, j) = {} => p.elements[j].type = "endEvent"
    BY <2>1, NoOutNoTargets DEF DeadEnds
  <2>5. PICK k \in Targets(p, j) : k \notin S
    BY <2>2, <2>3, <2>4 DEF Leading
  <2>6. k \in Nodes(p, t)
    BY <2>1, <2>5, ScopeIs
  <2>7. k \in X
    BY <2>1, <2>5, <2>6 DEF Nodes
  <2> QED
    BY <2>5, <2>7
<1> HIDE DEF X
<1>6. Cycles(p, t) = {}
  BY <1>1, <1>3
<1> QED
  BY <1>4, <1>5, <1>6, LeadingOnGoesRound

(* What lies on a cycle, or is a dead end, does not finish.                *)
LEMMA FinishingIsQuiet ==
  ASSUME NEW p \in Processes, NEW s, Nodes(p, s) \subseteq Finishing(p)
  PROVE  Cycles(p, s) = {} /\ DeadEnds(p, s) = {}
<1> DEFINE N == Nodes(p, s)
<1>1. ASSUME NEW c \in Cycles(p, s) PROVE FALSE
  <2>1. PICK q \in RoundIn(p, N) : TRUE
    <3>1. Cycles(p, s) = {canonicalCycle(r) : r \in RoundIn(p, N)}
      BY CyclesAre
    <3> HIDE DEF N
    <3> QED
      BY <1>1, <3>1
  <2>2. /\ q \in Seq(N) /\ Len(q) \in Nat /\ Len(q) > 0 /\ Last(q) = q[Len(q)] /\ Head(q) = q[1]
        /\ \A k \in 1..(Len(q) - 1) : q[k + 1] \in Targets(p, q[k])
        /\ Head(q) \in Targets(p, Last(q))
    <3>1. q \in Seq(N) /\ q # <<>>
      BY <2>1 DEF RoundIn, SimpleIn
    <3> HIDE DEF N
    <3>2. Len(q) \in Nat /\ Len(q) > 0 /\ Last(q) = q[Len(q)] /\ Head(q) = q[1]
      BY <3>1, LastIsIn DEF Last
    <3> QED
      BY <2>1, <3>1, <3>2 DEF RoundIn, SimpleIn
  <2>3. ToSet(q) = {q[k] : k \in 1..Len(q)} /\ ToSet(q) \subseteq N
    BY <2>2, ToSetIs
  <2> DEFINE S == DOMAIN p.elements \ ToSet(q)
  <2>4. ASSUME NEW j \in DOMAIN p.elements, Leading(p, S, j), j \notin S PROVE FALSE
    <3>1. PICK k \in 1..Len(q) : q[k] = j
      BY <2>3, <2>4
    <3>2. CASE k = Len(q)
      BY <2>2, <2>3, <2>4, <3>1, <3>2 DEF Leading
    <3>3. CASE k # Len(q)
      <4>1. k \in 1..(Len(q) - 1) /\ k + 1 \in 1..Len(q)
        BY <2>2, <3>3
      <4>2. q[k + 1] \in Targets(p, j) /\ q[k + 1] \in ToSet(q)
        BY <2>2, <2>3, <3>1, <4>1
      <4> QED
        BY <2>4, <4>2 DEF Leading
    <3> QED
      BY <3>2, <3>3
  <2>5. Head(q) \in N /\ Head(q) \in ToSet(q)
    BY <2>2, <2>3
  <2>6. Head(q) \in S
    <3> HIDE DEF S
    <3>1. S \in SUBSET DOMAIN p.elements
      BY DEF S
    <3> QED
      BY <2>4, <2>5, <3>1, FinishingIs
  <2> QED
    BY <2>5, <2>6
<1>2. ASSUME NEW i \in DeadEnds(p, s) PROVE FALSE
  <2>1. i \in N /\ p.elements[i].type # "endEvent" /\ Targets(p, i) = {}
    BY <1>2, NoOutNoTargets DEF DeadEnds
  <2> DEFINE S == DOMAIN p.elements \ {i}
  <2>2. \A j \in DOMAIN p.elements : Leading(p, S, j) => j \in S
    BY <2>1 DEF Leading
  <2>3. i \in S
    <3> HIDE DEF S
    <3>1. S \in SUBSET DOMAIN p.elements
      BY DEF S
    <3> QED
      BY <2>1, <2>2, <3>1, FinishingIs
  <2> QED
    BY <2>3
<1> QED
  BY <1>1, <1>2

(* An explanation is silent about the flows of a process exactly if every  *)
(* way through it and its subprocesses comes to an end event, where what   *)
(* is inside of its transactions and ad-hoc subprocesses does and nothing  *)
(* is left by a boundary event (explain.go:150-174, graph.go:19-26).       *)
THEOREM QuietProcessesFinish == GraphSpec => []QuietFinishes
<1>1. GraphInvariant => QuietFinishes
  <2> SUFFICES ASSUME GraphInvariant, inspected # <<>> PROVE QuietFinishes
    BY DEF QuietFinishes
  <2>1. PICK p \in Processes, policy \in Policies :
          inspected = <<p, policy>> /\ insight.missing = writeGraphDiagnostics(p)
    BY DEF GraphInvariant
  <2>2. writeGraphDiagnostics(p) = {} <=>
          \A s \in summarizeScopes(p) :
            starts(p, s) # {} /\ Cycles(p, s) = {} /\ DeadEnds(p, s) = {}
    <3> DEFINE told(t) == (IF starts(p, t) = {} THEN {<<"no start", t>>} ELSE {})
                            \cup {<<"cycle", c>> : c \in Cycles(p, t)}
                            \cup {<<"dead end", i>> : i \in DeadEnds(p, t)}
    <3>1. writeGraphDiagnostics(p) = UNION {told(t) : t \in summarizeScopes(p)}
      BY DEF writeGraphDiagnostics
    <3>2. \A t : told(t) = {} <=> starts(p, t) # {} /\ Cycles(p, t) = {} /\ DeadEnds(p, t) = {}
      <4> TAKE t
      <4>1. CASE starts(p, t) = {}
        BY <4>1, <<"no start", t>> \in told(t), Zenon
      <4>2. CASE starts(p, t) # {}
        BY <4>2, Zenon
      <4> QED
        BY <4>1, <4>2
    <3> HIDE DEF told
    <3> QED
      BY <3>1, <3>2
  <2>3. writeGraphDiagnostics(p) = {} <=>
          \A s \in summarizeScopes(p) : starts(p, s) # {} /\ Nodes(p, s) \subseteq Finishing(p)
    BY <2>2, QuietIsFinishing, FinishingIsQuiet
  <2> QED
    BY <2>1, <2>3 DEF QuietFinishes
<1> QED
  BY <1>1, InspectionIsKept, PTL
=============================================================================
