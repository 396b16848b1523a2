------------------------------- MODULE UIDaemon -------------------------------
(***************************************************************************)
(* The Lab UI in the background (src/internal/ui/daemon.go, server.go):    *)
(* EnsureBackground starts a server and keeps its process id in one file,  *)
(* StopBackground signals the process that file names, and Run is the      *)
(* server itself.  A user starts and stops it for one port or another,     *)
(* several commands may run at once, and commands and servers die.         *)
(***************************************************************************)
EXTENDS Integers

CONSTANTS
  UICommands,   \* the commands, numbered in the order they begin
  Ports,        \* the ports they are given
  MaxPids,      \* bound on the servers started
  SlowProbes    \* whether a server may take too long to answer IsRunning

ASSUME UIAssumption == UICommands \subseteq Nat /\ MaxPids \in Nat /\ SlowProbes \in BOOLEAN

VARIABLES
  servers,    \* the server processes
  pidFile,    \* the process id in the file, or 0
  ui,         \* the commands
  disturbed   \* history: commands overlapped, or a server was started or
              \* left in a way that a later stop cannot know of

uiVars == <<servers, pidFile, ui, disturbed>>

Pids == 1..MaxPids
-------------------------------------------------------------------------------
UIInit ==
  /\ servers = [p \in Pids |-> [state |-> "none", port |-> 0]]
  /\ pidFile = 0 /\ disturbed = FALSE
  /\ ui = [c \in UICommands |-> [pc |-> "idle", port |-> 0, pid |-> 0, kind |-> "none", left |-> 0]]

UAt(c, pc) == ui[c].pc = pc
Busy == {c \in UICommands : ~UAt(c, "idle") /\ ~UAt(c, "ended")}
ServingOf(all, port) == {p \in Pids : all[p].state = "serving" /\ all[p].port = port}
Serving(port) == ServingOf(servers, port)
Left(all, port) == IF ServingOf(all, port) = {} THEN 0 ELSE CHOOSE p \in Pids : p \in ServingOf(all, port)
Starting == {p \in Pids : servers[p].state = "starting"}
FreshPids == {p \in Pids : servers[p].state = "none"}

(* What IsRunning may say of a port.                                       *)
IsRunning(port) ==
  {Serving(port) # {}} \cup (IF SlowProbes THEN {FALSE} ELSE {})
Missed(port, answer) == ~answer /\ Serving(port) # {}

MayBegin(c) == UAt(c, "idle") /\ \A d \in UICommands : d < c => ~UAt(d, "idle")

Go(c, pc) == ui' = [ui EXCEPT ![c].pc = pc]
End(c) == ui' = [ui EXCEPT ![c].pc = "ended", ![c].left = Left(servers', ui[c].port)]
FirstFresh == CHOOSE p \in FreshPids : \A q \in FreshPids : p <= q
Spawned(port) ==
  FreshPids # {} /\ servers' = [servers EXCEPT ![FirstFresh] = [state |-> "starting", port |-> port]]

(* A command begins with asking whether the UI runs already.               *)
BeginEnsure(c, port, running) ==
  /\ MayBegin(c) /\ running \in IsRunning(port)
  /\ ui' = [ui EXCEPT ![c] = [@ EXCEPT !.pc = IF running THEN "ended" ELSE "spawn",
                                       !.port = port, !.kind = "ensure"]]
  /\ disturbed' = (disturbed \/ Busy # {} \/ Missed(port, running))
  /\ UNCHANGED <<servers, pidFile>>

(* startBackground: the child, then the file that names it.                *)
Spawn(c) ==
  /\ UAt(c, "spawn")
  /\ \/ /\ Spawned(ui[c].port)
        /\ ui' = [ui EXCEPT ![c].pc = "write", ![c].pid = FirstFresh]
     \/ servers' = servers /\ End(c)
  /\ UNCHANGED <<pidFile, disturbed>>

(* A mutant: the child of a start that fails is left alone.                *)
writePIDFileOrLeave(c) ==
  /\ UAt(c, "write")
  /\ \/ pidFile' = ui[c].pid /\ Go(c, "ready") /\ UNCHANGED servers
     \/ UNCHANGED <<pidFile, servers>> /\ End(c)
  /\ UNCHANGED disturbed

writePIDFile(c) ==
  /\ UAt(c, "write")
  /\ \/ pidFile' = ui[c].pid /\ Go(c, "ready") /\ UNCHANGED servers
     \/ /\ servers' = [servers EXCEPT ![ui[c].pid].state = "dead"] /\ UNCHANGED pidFile
        /\ End(c)
  /\ UNCHANGED disturbed

(* waitReady: until the UI answers, or too long.                           *)
waitReady(c) ==
  /\ UAt(c, "ready")
  /\ UNCHANGED <<servers, pidFile>>
  /\ End(c)
  /\ \/ TRUE \in IsRunning(ui[c].port) /\ UNCHANGED disturbed
     \/ FALSE \in IsRunning(ui[c].port) /\ disturbed' = (disturbed \/ Starting # {})

(* Run in a child: it gives up when the UI runs or the port is taken.      *)
Run(p) ==
  /\ p \in Starting
  /\ servers' = [servers EXCEPT ![p].state = IF Serving(servers[p].port) = {} THEN "serving" ELSE "dead"]
  /\ UNCHANGED <<pidFile, ui, disturbed>>

(* A user runs it in a terminal; no file knows.                            *)
Foreground(port) ==
  /\ Spawned(port) /\ disturbed' = TRUE
  /\ UNCHANGED <<pidFile, ui>>

ServerDies(p) ==
  /\ servers[p].state = "serving"
  /\ servers' = [servers EXCEPT ![p].state = "dead"]
  /\ UNCHANGED <<pidFile, ui, disturbed>>

(* StopBackground: without an answer the file goes and there is nothing to *)
(* stop; without a file, or with one that names no process, nothing can be.*)
BeginStop(c, port, running) ==
  LET stop == [ui[c] EXCEPT !.port = port, !.kind = "stop"]
      gone == pidFile = 0 \/ servers[pidFile].state = "dead"
  IN
  /\ MayBegin(c) /\ running \in IsRunning(port)
  /\ disturbed' = (disturbed \/ Busy # {} \/ Missed(port, running))
  /\ pidFile' = IF running THEN pidFile ELSE 0
  /\ servers' = IF running /\ ~gone THEN [servers EXCEPT ![pidFile].state = "dead"] ELSE servers
  /\ ui' = [ui EXCEPT ![c] =
              [stop EXCEPT !.pc = IF running /\ ~gone THEN "dying" ELSE "ended",
                           !.left = Left(servers, port)]]

(* Then it waits until the UI does not answer, or too long.                *)
Stopped(c) ==
  /\ UAt(c, "dying")
  /\ \/ FALSE \in IsRunning(ui[c].port) /\ pidFile' = 0
        /\ disturbed' = (disturbed \/ Serving(ui[c].port) # {})
     \/ TRUE \in IsRunning(ui[c].port) /\ UNCHANGED <<pidFile, disturbed>>
  /\ UNCHANGED servers
  /\ End(c)

(* The user interrupts a command.                                          *)
CommandDies(c) ==
  /\ c \in Busy
  /\ ui' = [ui EXCEPT ![c].pc = "ended", ![c].kind = "none"]
  /\ disturbed' = (disturbed \/ Starting # {} \/ UAt(c, "write"))
  /\ UNCHANGED <<servers, pidFile>>

UIStep == \E c \in UICommands : Spawn(c) \/ writePIDFile(c) \/ waitReady(c) \/ Stopped(c)
UINext ==
  \/ \E c \in UICommands, port \in Ports, running \in BOOLEAN :
       BeginEnsure(c, port, running) \/ BeginStop(c, port, running)
  \/ UIStep
  \/ \E c \in UICommands : CommandDies(c)
  \/ \E p \in Pids : Run(p) \/ ServerDies(p)
  \/ \E port \in Ports : Foreground(port)

UISpec == UIInit /\ [][UINext]_uiVars /\ WF_uiVars(UIStep)
-------------------------------------------------------------------------------
UITypes ==
  /\ servers \in [Pids -> [state : {"none", "starting", "serving", "dead"}, port : Ports \cup {0}]]
  /\ pidFile \in Pids \cup {0} /\ disturbed \in BOOLEAN
  /\ \A c \in UICommands : ui[c].pc \in {"idle", "spawn", "write", "ready", "dying", "ended"}
  /\ \A port \in Ports, p, q \in Pids : {p, q} \subseteq Serving(port) => p = q

(* A command that stops the UI of a port leaves none there, after any      *)
(* commands that ran one after the other, each until its server answered,  *)
(* failed or were interrupted, and servers that died.                      *)
StopStops ==
  \A c \in UICommands :
    (UAt(c, "ended") /\ ui[c].kind = "stop" /\ ~disturbed) => ui[c].left = 0
=============================================================================
