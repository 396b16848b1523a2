---------------------------- MODULE MCEnvService ----------------------------
(* Instances of EnvService for TLC. *)
EXTENDS EnvService, TLC

CONSTANTS p1, p2, a, b, q1, q2

Processes == {p1, p2}
OneProcess == {p1}
OneProfile == {a}
Profiles == {a, b}
OneProject == {q1}
Projects == {q1, q2}
NoProjects == {}

Symmetry == Permutations(Processes)

NoPoints == {}
(* Where the hooks of the service's own tests stop a removal: right after   *)
(* each phase has reached the journal (service_test.go:406-444).            *)
AfterPhases == {"xRename", "xActive", "xCommit", "xUnlink"}
(* Where recovery copes with a crash: those, and before and after them.     *)
CopedWith == AfterPhases \cup
  {"lock", "recover", "migrate", "mDelete", "body", "xIntent", "xForget",
   "rUnlink", "rGlobal"}

Req(op, n, root) == [op |-> op, name |-> n, root |-> root]

(* No project arrives with a selection its own directory does not store.    *)
SettledInit ==
  Init /\ \A q \in Project : selected[q] # None => selected[q] \in profiles[q]

SettledSpec == SettledInit /\ [][Next]_vars

(* A project with a profile of its own, one that selects a global profile,  *)
(* and nobody who activates a profile globally.                             *)
Everyday == {Req("list", None, q1), Req("use", a, q1), Req("use", b, q2),
             Req("save", b, None), Req("save", a, q1),
             Req("remove", a, q1), Req("remove", b, None)}

EverydayInit == /\ SettledInit /\ legacy \in {None, Lab}
                /\ profiles[q2] = {} /\ b \notin profiles[q1]
                /\ a \notin profiles[Global]

EverydaySpec == EverydayInit /\ [][Next]_vars /\ \A p \in Proc : WF_vars(Work(p))

(* The lab home has another profile active.                                 *)
AnotherActive == {Req("save", a, q1), Req("save", b, None), Req("use", b, None),
                  Req("use", a, q1), Req("remove", a, q1)}

(* A project that selects one global profile plans for another one.         *)
PlanForAnother == {Req("save", a, None), Req("save", b, None), Req("use", a, q1),
                   Req("resolve", b, q1), Req("remove", a, None)}

(* One name: every request that can do something to it.  A removal in the   *)
(* project resolves the name first, as the other commands do.               *)
OneName == {Req("list", None, q1), Req("use", a, None), Req("use", a, q1),
            Req("save", a, None), Req("save", a, q1),
            Req("remove", a, None), Req("remove", a, q1)}

OneNameInit == Init /\ legacy \in {None, a}

OneNameSpec == OneNameInit /\ [][Next]_vars

=============================================================================
