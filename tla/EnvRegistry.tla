----------------------------- MODULE EnvRegistry -----------------------------
(***************************************************************************)
(* What the environment service promises: a registry of profiles with an   *)
(* active one for the lab home and a selection for each project, in which  *)
(* saving, selecting and removing a profile each happen at once.  Removing *)
(* the active profile returns to the lab in the same step                  *)
(* (docs/superpowers/specs/2026-07-21-platform-toolkit-completion-design.md *)
(* line 78), whatever crashes on the way.                                  *)
(***************************************************************************)
CONSTANTS Name, Project, Lab, Global, None

VARIABLES profiles, active, selected

Dir == Project \cup {Global}

Init ==
  /\ profiles \in [Dir -> SUBSET Name]
  /\ active = None
  /\ selected \in [Project -> Name \cup {None}]

Save(d, n) ==
  /\ n \notin profiles[d]
  /\ profiles' = [profiles EXCEPT ![d] = @ \cup {n}]
  /\ UNCHANGED <<active, selected>>

Activate(n) ==
  /\ n = Lab \/ n \in profiles[Global]
  /\ active' = n
  /\ UNCHANGED <<profiles, selected>>

Select(q, n) ==
  /\ n = Lab \/ n \in profiles[q] \cup profiles[Global]
  /\ selected' = [selected EXCEPT ![q] = n]
  /\ UNCHANGED <<profiles, active>>

RemoveGlobal(n) ==
  /\ n \in profiles[Global]
  /\ profiles' = [profiles EXCEPT ![Global] = @ \ {n}]
  /\ active' = IF active = n THEN Lab ELSE active
  /\ UNCHANGED selected

(* The project falls back to the global profile of that name, or to what   *)
(* is active globally.                                                     *)
RemoveFromProject(q, n) ==
  /\ n \in profiles[q]
  /\ profiles' = [profiles EXCEPT ![q] = @ \ {n}]
  /\ selected' = [selected EXCEPT ![q] =
                    IF @ = n /\ n \notin profiles[Global] THEN None ELSE @]
  /\ UNCHANGED active

Next ==
  \/ \E n \in Name : \/ \E d \in Dir : Save(d, n)
                     \/ RemoveGlobal(n)
                     \/ \E q \in Project : RemoveFromProject(q, n)
  \/ \E n \in Name \cup {Lab} : \/ Activate(n)
                                \/ \E q \in Project : Select(q, n)

Spec == Init /\ [][Next]_<<profiles, active, selected>>

=============================================================================
