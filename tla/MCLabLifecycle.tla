--------------------------- MODULE MCLabLifecycle ---------------------------
(* The instances of LabLifecycle for TLC. *)
EXTENDS LabLifecycle, TLC

CONSTANTS p1, p2

OneProc == {p1}
TwoProcs == {p1, p2}
Symmetry == Permutations(TwoProcs)

MCServices == {"orchestration", "connectors", "web-modeler", "elasticsearch",
               "elasticvue"} \cup {Monitoring[i] : i \in 1..3}

(* What matters of Camunda's files: a service every light and full stack   *)
(* has, one that is made anew alone, and one that only another profile has.*)
MCUpstream ==
  [v \in Versions |-> [f \in Profiles |->
     IF f = "modeler" THEN {"web-modeler"} ELSE {"orchestration", "connectors"}]]

NobodyElse == [s \in MCServices |-> "none"]
MCStrangers ==
  {NobodyElse, [NobodyElse EXCEPT !["elasticvue"] = "leftover"],
   [NobodyElse EXCEPT !["connectors"] = "running"]}
Undisturbed == {NobodyElse}

Ask(kind) == [kind |-> kind, version |-> None, profile |-> None,
              resources |-> None, service |-> None, ai |-> FALSE, wipe |-> FALSE]

InstallAI == [Ask("install") EXCEPT !.version = "8.9", !.profile = "light",
                                    !.ai = TRUE]
Install88 == [Ask("install") EXCEPT !.version = "8.8", !.profile = "light"]
InstallFull == [Ask("install") EXCEPT !.version = "8.9", !.profile = "full"]
SwitchTo88 == [Ask("switch") EXCEPT !.version = "8.8"]
SwitchToAI == [Ask("switch") EXCEPT !.version = "8.9", !.ai = TRUE, !.wipe = TRUE]
ToModeler == [Ask("profile") EXCEPT !.profile = "modeler"]
ToSmall == [Ask("resources") EXCEPT !.resources = "small"]
WipeAI == [Ask("disable-ai") EXCEPT !.wipe = TRUE]
RestartConnectors == [Ask("service") EXCEPT !.service = "connectors"]

(* Requests a user waits for, to keep the run small: the one that erases   *)
(* the home, and those that choose a version with AI or without.  The      *)
(* request that only enables AI has company.                               *)
MCAlone == {InstallAI, Install88, SwitchToAI, Ask("nuke")}
MCRequests ==
  {InstallAI, Install88, SwitchTo88, SwitchToAI, ToModeler, ToSmall, WipeAI, RestartConnectors,
   Ask("up"), Ask("down"), Ask("restart"), Ask("recover"), Ask("nuke"), Ask("enable-ai"),
   Ask("enable-monitoring"), Ask("disable-monitoring")}

NewLab == {None}
MCLabs == {None, [Defaults EXCEPT !.version = "8.9", !.ai = TRUE,
                                  !.monitoring = TRUE]}

AICommands == {InstallAI, Install88, ToModeler, Ask("enable-ai")}
InstallOnly == {InstallFull}
SwitchAndNuke == {InstallFull, SwitchTo88, Ask("nuke")}
Nobody == {}
=============================================================================
