---------------------------- MODULE MCClientTime ----------------------------
(***************************************************************************)
(* What the client of a cluster does over time, on small instances: the    *)
(* calls that share a token, and the command that follows an instance.     *)
(* They share no state: a behaviour is about one of them, its topic, and   *)
(* the other stays in its initial state.                                   *)
(***************************************************************************)
EXTENDS TokenCache, TraceFollow

CONSTANTS c1, c2, c3

VARIABLE topic

Calls == {c1, c2, c3}
(* The skew of the first is a part of its life, of the second the maximum. *)
ShortAndLong == {1, 2}

(* An interval that divides the time and one that does not, an idle stop,  *)
(* a last event, and one that is refused.                                  *)
SmallFollows ==
  {[interval |-> i, timeout |-> t, maxEvents |-> e, idle |-> d] :
     <<i, t, e, d>> \in {<<1, 2, 0, 0>>, <<2, 3, 2, 0>>, <<1, 2, 2, 1>>, <<1, 0, 1, 0>>,
                         <<0, 1, 1, 0>>, <<1, 1, 0 - 1, 0>>}}

OnToken == topic = "token" /\ UNCHANGED <<topic, followVars>>
OnFollow == topic = "follow" /\ UNCHANGED <<topic, tokenVars>>

ClientInit == topic \in {"token", "follow"} /\ TokenInit /\ FollowInit
ClientNext == (TokenNext /\ OnToken) \/ (FollowNext /\ OnFollow)
ClientSpec ==
  /\ ClientInit /\ [][ClientNext]_<<topic, tokenVars, followVars>>
  /\ \A c \in Call : WF_tokenVars(Step(c) /\ OnToken)
  /\ WF_followVars(FollowStep /\ OnFollow) /\ WF_followVars(FTick /\ OnFollow)
=============================================================================
