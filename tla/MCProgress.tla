----------------------------- MODULE MCProgress -----------------------------
(* Two things that must not wait for ever, and share no state: a behaviour  *)
(* is one of a run of the worker, or one of the scripts at the ratelimiter. *)
EXTENDS Worker, Ratelimiter

VARIABLE part

Limiting == part = "ratelimiter"
Working == part = "worker"

ProgressInit == part \in {"worker", "ratelimiter"} /\ Init /\ RateInit

ProgressNext ==
  /\ UNCHANGED part
  /\ \/ Working /\ Next /\ UNCHANGED rateVars
     \/ Limiting /\ RateNext /\ UNCHANGED vars

(* Fairness and RateFairSpec, each in its own part.                         *)
ProgressSpec ==
  /\ ProgressInit /\ [][ProgressNext]_<<part, vars, rateVars>>
  /\ WF_vars(Working /\ alive /\ MainStep)
  /\ WF_vars(Working /\ alive /\ Handle)
  /\ \A j \in Jobs : /\ WF_vars(Working /\ alive /\ JobStep(j))
                     /\ WF_vars(Working /\ alive /\ ChildStep(j))
  /\ WF_rateVars(Limiting /\ Tick)
  /\ \A s \in Scripts : WF_rateVars(Limiting /\ Pass(s)) /\ WF_rateVars(Limiting /\ Wake(s))

L(key, passes, time) == [key |-> key, passes |-> passes, time |-> time]

(* A key of its own, and a key with several limits, one of them closed.     *)
MixedLimits == {L("bar", 2, 1), L("foo", 2, 3), L("foo", 1, 1), L("foo", 0, 2)}
=============================================================================
