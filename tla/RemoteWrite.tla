----------------------------- MODULE RemoteWrite -----------------------------
(***************************************************************************)
(* What a gated write promises about SAP: it takes effect at most once, a  *)
(* success is only reported after the effect, and an error leaves it open  *)
(* whether the write has happened or still will.                           *)
(***************************************************************************)
EXTENDS Naturals

CONSTANT Task      \* the writes

VARIABLES effects,  \* how often each write has taken effect in SAP
          answer    \* what its caller has been told

vars == <<effects, answer>>

Init ==
    /\ effects = [t \in Task |-> 0]
    /\ answer = [t \in Task |-> "none"]

TakeEffect(t) ==
    /\ effects[t] = 0
    /\ effects' = [effects EXCEPT ![t] = 1]
    /\ UNCHANGED answer

Succeed(t) ==
    /\ answer[t] = "none" /\ effects[t] = 1
    /\ answer' = [answer EXCEPT ![t] = "ok"]
    /\ UNCHANGED effects

Fail(t) ==
    /\ answer[t] = "none"
    /\ answer' = [answer EXCEPT ![t] = "error"]
    /\ UNCHANGED effects

Next == \E t \in Task : TakeEffect(t) \/ Succeed(t) \/ Fail(t)

Spec == Init /\ [][Next]_vars
-----------------------------------------------------------------------------
\* However often a write was sent, it happened once at most, and whoever was
\* told of a success was told so after it.
Truthful ==
    \A t \in Task : effects[t] \in {0, 1} /\ (answer[t] = "ok" => effects[t] = 1)

\* Nothing is undone and no answer is taken back.
Stands ==
    [][\A t \in Task : /\ effects'[t] >= effects[t]
                       /\ answer[t] # "none" => answer'[t] = answer[t]]_vars
=============================================================================
