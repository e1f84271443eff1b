---------------------------- MODULE PromisesProofs ----------------------------
(***************************************************************************)
(* What the abstract specifications promise holds of them: whatever        *)
(* implements OneShotGrant (the approval table, the gated write path) is   *)
(* one-shot, and whatever implements RemoteWrite (the gated write path,    *)
(* the SAP client) has one effect and tells the truth about it.            *)
(***************************************************************************)
EXTENDS OneShotGrant, Naturals, TLAPS

CONSTANT Task
VARIABLES effects, answer

Remote == INSTANCE RemoteWrite

\* A grant is named by its issuer; the live ones were issued.
IInv ==
    /\ issued \subseteq Grant /\ live \subseteq issued
    /\ \A g, h \in issued : g.by = h.by => g = h
    /\ OneShot

\* OneShot is inductive once it is known who issued what.
LEMMA Inductive == Spec => []IInv
<1>1. Init => IInv
  BY DEF Init, IInv, OneShot
<1>2. IInv /\ [Next]_vars => IInv'
  <2> SUFFICES ASSUME IInv, [Next]_vars PROVE IInv'
    OBVIOUS
  <2>1. ASSUME NEW g \in Grant, Issue(g) PROVE IInv'
    <3>1. issued' = issued \cup {g} /\ redeemed' = redeemed
      BY <2>1 DEF Issue
    <3>2. \A h \in issued : h.by # g.by
      BY <2>1 DEF Issue
    <3>3. live' \subseteq issued' /\ issued' \subseteq Grant
      BY <2>1, <3>1 DEF Issue, IInv
    <3>4. \A h, k \in issued' : h.by = k.by => h = k
      BY <3>1, <3>2 DEF IInv
    <3>5. \A r \in redeemed' : r.grant \in issued' \ live'
      <4> SUFFICES ASSUME NEW r \in redeemed PROVE r.grant \in issued' \ live'
        BY <3>1
      <4>1. r.grant \in issued \ live
        BY DEF IInv, OneShot
      <4>2. r.grant # g
        BY <3>2, <4>1
      <4> QED
        BY <2>1, <3>1, <4>1, <4>2 DEF Issue
    <3> QED
      BY <3>1, <3>3, <3>4, <3>5 DEF IInv, OneShot
  <2>2. ASSUME NEW g \in live, NEW k \in Party, Redeem(g, k) PROVE IInv'
    <3>1. /\ issued' = issued /\ live' = live \ {g}
          /\ redeemed' = redeemed \cup {[grant |-> g, claim |-> k]}
      BY <2>2 DEF Redeem
    <3>2. \A r \in redeemed : r.grant \in issued /\ r.grant.by # g.by
      BY <2>2 DEF IInv, OneShot
    <3>3. \A r \in redeemed' : r.grant \in issued' \ live'
      BY <2>2, <3>1 DEF IInv, OneShot
    <3>4. \A r, s \in redeemed' : r.grant.by = s.grant.by => r = s
      BY <3>1, <3>2 DEF IInv, OneShot
    <3> QED
      BY <3>1, <3>3, <3>4 DEF IInv, OneShot
  <2>3. ASSUME Lapse PROVE IInv'
    BY <2>3 DEF Lapse, IInv, OneShot
  <2>4. CASE UNCHANGED vars
    BY <2>4 DEF vars, IInv, OneShot
  <2> QED
    BY <2>1, <2>2, <2>3, <2>4 DEF Next
<1> QED
  BY <1>1, <1>2, PTL DEF Spec

\* No two redemptions ever spend the same grant (gated.rs:101).
THEOREM OneShotTheorem == Spec => []OneShot
<1>1. IInv => OneShot
  BY DEF IInv
<1> QED
  BY <1>1, Inductive, PTL
-----------------------------------------------------------------------------
\* The answers and effects are of their kinds.
RemoteIInv ==
    /\ effects \in [Task -> {0, 1}] /\ answer \in [Task -> {"none", "ok", "error"}]
    /\ Remote!Truthful

\* Nothing has happened and nobody was told anything.
LEMMA RemoteInit == Remote!Init => RemoteIInv
  BY DEF Remote!Init, RemoteIInv, Remote!Truthful

\* An effect comes before the success that tells of it.
LEMMA RemoteStep == RemoteIInv /\ [Remote!Next]_(Remote!vars) => RemoteIInv'
  <1> SUFFICES ASSUME RemoteIInv, [Remote!Next]_(Remote!vars) PROVE RemoteIInv'
    OBVIOUS
  <1>1. ASSUME NEW t \in Task, Remote!TakeEffect(t) PROVE RemoteIInv'
    BY <1>1 DEF Remote!TakeEffect, RemoteIInv, Remote!Truthful
  <1>2. ASSUME NEW t \in Task, Remote!Succeed(t) PROVE RemoteIInv'
    BY <1>2 DEF Remote!Succeed, RemoteIInv, Remote!Truthful
  <1>3. ASSUME NEW t \in Task, Remote!Fail(t) PROVE RemoteIInv'
    BY <1>3 DEF Remote!Fail, RemoteIInv, Remote!Truthful
  <1>4. CASE UNCHANGED Remote!vars
    BY <1>4 DEF Remote!vars, RemoteIInv, Remote!Truthful
  <1> QED
    BY <1>1, <1>2, <1>3, <1>4 DEF Remote!Next

\* A write has one effect at most, and a success is reported after it.
THEOREM TruthfulTheorem == Remote!Spec => []Remote!Truthful
  <1>1. RemoteIInv => Remote!Truthful
    BY DEF RemoteIInv
  <1> QED
    BY <1>1, RemoteInit, RemoteStep, PTL DEF Remote!Spec

\* No effect is undone and no answer taken back.
THEOREM StandsTheorem == Remote!Spec => Remote!Stands
  <1>1. ASSUME RemoteIInv, [Remote!Next]_(Remote!vars), NEW t \in Task
        PROVE  effects'[t] >= effects[t] /\ (answer[t] # "none" => answer'[t] = answer[t])
    <2>1. effects[t] \in {0, 1}
      BY <1>1 DEF RemoteIInv
    <2>2. CASE UNCHANGED Remote!vars
      BY <2>1, <2>2 DEF Remote!vars
    <2>3. ASSUME NEW k \in Task, Remote!TakeEffect(k) \/ Remote!Succeed(k) \/ Remote!Fail(k)
          PROVE  effects'[t] >= effects[t] /\ (answer[t] # "none" => answer'[t] = answer[t])
      BY <1>1, <2>1, <2>3 DEF Remote!TakeEffect, Remote!Succeed, Remote!Fail, RemoteIInv
    <2> QED
      BY <2>2, <2>3, <1>1 DEF Remote!Next
  <1>2. RemoteIInv /\ [Remote!Next]_(Remote!vars)
          => [\A t \in Task : /\ effects'[t] >= effects[t]
                              /\ answer[t] # "none" => answer'[t] = answer[t]]_(Remote!vars)
    BY <1>1
  <1> QED
    BY <1>2, RemoteInit, RemoteStep, PTL DEF Remote!Spec, Remote!Stands
=============================================================================
