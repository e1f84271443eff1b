-------------------------- MODULE ApprovalStoreProofs --------------------------
(***************************************************************************)
(* What ApprovalStore guarantees for every set of calls, every set of      *)
(* payloads and every time-to-live.                                        *)
(***************************************************************************)
EXTENDS ApprovalStore, TLAPS

\* The entry came from a finished registration of this very payload.
Genuine(e) ==
    /\ pc[e.by] = "done" /\ job[e.by].kind = "register"
    /\ job[e.by].payload = e.payload

OneEntryPerCall == \A e, f \in store : e.by = f.by => e = f

StoreGenuine == \A e \in store : Genuine(e)

SpentGenuine ==
    \A c \in Call : \A e \in spent[c] :
        Genuine(e) /\ e.payload = job[c].payload

SpentByDone == \A c \in Call : spent[c] # {} => pc[c] = "done"

SpentOnce == \A c \in Call : \A e, f \in spent[c] : e = f

IInv ==
    /\ TypeOK
    /\ StoreGenuine /\ OneEntryPerCall
    /\ SpentGenuine /\ SpentByDone /\ SpentOnce
    /\ SingleUse
-----------------------------------------------------------------------------
\* A payload and its canonical form have one token, whatever else is assumed
\* of them: the token of a legal payload is a legal token.
LEMMA TokenType == \A j \in Jobs : j \in Job /\ j.token \in Token
  BY DEF Jobs, Job

\* What a critical section finds to redeem is in the table, is for the job's
\* payload, and is one entry at most.
LEMMA MatchingFacts ==
  ASSUME TypeOK, NEW c \in Call
  PROVE  /\ Matching(c) \subseteq store
         /\ \A e \in Matching(c) : e.payload = job[c].payload /\ e.expires > now
         /\ \A e, f \in Matching(c) : e = f
  BY DEF TypeOK, Matching, Redeemable

\* The initial table is empty and nobody has spent anything.
LEMMA InitIInv == Init => IInv
  <1> SUFFICES ASSUME Init PROVE IInv
    OBVIOUS
  <1>1. TypeOK
    BY DEF Init, TypeOK
  <1> QED
    BY <1>1 DEF Init, IInv, StoreGenuine, OneEntryPerCall, SpentGenuine,
                SpentByDone, SpentOnce, SingleUse

\* Every critical section of every call keeps the invariant.
LEMMA StepIInv == IInv /\ [Next]_vars => IInv'
  <1> SUFFICES ASSUME IInv, [Next]_vars PROVE IInv'
    OBVIOUS
  <1> USE DEF Genuine, StoreGenuine, OneEntryPerCall, SpentGenuine,
              SpentByDone, SpentOnce, SingleUse
  <1>1. CASE UNCHANGED vars
    BY <1>1 DEF IInv, TypeOK, vars
  <1>2. CASE Tick
    <2>1. TypeOK'
      BY <1>2 DEF IInv, TypeOK, Tick
    <2> QED
      BY <1>2, <2>1 DEF IInv, Tick
  <1>3. ASSUME NEW c \in Call, ReadClock(c) PROVE IInv'
    <2>1. TypeOK'
      BY <1>3 DEF IInv, TypeOK, ReadClock
    <2>2. \A d \in Call : pc'[d] = "done" <=> pc[d] = "done"
      BY <1>3 DEF IInv, TypeOK, ReadClock
    <2>3. \A e \in store : e.by \in Call
      BY DEF IInv, TypeOK, Entry
    <2>4. \A d \in Call : \A e \in spent[d] : e.by \in Call
      BY DEF IInv, TypeOK, Entry
    <2> QED
      BY <1>3, <2>1, <2>2, <2>3, <2>4 DEF IInv, ReadClock
  <1>4. ASSUME NEW c \in Call, Sweep(c) PROVE IInv'
    <2>1. TypeOK'
      BY <1>4 DEF IInv, TypeOK, Sweep, Swept
    <2>2. \A d \in Call : pc'[d] = "done" <=> pc[d] = "done"
      BY <1>4 DEF IInv, TypeOK, Sweep
    <2>3. store' \subseteq store
      BY <1>4 DEF Sweep, Swept
    <2>4. \A e \in store : e.by \in Call
      BY DEF IInv, TypeOK, Entry
    <2>5. \A d \in Call : \A e \in spent[d] : e.by \in Call
      BY DEF IInv, TypeOK, Entry
    <2> QED
      BY <1>4, <2>1, <2>2, <2>3, <2>4, <2>5 DEF IInv, Sweep
  <1>5. ASSUME NEW c \in Call, Register(c) PROVE IInv'
    <2> DEFINE new == [token |-> job[c].token, payload |-> job[c].payload,
                       expires |-> now + Ttl, by |-> c]
    <2>1. job[c] \in Job /\ now + Ttl \in Nat
      BY TtlAssumption, TokenType DEF IInv, TypeOK
    <2>2. new \in Entry
      BY <2>1 DEF Entry, Job
    <2>3. store' = Inserted(store, new)
      BY <1>5 DEF Register
    <2>4. /\ \A d \in Call : pc[d] = "done" => pc'[d] = "done"
          /\ pc[c] = "act" /\ pc'[c] = "done" /\ job[c].kind = "register"
          /\ UNCHANGED <<job, spent, now, seen>>
          /\ pc' \in [Call -> {"idle", "sweep", "act", "done"}]
      BY <1>5 DEF IInv, TypeOK, Register, Finish
    <2>5. TypeOK'
      BY <2>2, <2>3, <2>4 DEF IInv, TypeOK, Inserted
    <2>6. \A e \in store : e.by \in Call /\ e.by # c
      BY <2>4 DEF IInv, TypeOK, Entry
    <2>7. \A d \in Call : \A e \in spent[d] : e.by \in Call /\ e.by # c
      BY <2>4 DEF IInv, TypeOK, Entry
    <2>8. new.by = c /\ new.payload = job[c].payload
      OBVIOUS
    <2>9. \A e \in store' : e \in store \/ e = new
      BY <2>3 DEF Inserted
    <2> HIDE DEF new
    <2>10. StoreGenuine' /\ OneEntryPerCall'
      BY <2>4, <2>6, <2>8, <2>9 DEF IInv
    <2>11. SpentGenuine' /\ SpentByDone' /\ SpentOnce'
      BY <2>4, <2>7 DEF IInv
    <2>12. SingleUse'
      BY <2>4, <2>7, <2>8, <2>9 DEF IInv
    <2> QED
      BY <2>5, <2>10, <2>11, <2>12 DEF IInv
  <1>6. ASSUME NEW c \in Call, Consume(c) PROVE IInv'
    <2>1. /\ Matching(c) \subseteq store
          /\ \A e \in Matching(c) : e.payload = job[c].payload
          /\ \A e, f \in Matching(c) : e = f
      BY MatchingFacts DEF IInv
    <2>2. store' = store \ Matching(c)
      BY <1>6 DEF Consume
    <2>3. /\ \A d \in Call : pc[d] = "done" => pc'[d] = "done"
          /\ pc[c] = "act" /\ pc'[c] = "done"
          /\ UNCHANGED <<job, now, seen>>
          /\ pc' \in [Call -> {"idle", "sweep", "act", "done"}]
      BY <1>6 DEF IInv, TypeOK, Consume, Finish
    <2>4. /\ spent' \in [Call -> SUBSET Entry]
          /\ spent'[c] = Matching(c)
          /\ \A d \in Call : d # c => spent'[d] = spent[d]
      BY <1>6, <2>1 DEF IInv, TypeOK, Consume
    <2>5. TypeOK'
      BY <2>1, <2>2, <2>3, <2>4 DEF IInv, TypeOK
    <2>6. \A e \in store : e.by \in Call
      BY DEF IInv, TypeOK, Entry
    <2>7. \A d \in Call : \A e \in spent[d] : e.by \in Call
      BY DEF IInv, TypeOK, Entry
    <2>8. StoreGenuine' /\ OneEntryPerCall'
      BY <2>2, <2>3, <2>6 DEF IInv
    <2>9. SpentGenuine' /\ SpentByDone' /\ SpentOnce'
      BY <2>1, <2>3, <2>4, <2>6, <2>7 DEF IInv
    <2>10. SingleUse'
      <3>1. \A e \in Matching(c) : \A f \in store' : f.by # e.by
        BY <2>1, <2>2 DEF IInv
      <3>2. \A e \in Matching(c) : \A d \in Call : \A f \in spent[d] : f.by # e.by
        BY <2>1 DEF IInv
      <3> QED
        BY <2>2, <2>4, <3>1, <3>2 DEF IInv
    <2> QED
      BY <2>5, <2>8, <2>9, <2>10 DEF IInv
  <1>7. ASSUME NEW c \in Call, IsValid(c) PROVE IInv'
    <2>1. TypeOK'
      BY <1>7 DEF IInv, TypeOK, IsValid, Finish
    <2>2. \A d \in Call : pc[d] = "done" => pc'[d] = "done"
      BY <1>7 DEF IInv, TypeOK, IsValid, Finish
    <2>3. \A e \in store : e.by \in Call
      BY DEF IInv, TypeOK, Entry
    <2>4. \A d \in Call : \A e \in spent[d] : e.by \in Call
      BY DEF IInv, TypeOK, Entry
    <2> QED
      BY <1>7, <2>1, <2>2, <2>3, <2>4 DEF IInv, IsValid, Finish
  <1> QED
    BY <1>1, <1>2, <1>3, <1>4, <1>5, <1>6, <1>7 DEF Next, Step

\* The invariant holds in every reachable state.
THEOREM Inductive == Spec => []IInv
  BY InitIInv, StepIInv, PTL DEF Spec
-----------------------------------------------------------------------------
\* The table stays a well-typed map from tokens to entries.
THEOREM TypeCorrect == Spec => []TypeOK
  <1>1. IInv => TypeOK
    BY DEF IInv
  <1> QED
    BY Inductive, <1>1, PTL

\* However the critical sections of the calls interleave, a registration is
\* spent by one call at most (gated.rs: consume returns true only once).
THEOREM SingleUseTheorem == Spec => []SingleUse
  <1>1. IInv => SingleUse
    BY DEF IInv
  <1> QED
    BY Inductive, <1>1, PTL

\* A call that gets an approval accepted presents the payload that some call
\* registered.
THEOREM SpendsRegistered == Spec => []SpendsWhatWasRegistered
  <1>1. IInv => SpendsWhatWasRegistered
    BY DEF IInv, SpentGenuine, Genuine, SpendsWhatWasRegistered
  <1> QED
    BY Inductive, <1>1, PTL

\* No approval is spent at or after its expiry, however old the clock that
\* the sweep before it worked from.
THEOREM SpentInTimeTheorem == Spec => SpentInTime
  <1>1. IInv /\ [Next]_vars =>
          [\A c \in Call : \A e \in spent'[c] \ spent[c] : now < e.expires]_vars
    <2> SUFFICES ASSUME IInv, Next,
                        NEW c \in Call, NEW e \in spent'[c] \ spent[c]
                 PROVE  now < e.expires
      OBVIOUS
    <2>1. PICK d \in Call : Consume(d)
      BY DEF Next, Step, Tick, ReadClock, Sweep, Register, IsValid
    <2>2. e \in Matching(d)
      BY <2>1 DEF IInv, TypeOK, Consume
    <2>3. e.expires > now /\ e.expires \in Nat /\ now \in Nat
      BY <2>2, MatchingFacts DEF IInv, TypeOK, Entry
    <2> QED
      BY <2>3
  <1> QED
    BY Inductive, <1>1, PTL DEF Spec, SpentInTime

\* The clock a sweep works from is not ahead of the clock.
SweepsFromThePast == \A c \in Call : seen[c] <= now

\* Nor does it get ahead: time only goes on.
LEMMA PastInductive == Spec => []SweepsFromThePast
  <1>1. Init => SweepsFromThePast
    BY DEF Init, SweepsFromThePast
  <1>2. IInv /\ SweepsFromThePast /\ [Next]_vars => SweepsFromThePast'
    <2> SUFFICES ASSUME IInv, SweepsFromThePast, [Next]_vars PROVE SweepsFromThePast'
      OBVIOUS
    <2>1. now \in Nat /\ seen \in [Call -> Nat] /\ \A c \in Call : seen[c] <= now
      BY DEF IInv, TypeOK, SweepsFromThePast
    <2>2. CASE \E c \in Call : ReadClock(c)
      BY <2>1, <2>2 DEF ReadClock, SweepsFromThePast
    <2>3. CASE ~ \E c \in Call : ReadClock(c)
      <3>1. seen' = seen /\ now' \in {now, now + 1}
        BY <2>3 DEF Next, vars, Tick, Step, Sweep, Register, Consume, IsValid, Finish
      <3> QED
        BY <2>1, <3>1 DEF SweepsFromThePast
    <2> QED
      BY <2>2, <2>3
  <1> QED
    BY <1>1, <1>2, Inductive, PTL DEF Spec

\* A live approval is only ever lost to the call that consumes it or to the
\* next validation of its token: no sweep, however late, drops it.
THEOREM LiveLeavesTheorem == Spec => LiveLeavesByUse
  <1>1. IInv /\ SweepsFromThePast /\ [Next]_vars =>
          [\A e \in store \ store' :
              \/ e.expires <= now
              \/ \E c \in Call : e \in spent'[c]
              \/ \E f \in store' \ store : f.token = e.token]_vars
    <2> SUFFICES ASSUME IInv, SweepsFromThePast, Next, NEW e \in store, e \notin store'
                 PROVE  \/ e.expires <= now
                        \/ \E c \in Call : e \in spent'[c]
                        \/ \E f \in store' \ store : f.token = e.token
      OBVIOUS
    <2>1. PICK c \in Call : Sweep(c) \/ Register(c) \/ Consume(c)
      BY DEF Next, Tick, Step, ReadClock, IsValid
    <2>2. CASE Sweep(c)
      <3>1. ~(e.expires > seen[c])
        BY <2>2 DEF Sweep, Swept
      <3>2. seen[c] <= now /\ seen[c] \in Nat /\ now \in Nat /\ e.expires \in Nat
        BY DEF IInv, TypeOK, Entry, SweepsFromThePast
      <3> QED
        BY <3>1, <3>2
    <2>3. CASE Register(c)
      <3> DEFINE new == [token |-> job[c].token, payload |-> job[c].payload,
                         expires |-> now + Ttl, by |-> c]
      <3>1. store' = {f \in store : f.token # new.token} \cup {new}
        BY <2>3 DEF Register, Inserted
      <3> HIDE DEF new
      <3>2. e.token = new.token /\ new \in store'
        BY <3>1
      <3>3. new \notin store
        BY <3>2 DEF IInv, TypeOK
      <3> QED
        BY <3>2, <3>3
    <2>4. CASE Consume(c)
      BY <2>4 DEF Consume, IInv, TypeOK
    <2> QED
      BY <2>1, <2>2, <2>3, <2>4
  <1> QED
    BY <1>1, Inductive, PastInductive, PTL DEF Spec, LiveLeavesByUse
-----------------------------------------------------------------------------
\* Nothing is issued, live or redeemed before the first call.
LEMMA InitRefines == Init => Grants!Init
  BY DEF Init, Grants!Init, Issued, Registered, Live, Redeemed

\* A step that issues and redeems nothing, and only loses live approvals.
LEMMA LapseRefines ==
  ASSUME Issued' = Issued, Redeemed' = Redeemed, Live' \subseteq Live
  PROVE  [Grants!Next]_(Grants!vars)
  BY DEF Grants!Next, Grants!Lapse

\* Registering issues a grant no call issued before.
LEMMA RegisterRefines ==
  ASSUME IInv, NEW c \in Call, Register(c)
  PROVE  [Grants!Next]_(Grants!vars)
  <1> DEFINE new == [token |-> job[c].token, payload |-> job[c].payload,
                     expires |-> now + Ttl, by |-> c]
             g == AsGrant(new)
  <1>1. /\ job[c].kind = "register" /\ pc[c] = "act"
        /\ pc' = [pc EXCEPT ![c] = "done"]
        /\ UNCHANGED <<job, spent, now>>
        /\ store' = Inserted(store, new)
    BY DEF Register, Finish
  <1>2. now \in Nat /\ now < now + Ttl
    BY TtlAssumption DEF IInv, TypeOK
  <1>3. g = [by |-> c, item |-> job[c].payload] /\ new.expires = now + Ttl
    BY DEF AsGrant
  <1>4. g \in Grants!Grant
    BY <1>3, TokenType DEF Grants!Grant, IInv, TypeOK, Job
  <1>5. Registered' = Registered \cup {c}
    BY <1>1 DEF Registered, IInv, TypeOK
  <1>6. Issued' = Issued \cup {g}
    BY <1>1, <1>3, <1>5 DEF Issued
  <1>7. \A h \in Issued : h.by # g.by
    BY <1>1, <1>3 DEF Issued, Registered
  <1>8. new \in store' /\ store' \subseteq store \cup {new}
    BY <1>1 DEF Inserted
  <1> HIDE DEF new
  <1>9. g \in Live'
    BY <1>1, <1>2, <1>3, <1>8 DEF Live, AsGrant
  <1>10. Live' \subseteq Live \cup {g}
    BY <1>1, <1>8 DEF Live, AsGrant
  <1>11. Redeemed' = Redeemed
    BY <1>1 DEF Redeemed, AsGrant
  <1> HIDE DEF g
  <1> QED
    BY <1>4, <1>6, <1>7, <1>9, <1>10, <1>11 DEF Grants!Next, Grants!Issue

\* Consuming redeems the one grant found, or changes nothing.
LEMMA ConsumeRefines ==
  ASSUME IInv, NEW c \in Call, Consume(c)
  PROVE  [Grants!Next]_(Grants!vars)
  <1>1. /\ job[c].kind = "consume"
        /\ pc' = [pc EXCEPT ![c] = "done"]
        /\ UNCHANGED <<job, now>>
        /\ store' = store \ Matching(c)
        /\ spent' = [spent EXCEPT ![c] = Matching(c)]
    BY DEF Consume, Finish
  <1>2. /\ Matching(c) \subseteq store
        /\ \A e \in Matching(c) : e.expires > now
        /\ \A e, f \in Matching(c) : e = f
    BY MatchingFacts DEF IInv
  <1>3. Registered' = Registered
    BY <1>1 DEF Registered, IInv, TypeOK
  <1>4. Issued' = Issued
    BY <1>1, <1>3 DEF Issued
  <1>5. spent[c] = {}
    BY DEF IInv, SpentByDone, Consume, Finish
  <1>6. CASE Matching(c) = {}
    <2>1. spent' = spent /\ store' = store
      BY <1>1, <1>5, <1>6 DEF IInv, TypeOK
    <2> QED
      BY <1>1, <1>4, <2>1, LapseRefines DEF Redeemed, Live, AsGrant
  <1>7. ASSUME NEW e \in Matching(c) PROVE [Grants!Next]_(Grants!vars)
    <2>1. Matching(c) = {e}
      BY <1>2, <1>7
    <2>2. e \in store /\ now < e.expires
      BY <1>2, <1>7 DEF IInv, TypeOK, Entry
    <2>3. AsGrant(e) \in Live
      BY <2>2 DEF Live
    <2>4. \A f \in store : AsGrant(f) = AsGrant(e) => f = e
      BY <2>2 DEF AsGrant, IInv, OneEntryPerCall
    <2>5. Live' = Live \ {AsGrant(e)}
      <3>1. Live' = {AsGrant(f) : f \in {x \in store \ {e} : now < x.expires}}
        BY <1>1, <2>1 DEF Live, AsGrant
      <3> QED
        BY <3>1, <2>2, <2>4 DEF Live
    <2>6. Redeemed' = Redeemed \cup {[grant |-> AsGrant(e), claim |-> c]}
      <3>1. /\ spent'[c] = {e}
            /\ \A d \in Call : d # c => spent'[d] = spent[d]
        BY <1>1, <2>1 DEF IInv, TypeOK
      <3> QED
        BY <3>1, <1>5 DEF Redeemed, AsGrant
    <2> QED
      BY <1>4, <2>3, <2>5, <2>6 DEF Grants!Next, Grants!Redeem
  <1> QED
    BY <1>6, <1>7

\* A step of the table is a step of the grants, or leaves them alone.
LEMMA StepRefines == IInv /\ [Next]_vars => [Grants!Next]_(Grants!vars)
  <1> SUFFICES ASSUME IInv, [Next]_vars PROVE [Grants!Next]_(Grants!vars)
    OBVIOUS
  <1>1. CASE UNCHANGED vars
    BY <1>1, LapseRefines DEF vars, Issued, Registered, Redeemed, Live, AsGrant
  <1>2. CASE Tick
    <2>1. now \in Nat /\ now' = now + 1 /\ UNCHANGED <<store, pc, job, seen, spent>>
      BY <1>2 DEF Tick, IInv, TypeOK
    <2>2. Live' \subseteq Live
      BY <2>1 DEF Live, AsGrant, IInv, TypeOK, Entry
    <2> QED
      BY <2>1, <2>2, LapseRefines DEF Issued, Registered, Redeemed, AsGrant
  <1>3. ASSUME NEW c \in Call, ReadClock(c) \/ Sweep(c) \/ IsValid(c)
        PROVE  [Grants!Next]_(Grants!vars)
    <2>1. UNCHANGED <<now, job, spent>> /\ store' \subseteq store
      BY <1>3 DEF ReadClock, Sweep, Swept, IsValid, Finish
    <2>2. Registered' = Registered
      BY <1>3 DEF Registered, ReadClock, Sweep, IsValid, Finish, IInv, TypeOK
    <2>3. Live' \subseteq Live
      BY <2>1 DEF Live, AsGrant
    <2> QED
      BY <2>1, <2>2, <2>3, LapseRefines DEF Issued, Redeemed, AsGrant
  <1> QED
    BY <1>1, <1>2, <1>3, RegisterRefines, ConsumeRefines DEF Next, Step

\* The table implements one-shot grants: each registration is a grant, the
\* passing of time lapses it, and consume redeems it for one call.
THEOREM Refinement == Spec => ImplementsGrants
  BY Inductive, InitRefines, StepRefines, PTL DEF Spec, ImplementsGrants, Grants!Spec
=============================================================================
