--------------------------- MODULE SapClientProofs ---------------------------
(***************************************************************************)
(* What a write through a SapClient guarantees for any number of tasks,    *)
(* retries, token changes and ticks, and whatever SAP does when.           *)
(***************************************************************************)
EXTENDS SapClient, TLAPS

\* No request of t is on its way to SAP.
NothingSent(t) == \A m \in wire : m.task # t

\* A task has one write under way at a time.
OneRequestEach == \A m, n \in wire : m.task = n.task => m = n

\* Before a round of the loop sends its write, nothing of the task is under
\* way and nothing has happened: a 403 has proved it of an earlier round.
UnsentYet ==
    \A t \in Task : pc[t] \in {"idle", "fetch", "again"} =>
        NothingSent(t) /\ effects[t] = 0

\* While a task waits for its write, SAP has executed it exactly if the answer
\* on its way says so, and what is under way is the write of this round.
AnswerTellsEffect ==
    \A t \in Task : pc[t] = "write" =>
        /\ \A m \in wire : m.task = t =>
              m.round = attempt[t] /\ status[t] = "none"
        /\ effects[t] = 1 <=> status[t] = "success"

\* A task that has its token has one of SAP's.
FetchedIsToken ==
    \A t \in Task : pc[t] = "fetch" /\ status[t] = "token" => tok[t] \in Token

\* A write returns once, and reports a success that happened.
ReportsTruth ==
    \A t \in Task :
        /\ result[t] # "none" => pc[t] = "done"
        /\ result[t] = "ok" => effects[t] = 1

IInv ==
    /\ TypeOK
    /\ AtMostOnce /\ RefusedTokenDropped
    /\ OneRequestEach /\ UnsentYet /\ AnswerTellsEffect /\ FetchedIsToken /\ ReportsTruth
-----------------------------------------------------------------------------
\* No token is cached and no write is under way.
LEMMA InitIInv == Init => IInv
  <1> SUFFICES ASSUME Init PROVE IInv
    OBVIOUS
  <1>1. TypeOK
    BY ConstantsAssumption DEF Init, TypeOK, Token, NoToken
  <1> QED
    BY <1>1 DEF Init, IInv, AtMostOnce, RefusedTokenDropped, OneRequestEach, UnsentYet,
       NothingSent, AnswerTellsEffect, FetchedIsToken, ReportsTruth

\* A write that leaves keeps the invariant, from whichever round it leaves.
LEMMA SendIInv ==
  ASSUME IInv, NEW t \in Task, NEW k \in Token \cup {NoToken},
         pc[t] \in {"idle", "fetch", "again"},
         SendWrite(t, k), attempt' = attempt,
         csrf' = csrf \/ (k \in Token /\ pc[t] = "fetch" /\ csrf' = {[tok |-> k, at |-> now, by |-> t]}),
         UNCHANGED <<now, v4, tries, current, effects, result>>
  PROVE  IInv'
  <1> DEFINE new == [task |-> t, round |-> attempt[t], tok |-> k]
  <1>1. /\ tok' = [tok EXCEPT ![t] = k]
        /\ wire' = wire \cup {new}
        /\ status' = [status EXCEPT ![t] = "none"]
        /\ pc' = [pc EXCEPT ![t] = "write"]
    BY DEF SendWrite
  <1>2. attempt[t] \in 0 .. 1
    BY DEF IInv, TypeOK
  <1>3. new \in [task : Task, round : 0 .. 1, tok : Token \cup {NoToken}] /\ new.task = t
        /\ new.round = attempt[t]
    BY <1>2
  <1>4. csrf' \subseteq [tok : Token, at : Nat, by : Task] /\ \A j, l \in csrf' : j = l
    BY DEF IInv, TypeOK
  <1> HIDE DEF new
  <1>5. TypeOK'
    BY <1>1, <1>3, <1>4 DEF IInv, TypeOK
  <1>6. NothingSent(t) /\ effects[t] = 0
    BY DEF IInv, UnsentYet
  <1>7. /\ pc'[t] = "write" /\ status'[t] = "none"
        /\ \A d \in Task : d # t =>
              pc'[d] = pc[d] /\ status'[d] = status[d] /\ tok'[d] = tok[d]
    BY <1>1 DEF IInv, TypeOK
  <1>8. AtMostOnce' /\ OneRequestEach'
    BY <1>1, <1>3, <1>6 DEF IInv, AtMostOnce, OneRequestEach, NothingSent
  <1>9. RefusedTokenDropped'
    BY <1>7 DEF IInv, RefusedTokenDropped
  <1>10. UnsentYet' /\ AnswerTellsEffect'
    BY <1>1, <1>3, <1>6, <1>7 DEF IInv, UnsentYet, AnswerTellsEffect, NothingSent
  <1>11. FetchedIsToken' /\ ReportsTruth'
    BY <1>7 DEF IInv, FetchedIsToken, ReportsTruth
  <1> QED
    BY <1>5, <1>8, <1>9, <1>10, <1>11 DEF IInv

\* Steps of one task that neither send nor have an effect: it fetches, goes
\* back to the head of the loop, or ends.
LEMMA MoveIInv ==
  ASSUME IInv, TypeOK', NEW t \in Task,
         UNCHANGED <<wire, effects>>,
         csrf' = csrf \/ csrf' = {},
         \A d \in Task : d # t =>
             /\ pc'[d] = pc[d] /\ attempt'[d] = attempt[d] /\ status'[d] = status[d]
             /\ tok'[d] = tok[d] /\ result'[d] = result[d],
         pc'[t] \in {"fetch", "again"} => NothingSent(t) /\ effects[t] = 0,
         pc'[t] \in {"fetch", "again", "done"},
         pc'[t] = "fetch" /\ status'[t] = "token" => tok'[t] \in Token,
         pc'[t] = "again" => csrf' = {},
         result'[t] # "none" => pc'[t] = "done",
         result'[t] = "ok" => effects[t] = 1
  PROVE  IInv'
  <1>1. AtMostOnce' /\ OneRequestEach'
    BY DEF IInv, AtMostOnce, OneRequestEach
  <1>2. UnsentYet' /\ AnswerTellsEffect'
    BY DEF IInv, UnsentYet, AnswerTellsEffect, NothingSent
  <1>3. RefusedTokenDropped' /\ FetchedIsToken' /\ ReportsTruth'
    BY DEF IInv, RefusedTokenDropped, FetchedIsToken, ReportsTruth
  <1> QED
    BY <1>1, <1>2, <1>3 DEF IInv

\* The head of the loop: a token from the cache, none for V4, or a fetch.
LEMMA RoundIInv ==
  ASSUME IInv, NEW t \in Task, pc[t] \in {"idle", "again"}, Round(t), attempt' = attempt,
         UNCHANGED <<now, v4, csrf, current, effects, result>>
  PROVE  IInv'
  <1>1. CASE WithToken(t) /\ UNCHANGED tries
    <2>1. \A k \in Fresh : k.tok \in Token
      BY DEF Fresh, IInv, TypeOK
    <2>2. PICK k \in Token \cup {NoToken} : SendWrite(t, k)
      BY <1>1, <2>1 DEF WithToken
    <2> QED
      BY <1>1, <2>2, SendIInv
  <1>2. CASE StartFetch(t)
    <2>1. /\ pc' = [pc EXCEPT ![t] = "fetch"]
          /\ tries' = [tries EXCEPT ![t] = 0]
          /\ status' = [status EXCEPT ![t] = "none"]
          /\ UNCHANGED <<tok, wire>>
      BY <1>2 DEF StartFetch
    <2>2. TypeOK'
      BY <2>1, ConstantsAssumption DEF IInv, TypeOK
    <2>3. NothingSent(t) /\ effects[t] = 0 /\ result[t] = "none"
      BY DEF IInv, UnsentYet, ReportsTruth
    <2>4. pc'[t] = "fetch" /\ status'[t] = "none"
          /\ \A d \in Task : d # t => pc'[d] = pc[d] /\ status'[d] = status[d]
      BY <2>1 DEF IInv, TypeOK
    <2> QED
      BY <2>1, <2>2, <2>3, <2>4, MoveIInv
  <1> QED
    BY <1>1, <1>2 DEF Round

\* SAP serves a request that is under way: nothing of its task has happened
\* before, and nothing else of it is under way.
LEMMA ServeIInv ==
  ASSUME IInv, NEW m \in wire, NEW verdict \in {"success", "fault", "forbidden"},
         ServeWrite(m, verdict)
  PROVE  IInv'
  <1> DEFINE t == m.task
  <1>1. /\ wire' = wire \ {m}
        /\ effects' = IF verdict = "success" THEN [effects EXCEPT ![t] = @ + 1] ELSE effects
        /\ status' = IF pc[t] = "write" /\ m.round = attempt[t]
                     THEN [status EXCEPT ![t] = verdict] ELSE status
        /\ UNCHANGED <<now, v4, csrf, pc, attempt, tries, tok, result, current>>
    BY DEF ServeWrite, taskVars
  <1>2. t \in Task /\ effects[t] = 0
    BY DEF IInv, TypeOK, AtMostOnce
  <1>3. NothingSent(t)'
    BY <1>1 DEF IInv, OneRequestEach, NothingSent
  <1>4. pc[t] \in {"write", "done"}
    BY <1>2 DEF IInv, TypeOK, UnsentYet, NothingSent
  <1>5. pc[t] = "write" => m.round = attempt[t]
    BY <1>2 DEF IInv, AnswerTellsEffect
  <1>6. /\ effects'[t] = IF verdict = "success" THEN 1 ELSE 0
        /\ \A d \in Task : d # t => effects'[d] = effects[d] /\ status'[d] = status[d]
        /\ pc[t] = "write" => status'[t] = verdict
    BY <1>1, <1>2, <1>5 DEF IInv, TypeOK
  <1>7. TypeOK'
    BY <1>1, <1>2 DEF IInv, TypeOK
  <1> HIDE DEF t
  <1>8. AtMostOnce' /\ OneRequestEach'
    BY <1>1, <1>2, <1>3, <1>6 DEF IInv, AtMostOnce, OneRequestEach, NothingSent
  <1>9. UnsentYet' /\ AnswerTellsEffect'
    BY <1>1, <1>2, <1>3, <1>4, <1>6 DEF IInv, UnsentYet, AnswerTellsEffect, NothingSent
  <1>10. RefusedTokenDropped' /\ FetchedIsToken'
    BY <1>1, <1>4, <1>6 DEF IInv, RefusedTokenDropped, FetchedIsToken
  <1>11. ReportsTruth'
    BY <1>1, <1>2, <1>6 DEF IInv, ReportsTruth
  <1> QED
    BY <1>7, <1>8, <1>9, <1>10, <1>11 DEF IInv

\* Every step of the tasks, of SAP and of the clock keeps the invariant.
LEMMA StepIInv == IInv /\ [Next]_vars => IInv'
  <1> SUFFICES ASSUME IInv, [Next]_vars PROVE IInv'
    OBVIOUS
  <1> USE DEF taskVars, sapVars
  <1>1. CASE UNCHANGED vars
    BY <1>1 DEF vars, IInv, TypeOK, AtMostOnce, RefusedTokenDropped, OneRequestEach, UnsentYet,
       NothingSent, AnswerTellsEffect, FetchedIsToken, ReportsTruth
  <1>2. CASE Tick \/ Rotate
    <2>1. TypeOK'
      BY <1>2, ConstantsAssumption DEF Tick, Rotate, IInv, TypeOK, Token
    <2> QED
      BY <1>2, <2>1 DEF Tick, Rotate, IInv, AtMostOnce, RefusedTokenDropped, OneRequestEach,
         UnsentYet, NothingSent, AnswerTellsEffect, FetchedIsToken, ReportsTruth
  <1>3. ASSUME NEW t \in Task, Begin(t) \/ Again(t) PROVE IInv'
    BY <1>3, RoundIInv DEF Begin, Again
  <1>4. ASSUME NEW t \in Task, ServeFetch(t) PROVE IInv'
    <2>1. /\ pc[t] = "fetch" /\ current \in Token
          /\ status' = [status EXCEPT ![t] = "token"]
          /\ tok' = [tok EXCEPT ![t] = current]
          /\ UNCHANGED <<now, v4, csrf, pc, attempt, tries, result, current, wire, effects>>
      BY <1>4 DEF ServeFetch, IInv, TypeOK
    <2>2. TypeOK'
      BY <2>1 DEF IInv, TypeOK
    <2>3. NothingSent(t) /\ effects[t] = 0 /\ result[t] = "none"
      BY <2>1 DEF IInv, UnsentYet, ReportsTruth
    <2>4. /\ tok'[t] = current
          /\ \A d \in Task : d # t => tok'[d] = tok[d] /\ status'[d] = status[d]
      BY <2>1 DEF IInv, TypeOK
    <2> QED
      BY <2>1, <2>2, <2>3, <2>4, MoveIInv
  <1>5. ASSUME NEW t \in Task, Fetched(t) PROVE IInv'
    <2>1. /\ pc[t] = "fetch" /\ tok[t] \in Token
          /\ csrf' = {[tok |-> tok[t], at |-> now, by |-> t]}
      BY <1>5 DEF Fetched, IInv, FetchedIsToken
    <2> QED
      BY <1>5, <2>1, SendIInv DEF Fetched
  <1>6. ASSUME NEW t \in Task, RetryFetch(t) PROVE IInv'
    <2>1. /\ pc[t] = "fetch" /\ tries[t] < MaxRetries
          /\ tries' = [tries EXCEPT ![t] = @ + 1]
          /\ status' = [status EXCEPT ![t] = "none"]
          /\ UNCHANGED <<now, v4, csrf, pc, attempt, tok, result, current, wire, effects>>
      BY <1>6 DEF RetryFetch
    <2>2. TypeOK'
      BY <2>1, ConstantsAssumption DEF IInv, TypeOK
    <2>3. NothingSent(t) /\ effects[t] = 0 /\ result[t] = "none"
      BY <2>1 DEF IInv, UnsentYet, ReportsTruth
    <2>4. status'[t] = "none" /\ \A d \in Task : d # t => status'[d] = status[d]
      BY <2>1 DEF IInv, TypeOK
    <2> QED
      BY <2>1, <2>2, <2>3, <2>4, MoveIInv
  <1>7. ASSUME NEW t \in Task, Refresh(t) PROVE IInv'
    <2>1. /\ pc[t] = "write" /\ status[t] = "forbidden"
          /\ csrf' = {}
          /\ attempt' = [attempt EXCEPT ![t] = 1]
          /\ pc' = [pc EXCEPT ![t] = "again"]
          /\ UNCHANGED <<now, v4, tries, tok, result, current, wire, effects, status>>
      BY <1>7 DEF Refresh
    <2>2. TypeOK'
      BY <2>1 DEF IInv, TypeOK
    <2>3. NothingSent(t) /\ effects[t] = 0 /\ result[t] = "none"
      BY <2>1 DEF IInv, TypeOK, AtMostOnce, AnswerTellsEffect, NothingSent, ReportsTruth
    <2>4. pc'[t] = "again"
          /\ \A d \in Task : d # t => pc'[d] = pc[d] /\ attempt'[d] = attempt[d]
      BY <2>1 DEF IInv, TypeOK
    <2> QED
      BY <2>1, <2>2, <2>3, <2>4, MoveIInv
  <1>8. ASSUME NEW t \in Task,
               \/ FetchFails(t) \/ Rejected(t) \/ TimesOut(t) \/ Succeeds(t) \/ Abandon(t)
        PROVE  IInv'
    <2>1. /\ pc[t] # "idle" /\ pc' = [pc EXCEPT ![t] = "done"]
          /\ \/ result' = result
             \/ result' = [result EXCEPT ![t] = "error"]
             \/ result' = [result EXCEPT ![t] = "ok"] /\ pc[t] = "write" /\ status[t] = "success"
          /\ UNCHANGED <<now, v4, csrf, attempt, tries, tok, current, wire, effects, status>>
      BY <1>8 DEF FetchFails, Rejected, TimesOut, Succeeds, Abandon, Return
    <2>2. TypeOK'
      BY <2>1 DEF IInv, TypeOK
    <2>3. pc'[t] = "done"
          /\ \A d \in Task : d # t => pc'[d] = pc[d] /\ result'[d] = result[d]
      BY <2>1 DEF IInv, TypeOK
    <2>4. result'[t] = "ok" => effects[t] = 1
      BY <2>1 DEF IInv, TypeOK, AnswerTellsEffect, ReportsTruth
    <2> QED
      BY <2>1, <2>2, <2>3, <2>4, MoveIInv
  <1> QED
    BY <1>1, <1>2, <1>3, <1>4, <1>5, <1>6, <1>7, <1>8, ServeIInv DEF Next, Sap, Proceed

\* The invariant holds in every reachable state.
THEOREM Inductive == Spec => []IInv
  BY InitIInv, StepIInv, PTL DEF Spec
-----------------------------------------------------------------------------
\* The token cache, the program counters and the requests keep their types; the
\* cache never holds two tokens and a fetch never exceeds its retries.
THEOREM TypeCorrect == Spec => []TypeOK
  <1>1. IInv => TypeOK
    BY DEF IInv
  <1> QED
    BY Inductive, <1>1, PTL

\* A write has at most one effect in SAP, and once it had it none of its
\* requests is under way: through the repetition after a 403, timeouts,
\* abandoned calls and answers that come late.
THEOREM AtMostOnceTheorem == Spec => []AtMostOnce
  <1>1. IInv => AtMostOnce
    BY DEF IInv
  <1> QED
    BY Inductive, <1>1, PTL

\* Before it repeats a refused write, a task does not find in the cache what it
\* put there itself.
THEOREM RefusedTokenTheorem == Spec => []RefusedTokenDropped
  <1>1. IInv => RefusedTokenDropped
    BY DEF IInv
  <1> QED
    BY Inductive, <1>1, PTL

\* A task that others leave alone has as much before it as it had.
LEMMA AheadKept ==
  ASSUME NEW t \in Task, pc'[t] = pc[t], attempt'[t] = attempt[t], tries'[t] = tries[t]
  PROVE  Ahead(t)' = Ahead(t)
  BY DEF Ahead

\* What is ahead is counted by a natural number, which gives the loops an end.
LEMMA AheadIsNatural ==
  ASSUME IInv, NEW t \in Task
  PROVE  Ahead(t) \in Nat
  <1>1. /\ pc[t] \in {"idle", "fetch", "write", "again", "done"}
        /\ tries[t] \in 0 .. MaxRetries /\ MaxRetries \in Nat
    BY ConstantsAssumption DEF IInv, TypeOK
  <1> QED
    BY <1>1 DEF Ahead

\* A round begins with a fetch or with its write, and both are nearer to the
\* end than where it began.
LEMMA RoundGoesOn ==
  ASSUME IInv, NEW t \in Task, pc[t] \in {"idle", "again"}, attempt' = attempt, Round(t)
  PROVE  \A d \in Task : Ahead(d)' <= Ahead(d) /\ (d = t => Ahead(d)' < Ahead(d))
  <1>1. /\ pc \in [Task -> {"idle", "fetch", "write", "again", "done"}]
        /\ tries \in [Task -> 0 .. MaxRetries] /\ MaxRetries \in Nat
    BY ConstantsAssumption DEF IInv, TypeOK
  <1>2. \/ pc' = [pc EXCEPT ![t] = "write"] /\ tries' = tries
        \/ pc' = [pc EXCEPT ![t] = "fetch"] /\ tries' = [tries EXCEPT ![t] = 0]
    BY DEF Round, WithToken, SendWrite, StartFetch
  <1>3. Ahead(t)' < Ahead(t)
    BY <1>1, <1>2 DEF Ahead
  <1>4. \A d \in Task : Ahead(d) \in Nat
    BY AheadIsNatural
  <1>5. \A d \in Task : d # t => Ahead(d)' = Ahead(d)
    BY <1>1, <1>2, AheadKept
  <1>6. Ahead(t)' <= Ahead(t)
    <2>1. Ahead(t)' \in Nat
      BY <1>1, <1>2 DEF Ahead
    <2> QED
      BY <1>3, <1>4, <2>1
  <1> QED
    BY <1>3, <1>4, <1>5, <1>6

\* So is every other step of the client.
LEMMA StepGoesOn ==
  ASSUME IInv, NEW t \in Task,
         \/ Fetched(t) \/ RetryFetch(t) \/ FetchFails(t) \/ Succeeds(t) \/ Refresh(t)
         \/ Rejected(t) \/ TimesOut(t) \/ (Abandon(t) /\ pc[t] # "idle")
  PROVE  \A d \in Task : Ahead(d)' <= Ahead(d) /\ (d = t => Ahead(d)' < Ahead(d))
  <1>1. /\ pc \in [Task -> {"idle", "fetch", "write", "again", "done"}]
        /\ tries \in [Task -> 0 .. MaxRetries] /\ MaxRetries \in Nat
        /\ attempt \in [Task -> 0 .. 1]
    BY ConstantsAssumption DEF IInv, TypeOK
  <1>2. \/ /\ pc[t] = "fetch" /\ pc' = [pc EXCEPT ![t] = "write"]
           /\ UNCHANGED <<attempt, tries>>
        \/ /\ pc[t] = "fetch" /\ tries' = [tries EXCEPT ![t] = @ + 1]
           /\ UNCHANGED <<attempt, pc>>
        \/ /\ pc[t] = "write" /\ attempt[t] = 0
           /\ pc' = [pc EXCEPT ![t] = "again"] /\ attempt' = [attempt EXCEPT ![t] = 1]
           /\ UNCHANGED tries
        \/ /\ pc[t] \in {"fetch", "write", "again"} /\ pc' = [pc EXCEPT ![t] = "done"]
           /\ UNCHANGED <<attempt, tries>>
    BY <1>1 DEF Fetched, SendWrite, RetryFetch, FetchFails, Succeeds, Refresh, Rejected, TimesOut,
       Abandon, Return
  <1>3. Ahead(t)' < Ahead(t) /\ Ahead(t)' <= Ahead(t)
    BY <1>1, <1>2 DEF Ahead
  <1>4. \A d \in Task : Ahead(d) \in Nat
    BY AheadIsNatural
  <1>5. \A d \in Task : d # t => Ahead(d)' = Ahead(d)
    BY <1>1, <1>2, AheadKept
  <1> QED
    BY <1>3, <1>4, <1>5

\* The retries of a write run out: it makes at most 2 (MaxRetries + 4) steps,
\* whatever SAP answers and whoever else writes.
THEOREM RetriesTheorem == Spec => RetriesRunOut
  <1> DEFINE Nearer == \A t \in Task : Ahead(t)' <= Ahead(t) /\ (Proceed(t) => Ahead(t)' < Ahead(t))
  <1>1. ASSUME IInv, [Next]_vars PROVE Nearer \/ UNCHANGED vars
    <2>1. \A t \in Task : Ahead(t) \in Nat
      BY <1>1, AheadIsNatural
    <2>2. ASSUME NEW t \in Task, Proceed(t) PROVE Ahead(t)' < Ahead(t)
      <3>1. CASE Again(t)
        BY <1>1, <3>1, RoundGoesOn DEF Again
      <3> QED
        BY <1>1, <2>2, <3>1, StepGoesOn DEF Proceed
    <2>3. ASSUME NEW d \in Task PROVE Ahead(d)' <= Ahead(d)
      <3>1. ASSUME NEW t \in Task, Begin(t) \/ Again(t) PROVE Ahead(d)' <= Ahead(d)
        BY <1>1, <3>1, RoundGoesOn DEF Begin, Again
      <3>2. ASSUME NEW t \in Task, Proceed(t) \/ Abandon(t), ~Again(t) PROVE Ahead(d)' <= Ahead(d)
        <4>1. Abandon(t) => pc[t] # "idle"
          BY DEF Abandon
        <4> QED
          BY <1>1, <3>2, <4>1, StepGoesOn DEF Proceed
      <3>3. CASE Sap \/ Tick \/ UNCHANGED vars
        <4>1. UNCHANGED <<pc, attempt, tries>>
          BY <3>3 DEF Sap, ServeFetch, ServeWrite, Rotate, Tick, vars, taskVars, sapVars
        <4> QED
          BY <2>1, <4>1, AheadKept
      <3> QED
        BY <1>1, <3>1, <3>2, <3>3 DEF Next
    <2> QED
      BY <2>2, <2>3
  <1>2. IInv /\ [Next]_vars => [Nearer]_vars
    BY <1>1
  <1> HIDE DEF Nearer
  <1>3. Spec => [][Nearer]_vars
    BY <1>2, Inductive, PTL DEF Spec
  <1> QED
    BY <1>3 DEF RetriesRunOut, Nearer
-----------------------------------------------------------------------------
\* A step of the client or of SAP is the effect of a write, the answer to its
\* caller, or nothing that RemoteWrite sees.
LEMMA StepRefines == IInv /\ [Next]_vars => [Remote!Next]_(Remote!vars)
  <1> SUFFICES ASSUME IInv, [Next]_vars PROVE [Remote!Next]_(Remote!vars)
    OBVIOUS
  <1> USE DEF taskVars, sapVars, Remote!vars
  <1>1. ASSUME NEW m \in wire, NEW verdict \in {"success", "fault", "forbidden"},
               ServeWrite(m, verdict)
        PROVE  [Remote!Next]_(Remote!vars)
    <2>1. m.task \in Task /\ effects[m.task] = 0 /\ result' = result
      BY <1>1 DEF ServeWrite, IInv, TypeOK, AtMostOnce
    <2>2. \/ effects' = effects
          \/ effects' = [effects EXCEPT ![m.task] = 1]
      BY <1>1, <2>1 DEF ServeWrite
    <2> QED
      BY <2>1, <2>2 DEF Remote!Next, Remote!TakeEffect
  <1>2. ASSUME NEW t \in Task, Succeeds(t) PROVE [Remote!Next]_(Remote!vars)
    <2>1. result[t] = "none" /\ effects[t] = 1
      BY <1>2 DEF Succeeds, IInv, TypeOK, ReportsTruth, AnswerTellsEffect
    <2> QED
      BY <1>2, <2>1 DEF Succeeds, Return, Remote!Next, Remote!Succeed
  <1>3. ASSUME NEW t \in Task, FetchFails(t) \/ Rejected(t) \/ TimesOut(t)
        PROVE  [Remote!Next]_(Remote!vars)
    <2>1. result[t] = "none"
      BY <1>3 DEF FetchFails, Rejected, TimesOut, IInv, TypeOK, ReportsTruth
    <2> QED
      BY <1>3, <2>1 DEF FetchFails, Rejected, TimesOut, Return, Remote!Next, Remote!Fail
  <1>4. CASE \/ UNCHANGED vars \/ Tick \/ Rotate
             \/ \E t \in Task :
                   \/ Begin(t) \/ Again(t) \/ ServeFetch(t) \/ Fetched(t) \/ RetryFetch(t)
                   \/ Refresh(t) \/ Abandon(t)
    BY <1>4 DEF vars, Tick, Rotate, Begin, Again, ServeFetch, Fetched, RetryFetch, Refresh, Abandon
  <1> QED
    BY <1>1, <1>2, <1>3, <1>4 DEF Next, Sap, Proceed

\* The client implements RemoteWrite: for its caller a write is one effect at
\* most, and a success is only reported after it.
THEOREM Refinement == Spec => ImplementsRemoteWrite
  <1>1. Init => Remote!Init
    BY DEF Init, Remote!Init
  <1> QED
    BY Inductive, <1>1, StepRefines, PTL DEF Spec, ImplementsRemoteWrite, Remote!Spec
=============================================================================
