------------------------------ MODULE SapClient ------------------------------
(***************************************************************************)
(* Writes through one SapClient of src/sap_client.rs: the CSRF token that  *)
(* every clone of the client shares, its fetch with retries, the write     *)
(* itself and the one repetition after a 403. create, update and delete    *)
(* have the same control and are one operation here.                       *)
(*                                                                         *)
(* Tasks run in parallel and yield at each HTTP request, so an action is   *)
(* what a task does from one response to its next request. SAP is external:*)
(* it serves a request at any time after it was sent, also when the task   *)
(* has timed out, and changes the token it accepts when it likes.          *)
(***************************************************************************)
EXTENDS Integers

CONSTANTS Task,          \* one write each
          MaxRetries,    \* cfg.max_retries
          CsrfTtl,       \* 20 minutes, in clock ticks
          MaxRotations,  \* bound on the tokens SAP goes through
          MaxTime        \* bound on the clock

ASSUME ConstantsAssumption ==
    MaxRetries \in Nat /\ CsrfTtl \in Nat \ {0} /\ MaxRotations \in Nat

VARIABLES
    now,
    v4,        \* cfg.is_v4(): no CSRF token, and a 403 is final
    csrf,      \* the cached token, when it was stored, and (history) by whom
    pc,        \* the request each task waits for
    attempt,   \* the round of the loop in create/update/delete
    tries,     \* the attempts of send() made for the current fetch
    tok,       \* the token each task got
    current,   \* SAP: the token it accepts
    wire,      \* SAP: the writes sent that it has not served
    effects,   \* SAP: how often each write took effect
    status,    \* the status of the response on its way to each task
    result     \* what each write returned

taskVars == <<pc, attempt, tries, tok, result>>
sapVars  == <<current, wire, effects, status>>
vars == <<now, v4, csrf, taskVars, sapVars>>

NoToken == -1
Token == 0 .. MaxRotations

Init ==
    /\ now = 0 /\ v4 \in BOOLEAN
    /\ csrf = {} /\ current = 0 /\ wire = {}
    /\ pc = [t \in Task |-> "idle"]
    /\ attempt = [t \in Task |-> 0]
    /\ tries = [t \in Task |-> 0]
    /\ tok = [t \in Task |-> NoToken]
    /\ effects = [t \in Task |-> 0]
    /\ status = [t \in Task |-> "none"]
    /\ result = [t \in Task |-> "none"]
-----------------------------------------------------------------------------
Fresh == {k \in csrf : now - k.at < CsrfTtl}

\* The write request leaves with the token k. send() is told not to retry.
SendWrite(t, k) ==
    /\ tok' = [tok EXCEPT ![t] = k]
    /\ wire' = wire \cup {[task |-> t, round |-> attempt'[t], tok |-> k]}
    /\ status' = [status EXCEPT ![t] = "none"]
    /\ pc' = [pc EXCEPT ![t] = "write"]

\* csrf_token without a fetch, from the cache or because V4 has none.
WithToken(t) ==
    \/ \E k \in Fresh : SendWrite(t, k.tok)
    \/ v4 /\ Fresh = {} /\ SendWrite(t, NoToken)

\* csrf_token finds nothing fresh and asks SAP for a token.
StartFetch(t) ==
    /\ ~v4 /\ Fresh = {}
    /\ pc' = [pc EXCEPT ![t] = "fetch"]
    /\ tries' = [tries EXCEPT ![t] = 0]
    /\ status' = [status EXCEPT ![t] = "none"]
    /\ UNCHANGED <<tok, wire>>

\* The head of the loop: a token, then the write.
Round(t) ==
    \/ WithToken(t) /\ UNCHANGED tries
    \/ StartFetch(t)

Begin(t) ==
    /\ pc[t] = "idle"
    /\ attempt' = attempt
    /\ Round(t)
    /\ UNCHANGED <<now, v4, csrf, current, effects, result>>

\* SAP answers the fetch with the token of the moment.
ServeFetch(t) ==
    /\ pc[t] = "fetch" /\ status[t] = "none"
    /\ status' = [status EXCEPT ![t] = "token"]
    /\ tok' = [tok EXCEPT ![t] = current]
    /\ UNCHANGED <<now, v4, csrf, pc, attempt, tries, result, current, wire, effects>>

\* The token arrives, is cached whatever the cache holds by now, and is used.
Fetched(t) ==
    /\ pc[t] = "fetch" /\ status[t] = "token"
    /\ csrf' = {[tok |-> tok[t], at |-> now, by |-> t]}
    /\ attempt' = attempt
    /\ SendWrite(t, tok[t])
    /\ UNCHANGED <<now, v4, tries, result, current, effects>>

\* Wrong variant of RetryFetch: one retry too many.
RetryFetchOnceMore(t) ==
    /\ pc[t] = "fetch" /\ tries[t] <= MaxRetries
    /\ tries' = [tries EXCEPT ![t] = @ + 1]
    /\ status' = [status EXCEPT ![t] = "none"]
    /\ UNCHANGED <<now, v4, csrf, pc, attempt, tok, result, current, wire, effects>>

\* 429, 5xx or a transport error: send() retries a GET up to max_retries.
RetryFetch(t) ==
    /\ pc[t] = "fetch" /\ tries[t] < MaxRetries
    /\ tries' = [tries EXCEPT ![t] = @ + 1]
    /\ status' = [status EXCEPT ![t] = "none"]
    /\ UNCHANGED <<now, v4, csrf, pc, attempt, tok, result, current, wire, effects>>

Return(t, how) ==
    /\ pc' = [pc EXCEPT ![t] = "done"]
    /\ result' = [result EXCEPT ![t] = how]
    /\ UNCHANGED <<now, v4, attempt, tries, tok, current, wire, effects, status>>

\* The retries are used up, or the response carries no token.
FetchFails(t) ==
    /\ pc[t] = "fetch"
    /\ Return(t, "error") /\ UNCHANGED csrf

\* SAP serves a write: it executes it, finds fault with it, or refuses it for
\* its token or for want of authority. Only the first has an effect.
ServeWrite(m, verdict) ==
    /\ verdict = "success" => v4 \/ m.tok = current
    /\ wire' = wire \ {m}
    /\ effects' = IF verdict = "success" THEN [effects EXCEPT ![m.task] = @ + 1] ELSE effects
    /\ status' = IF pc[m.task] = "write" /\ m.round = attempt[m.task]
                 THEN [status EXCEPT ![m.task] = verdict] ELSE status
    /\ UNCHANGED <<now, v4, csrf, taskVars, current>>

Succeeds(t) ==
    /\ pc[t] = "write" /\ status[t] = "success"
    /\ Return(t, "ok") /\ UNCHANGED csrf

\* Wrong variants of Refresh: the write is repeated when its answer is lost;
\* the refused token stays in the cache; every 403 is tried again.
RefreshOnLoss(t) ==
    /\ pc[t] = "write" /\ status[t] \in {"none", "forbidden"} /\ attempt[t] = 0 /\ ~v4
    /\ csrf' = {}
    /\ attempt' = [attempt EXCEPT ![t] = 1]
    /\ pc' = [pc EXCEPT ![t] = "again"]
    /\ UNCHANGED <<now, v4, tries, tok, result, sapVars>>

RefreshKeeping(t) ==
    /\ pc[t] = "write" /\ status[t] = "forbidden" /\ attempt[t] = 0 /\ ~v4
    /\ attempt' = [attempt EXCEPT ![t] = 1]
    /\ pc' = [pc EXCEPT ![t] = "again"]
    /\ UNCHANGED <<now, v4, csrf, tries, tok, result, sapVars>>

RefreshEach(t) ==
    /\ pc[t] = "write" /\ status[t] = "forbidden" /\ ~v4
    /\ csrf' = {}
    /\ pc' = [pc EXCEPT ![t] = "again"]
    /\ UNCHANGED <<now, v4, attempt, tries, tok, result, sapVars>>

\* The first 403 of a V2 write: drop the cached token, whoever stored it, and
\* go round the loop once more.
Refresh(t) ==
    /\ pc[t] = "write" /\ status[t] = "forbidden" /\ attempt[t] = 0 /\ ~v4
    /\ csrf' = {}
    /\ attempt' = [attempt EXCEPT ![t] = 1]
    /\ pc' = [pc EXCEPT ![t] = "again"]
    /\ UNCHANGED <<now, v4, tries, tok, result, sapVars>>

\* `continue', and the other tasks may have stored a token in between.
Again(t) ==
    /\ pc[t] = "again"
    /\ attempt' = attempt
    /\ Round(t)
    /\ UNCHANGED <<now, v4, csrf, current, effects, result>>

Rejected(t) ==
    /\ pc[t] = "write"
    /\ \/ status[t] = "fault"
       \/ status[t] = "forbidden" /\ (attempt[t] = 1 \/ v4)
    /\ Return(t, "error") /\ UNCHANGED csrf

\* Wrong variant of TimesOut: the client waits for a response.
TimesOutAnswered(t) ==
    /\ pc[t] = "write" /\ status[t] # "none"
    /\ Return(t, "error") /\ UNCHANGED csrf

\* timeout_ms, or the connection breaks: the response, if any, is lost.
TimesOut(t) ==
    /\ pc[t] = "write"
    /\ Return(t, "error") /\ UNCHANGED csrf

\* The caller disconnects: the task is dropped at the request it waits for.
Abandon(t) ==
    /\ pc[t] \notin {"idle", "done"}
    /\ pc' = [pc EXCEPT ![t] = "done"]
    /\ UNCHANGED <<now, v4, csrf, attempt, tries, tok, result, sapVars>>

Rotate ==
    /\ current < MaxRotations
    /\ current' = current + 1
    /\ UNCHANGED <<now, v4, csrf, taskVars, wire, effects, status>>

Tick ==
    /\ now < MaxTime
    /\ now' = now + 1
    /\ UNCHANGED <<v4, csrf, taskVars, sapVars>>

\* The client's own steps once a write has begun.
Proceed(t) ==
    \/ Fetched(t) \/ RetryFetch(t) \/ FetchFails(t)
    \/ Succeeds(t) \/ Refresh(t) \/ Again(t) \/ Rejected(t) \/ TimesOut(t)

Sap ==
    \/ \E t \in Task : ServeFetch(t)
    \/ \E m \in wire, verdict \in {"success", "fault", "forbidden"} : ServeWrite(m, verdict)
    \/ Rotate

Next == Sap \/ Tick \/ \E t \in Task : Begin(t) \/ Proceed(t) \/ Abandon(t)

Spec == Init /\ [][Next]_vars
FairSpec == Spec /\ \A t \in Task : WF_vars(Proceed(t))
-----------------------------------------------------------------------------
TypeOK ==
    /\ now \in Nat /\ v4 \in BOOLEAN /\ current \in Token
    /\ csrf \subseteq [tok : Token, at : Nat, by : Task]
    /\ \A k, l \in csrf : k = l
    /\ pc \in [Task -> {"idle", "fetch", "write", "again", "done"}]
    /\ attempt \in [Task -> 0 .. 1]
    /\ tries \in [Task -> 0 .. MaxRetries]
    /\ tok \in [Task -> Token \cup {NoToken}]
    /\ wire \subseteq [task : Task, round : 0 .. 1, tok : Token \cup {NoToken}]
    /\ effects \in [Task -> Nat]
    /\ status \in [Task -> {"none", "token", "success", "fault", "forbidden"}]
    /\ result \in [Task -> {"none", "ok", "error"}]

\* "Writes never retry" and "a 403 proves non-execution" (sap_client.rs:13,
\* 302): whatever is lost, late or refreshed, a write has one effect at most,
\* and none of its requests is still under way once it had it.
AtMostOnce ==
    \A t \in Task :
        /\ effects[t] <= 1
        /\ effects[t] = 1 => \A m \in wire : m.task # t

\* Between its 403 and the repetition, what the cache holds is not what this
\* write put there: it repeats with a token of its own only after a new fetch.
\* (Another task may store, late, the very token that was refused.)
RefusedTokenDropped ==
    \A t \in Task : pc[t] = "again" => \A k \in csrf : k.by # t

\* A bound on the steps a write still has before it: the fetches of a round of
\* the loop, its write, and the second round.
Ahead(t) ==
    LET later == IF attempt[t] = 0 THEN MaxRetries + 4 ELSE 0
    IN  CASE pc[t] \in {"idle", "again"} -> later + MaxRetries + 3
          [] pc[t] = "fetch"             -> later + MaxRetries + 2 - tries[t]
          [] pc[t] = "write"             -> later + 1
          [] pc[t] = "done"              -> 0

\* The two loops of a write, of send() and of the 403, end together: each step
\* of the client brings its write nearer to the end, and nobody else's step
\* takes it back (sap_client.rs:13, 121, 304).
RetriesRunOut ==
    [][\A t \in Task : Ahead(t)' <= Ahead(t) /\ (Proceed(t) => Ahead(t)' < Ahead(t))]_vars

\* The writes implement RemoteWrite.
Remote == INSTANCE RemoteWrite WITH answer <- result

ImplementsRemoteWrite == Remote!Spec

\* A write that begins returns: the retries are bounded and nothing waits for
\* SAP without a timeout.
EveryWriteReturns == \A t \in Task : pc[t] # "idle" ~> pc[t] = "done"
=============================================================================
