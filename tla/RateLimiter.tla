------------------------------ MODULE RateLimiter ------------------------------
(***************************************************************************)
(* RateLimiter::check of src/tenant.rs in mode "block" or "warn" (in mode  *)
(* "off" it touches nothing). A call reads the clock, waits for the lock,  *)
(* and counts itself in the window of its (tenant, instance, op) with the  *)
(* instant it read: calls may take the lock in another order than they     *)
(* read the clock.                                                         *)
(***************************************************************************)
EXTENDS Naturals, Sequences, SequencesExt, FiniteSets

CONSTANTS Call,       \* calls of check, each made once
          Key,        \* (tenant, instance, op)
          Mode,       \* SAP_MCP_RATE_LIMIT_MODE
          Window,     \* SAP_MCP_RATE_LIMIT_WINDOW, in clock ticks
          Budget,     \* SAP_MCP_RATE_LIMIT_MAX_CALLS
          MaxKeys,    \* 4096
          MaxTime     \* bound on the clock

\* MCSharedTables assumes it.
ConstantsAssumption ==
    Mode \in {"block", "warn"} /\ {Window, Budget, MaxKeys} \subseteq Nat

VARIABLES now,
          key,      \* what each call is for
          pc,
          seen,     \* the instant each call read
          queue,    \* the HashMap: the instants of each key, oldest first
          allowed,  \* the verdicts
          cleared,  \* history: whether the map was ever cleared
          late      \* history: the calls that were overtaken, between their clock
                    \* and the lock, by a call of their key with a newer clock

history == <<cleared, late>>
vars == <<now, key, pc, seen, queue, allowed, history>>

Init ==
    /\ now = 0
    /\ key \in [Call -> Key]
    /\ pc = [c \in Call |-> "idle"]
    /\ seen = [c \in Call |-> 0]
    /\ queue = [k \in {} |-> <<>>]
    /\ allowed = [c \in Call |-> FALSE]
    /\ cleared = FALSE
    /\ late = {}

Tick ==
    /\ now < MaxTime
    /\ now' = now + 1
    /\ UNCHANGED <<key, pc, seen, queue, allowed, history>>

ReadClock(c) ==
    /\ pc[c] = "idle"
    /\ seen' = [seen EXCEPT ![c] = now]
    /\ pc' = [pc EXCEPT ![c] = "lock"]
    /\ UNCHANGED <<now, key, queue, allowed, history>>

\* duration_since saturates: an instant later than t is not old for t.
Old(at, t) == t > at + Window

\* while front is old { pop_front }
Trimmed(q, t) ==
    LET keep == SelectInSeq(q, LAMBDA at : ~Old(at, t))
    IN  IF keep = 0 THEN <<>> ELSE SubSeq(q, keep, Len(q))

\* Wrong variant of Overfull: room for one key more.
OverfullLate(c) == Cardinality(DOMAIN queue) > MaxKeys + 1 /\ key[c] \notin DOMAIN queue

\* Too many keys and this is one more: forget them all.
Overfull(c) == Cardinality(DOMAIN queue) > MaxKeys /\ key[c] \notin DOMAIN queue

QueueOf(c) == IF Overfull(c) \/ key[c] \notin DOMAIN queue THEN <<>> ELSE queue[key[c]]

\* The call counts itself, allowed or not.
Counted(c) == Append(Trimmed(QueueOf(c), seen[c]), seen[c])

\* Wrong variant of WithinBudget: off by one.
WithinBudgetAndOne(q) == Mode = "warn" \/ Len(q) <= Budget + 1
WithinBudget(q) == Mode = "warn" \/ Len(q) <= Budget

\* The calls of k that have been counted so far.
Counts(k) == {d \in Call : pc[d] = "done" /\ key[d] = k}

Check(c) ==
    /\ pc[c] = "lock"
    /\ queue' = LET kept == IF Overfull(c) THEN {} ELSE DOMAIN queue
                IN  [k \in kept \cup {key[c]} |-> IF k = key[c] THEN Counted(c) ELSE queue[k]]
    /\ cleared' = (cleared \/ Overfull(c))
    /\ late' = IF \E d \in Counts(key[c]) : seen[d] > seen[c] THEN late \cup {c} ELSE late
    /\ allowed' = [allowed EXCEPT ![c] = WithinBudget(Counted(c))]
    /\ pc' = [pc EXCEPT ![c] = "done"]
    /\ UNCHANGED <<now, key, seen>>

Next == Tick \/ \E c \in Call : ReadClock(c) \/ Check(c)

Spec == Init /\ [][Next]_vars
-----------------------------------------------------------------------------
\* tenant.rs:183: the keys are bounded, however many tenants call.
KeysBounded == Cardinality(DOMAIN queue) <= MaxKeys + 1

TypeOK ==
    /\ now \in Nat
    /\ key \in [Call -> Key]
    /\ pc \in [Call -> {"idle", "lock", "done"}]
    /\ seen \in [Call -> Nat]
    /\ DOMAIN queue \subseteq Key /\ KeysBounded
    /\ \A k \in DOMAIN queue : queue[k] # <<>> /\ \A i \in DOMAIN queue[k] : queue[k][i] <= now
    /\ allowed \in [Call -> BOOLEAN]
    /\ cleared \in BOOLEAN /\ late \subseteq Call

\* The calls the limiter let through for k in the window that ends at t.
Through(k, t) == {c \in Counts(k) : allowed[c] /\ seen[c] <= t /\ ~Old(seen[c], t)}

\* In any window at most Budget calls of a key get through, and one more for
\* each call that was overtaken between its clock and the lock: the newer
\* clock may have popped instants that the older one still has in its window.
BudgetKept ==
    Mode = "block" /\ ~cleared =>
        \A k \in Key, t \in 0 .. now :
            Cardinality(Through(k, t)) <= Budget + Cardinality({c \in late : key[c] = k})

\* A refusal means that Budget other calls of the same key came before it,
\* each in the window of the refused one or overtaken: an overtaken instant
\* may sit, out of the window, behind a newer front that is not popped.
RefusedOnlyOverBudget ==
    \A c \in Call : pc[c] = "done" /\ ~allowed[c] =>
        Cardinality({d \in Counts(key[c]) \ {c} : d \in late \/ ~Old(seen[d], seen[c])}) >= Budget

\* The limiter holds its budget and refuses nobody within it.
BudgetHolds == BudgetKept /\ RefusedOnlyOverBudget
=============================================================================
