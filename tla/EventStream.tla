------------------------------ MODULE EventStream ------------------------------
(***************************************************************************)
(* One broadcast channel of src/transport_http.rs and the SSE streams that *)
(* read it: answers are sent into it in the order in which their handlers  *)
(* end, each stream reads at its own pace, and one that lags by more than  *)
(* the capacity goes on at the oldest answer that is left (the error that  *)
(* says so is filtered out). Which channels there are is HttpSessions.     *)
(***************************************************************************)
EXTENDS Naturals, Sequences

CONSTANTS MaxAnswers, \* bound on the answers that are sent
          Reader,     \* streams
          Capacity    \* 256

\* MCClients assumes it.
ConstantsAssumption == Capacity \in Nat

VARIABLES
    open,    \* whether the channel is in sse_tx: its sender exists
    tail,    \* how many answers were sent into it, which are 1 .. tail
    state,   \* of each stream: "none", "reading", "ended" or "gone"
    from,    \* history: the first answer sent since it began
    next,    \* the answer it reads next
    got,     \* the answers it was given
    behind   \* history: whether it ever lagged by more than Capacity

channel == <<open, tail>>
streams == <<state, from, next, got, behind>>
vars == <<channel, streams>>

Init ==
    /\ open = TRUE /\ tail = 0
    /\ state = [r \in Reader |-> "none"]
    /\ from = [r \in Reader |-> 0]
    /\ next = [r \in Reader |-> 0]
    /\ got = [r \in Reader |-> <<>>]
    /\ behind = [r \in Reader |-> FALSE]

\* GET /mcp, and the stream that GET /sse opens with its channel.
Subscribe(r) ==
    /\ state[r] = "none" /\ open
    /\ state' = [state EXCEPT ![r] = "reading"]
    /\ from' = [from EXCEPT ![r] = tail + 1]
    /\ next' = [next EXCEPT ![r] = tail + 1]
    /\ UNCHANGED <<channel, got, behind>>

\* A handler ends: its answer goes into the channel, if there still is one,
\* whoever reads it.
Answer ==
    /\ open /\ tail < MaxAnswers
    /\ tail' = tail + 1
    /\ behind' = [r \in Reader |-> behind[r] \/ (state[r] = "reading" /\ tail' >= next[r] + Capacity)]
    /\ UNCHANGED <<open, state, from, next, got>>

\* DELETE, or the pruning of another initialize: the sender is dropped.
Close ==
    /\ open /\ open' = FALSE
    /\ UNCHANGED <<tail, streams>>

Lags(r) == tail >= next[r] + Capacity

\* Wrong variant of Skipped: the stream does not move.
SkippedNot(r) == next[r]
\* The oldest answer that is left.
Skipped(r) == tail + 1 - Capacity

Skip(r) ==
    /\ state[r] = "reading" /\ Lags(r)
    /\ next' = [next EXCEPT ![r] = Skipped(r)]
    /\ UNCHANGED <<channel, state, from, got, behind>>

Receive(r) ==
    /\ state[r] = "reading" /\ ~Lags(r) /\ next[r] <= tail
    /\ got' = [got EXCEPT ![r] = Append(@, next[r])]
    /\ next' = [next EXCEPT ![r] = @ + 1]
    /\ UNCHANGED <<channel, state, from, behind>>

\* Wrong variant of Over: a stream of a dropped channel ends at once.
OverAtOnce(r) == ~open
\* No sender, and all it sent has been read.
Over(r) == ~open /\ next[r] > tail

End(r) ==
    /\ state[r] = "reading" /\ Over(r)
    /\ state' = [state EXCEPT ![r] = "ended"]
    /\ UNCHANGED <<channel, from, next, got, behind>>

\* The client disconnects or reads no more.
Leave(r) ==
    /\ state[r] = "reading"
    /\ state' = [state EXCEPT ![r] = "gone"]
    /\ UNCHANGED <<channel, from, next, got, behind>>

Read(r) == Skip(r) \/ Receive(r) \/ End(r)

Next ==
    \/ Answer \/ Close
    \/ \E r \in Reader : Subscribe(r) \/ Read(r) \/ Leave(r)

\* hyper polls a stream as long as its client takes what it is sent.
Fairness == \A r \in Reader : WF_vars(Read(r))

Spec == Init /\ [][Next]_vars /\ Fairness
-----------------------------------------------------------------------------
\* A stream gives every answer sent since it began, in the order in which they
\* were sent, unless it once was more than the capacity behind; and one that
\* ended has given them all, in any case the last ones the channel could keep.
NothingLost ==
    \A r \in Reader :
        /\ ~behind[r] => got[r] = [k \in 1 .. next[r] - from[r] |-> from[r] + k - 1]
        /\ state[r] = "ended" =>
              \A n \in from[r] .. tail : n > tail - Capacity => \E j \in DOMAIN got[r] : got[r][j] = n

\* However far it lagged and skipped, no stream gives an answer twice, one from
\* before it began, or two in the order other streams do not give them in.
SameOrderForAll ==
    \A r \in Reader : \A j, k \in DOMAIN got[r] :
        got[r][j] >= from[r] /\ (j < k => got[r][j] < got[r][k])

\* A stream that goes on reading gets to the end of what has been sent, also
\* when it lagged, and ends when its channel is dropped.
StreamsReachTheEnd ==
    \A r \in Reader, n \in 1 .. MaxAnswers :
        state[r] = "reading" /\ tail >= n ~> next[r] > n \/ state[r] = "gone"
StreamsEnd ==
    \A r \in Reader : state[r] = "reading" /\ ~open ~> state[r] \in {"ended", "gone"}

\* What a stream gives, and that it comes to give it.
NothingLostWithinCapacity == NothingLost /\ SameOrderForAll
StreamsAdvance == StreamsReachTheEnd /\ StreamsEnd
=============================================================================
