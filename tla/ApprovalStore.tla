---------------------------- MODULE ApprovalStore ----------------------------
(***************************************************************************)
(* ApprovalStore of src/gated.rs at the granularity of its RwLock. Each    *)
(* public operation is two critical sections: sweep() reads the clock,     *)
(* then takes the write lock and drops expired entries, and releases it;   *)
(* the operation proper takes the lock again and reads the clock inside.   *)
(* Tool calls run on a multi-threaded runtime, so the sections of          *)
(* different calls interleave and time passes between them.                *)
(***************************************************************************)
EXTENDS Approvals

CONSTANTS Call,      \* the operations on the store, each performed once
          Payload,   \* records with a field num \in NumberForm
          MaxTime    \* bound on the clock

ASSUME PayloadAssumption == \A p \in Payload : TokenOf(p) \in Payload

VARIABLES now,     \* Instant::now()
          store,   \* the table
          pc,      \* where each operation is
          job,     \* its kind and arguments
          seen,    \* the instant its sweep read
          spent    \* the entries it consumed: none or one

vars == <<now, store, pc, job, seen, spent>>

Token == {TokenOf(p) : p \in Payload}
Entry == [token : Token, payload : Payload, expires : Nat, by : Call]
Kind  == {"register", "consume", "is_valid"}
Job   == [kind : Kind, token : Token, payload : Payload]

\* The only caller of register passes the token it built from the payload;
\* consume and is_valid get whatever the tool call presents.
Jobs == {j \in Job : j.kind = "register" => j.token = TokenOf(j.payload)}

Init ==
    /\ now = 0
    /\ store = {}
    /\ pc = [c \in Call |-> "idle"]
    /\ job \in [Call -> Jobs]
    /\ seen = [c \in Call |-> 0]
    /\ spent = [c \in Call |-> {}]

Tick ==
    /\ now < MaxTime
    /\ now' = now + 1
    /\ UNCHANGED <<store, pc, job, seen, spent>>

\* let now = Instant::now(), before sweep() waits for the lock.
ReadClock(c) ==
    /\ pc[c] = "idle"
    /\ seen' = [seen EXCEPT ![c] = now]
    /\ pc' = [pc EXCEPT ![c] = "sweep"]
    /\ UNCHANGED <<now, store, job, spent>>

Sweep(c) ==
    /\ pc[c] = "sweep"
    /\ store' = Swept(store, seen[c])
    /\ pc' = [pc EXCEPT ![c] = "act"]
    /\ UNCHANGED <<now, job, seen, spent>>

Finish(c, kind) ==
    /\ pc[c] = "act"
    /\ job[c].kind = kind
    /\ pc' = [pc EXCEPT ![c] = "done"]
    /\ UNCHANGED <<now, job, seen>>

Register(c) ==
    /\ Finish(c, "register")
    /\ store' = Inserted(store, [token |-> job[c].token, payload |-> job[c].payload,
                                 expires |-> now + Ttl, by |-> c])
    /\ UNCHANGED spent

Matching(c) == Redeemable(store, job[c].token, job[c].payload, now)

\* Wrong variant of Consume: accepted and not removed.
ConsumeKeeping(c) ==
    /\ Finish(c, "consume")
    /\ spent' = [spent EXCEPT ![c] = Matching(c)]
    /\ UNCHANGED store

\* consume: the entry is looked up and removed under one write lock.
Consume(c) ==
    /\ Finish(c, "consume")
    /\ spent' = [spent EXCEPT ![c] = Matching(c)]
    /\ store' = store \ Matching(c)

\* is_valid reads only; its answer chooses the wording of an error.
IsValid(c) ==
    /\ Finish(c, "is_valid")
    /\ UNCHANGED <<store, spent>>

Step(c) == ReadClock(c) \/ Sweep(c) \/ Register(c) \/ Consume(c) \/ IsValid(c)

Next == Tick \/ \E c \in Call : Step(c)

Spec == Init /\ [][Next]_vars
-----------------------------------------------------------------------------
\* The table is a map keyed by token.
TypeOK ==
    /\ now \in Nat
    /\ store \subseteq Entry
    /\ \A e, f \in store : e.token = f.token => e = f
    /\ pc \in [Call -> {"idle", "sweep", "act", "done"}]
    /\ job \in [Call -> Jobs]
    /\ seen \in [Call -> Nat]
    /\ spent \in [Call -> SUBSET Entry]

\* "Single-use consume: returns true only once" (gated.rs:101): whatever the
\* interleaving, a registration is spent by one call at most and never stays
\* redeemable after that.
SingleUse ==
    \A c \in Call : \A e \in spent[c] :
        /\ \A f \in store : f.by # e.by
        /\ \A d \in Call : \A f \in spent[d] : f.by = e.by => d = c

\* A call spends only what was registered for the very payload it presents.
SpendsWhatWasRegistered ==
    \A c \in Call : \A e \in spent[c] :
        /\ pc[e.by] = "done" /\ job[e.by].kind = "register"
        /\ job[e.by].payload = job[c].payload

\* An approval is spent before its time is up, although the sweep that ran
\* first used an older clock (gated.rs:106 reads the clock again).
SpentInTime ==
    [][\A c \in Call : \A e \in spent'[c] \ spent[c] : now < e.expires]_vars

\* A live approval leaves the table only when it is consumed or replaced by a
\* new validation of the same token: no sweep, however late, drops it.
LiveLeavesByUse ==
    [][\A e \in store \ store' :
          \/ e.expires <= now
          \/ \E c \in Call : e \in spent'[c]
          \/ \E f \in store' \ store : f.token = e.token]_vars

\* The table implements the one-shot grants it stands for. Expired entries
\* that no sweep has dropped yet are already dead in the abstract view.
AsGrant(e) == [by |-> e.by, item |-> e.payload]
Registered == {c \in Call : pc[c] = "done" /\ job[c].kind = "register"}

Issued   == {[by |-> c, item |-> job[c].payload] : c \in Registered}
Live     == {AsGrant(e) : e \in {f \in store : now < f.expires}}
Redeemed == UNION {{[grant |-> AsGrant(e), claim |-> c] : e \in spent[c]} : c \in Call}

Grants == INSTANCE OneShotGrant WITH
    Party <- Call, Item <- Payload,
    issued <- Issued, live <- Live, redeemed <- Redeemed

ImplementsGrants == Grants!Spec
=============================================================================
