----------------------------- MODULE HttpSessions -----------------------------
(***************************************************************************)
(* The session tables of src/transport_http.rs: sessions of the Streamable *)
(* HTTP transport, the broadcast channels of both transports, and the      *)
(* tenants bound to legacy SSE channels. Each table has a lock of its own  *)
(* and a handler takes them one after the other, so an action is one       *)
(* critical section and the handlers interleave between them.              *)
(*                                                                         *)
(* The session id a call mints (a fresh UUID) is the call itself.          *)
(***************************************************************************)
EXTENDS Naturals, FiniteSets

CONSTANTS Call,         \* HTTP requests
          Tenant,       \* what a bearer token may resolve to
          None,         \* no session id, no tenant, a token nobody knows
          SessionTtl,   \* SESSION_TTL, 24 h
          Spare,        \* the hour after which the cap may evict a session
          MaxSessions,  \* MAX_SESSIONS
          MaxTime       \* bound on the clock

\* MCLockedTables assumes it.
ConstantsAssumption ==
    /\ None \notin Call \cup Tenant
    /\ {SessionTtl, Spare, MaxSessions} \subseteq Nat /\ Spare < SessionTtl

VARIABLES
    now,
    sessions,  \* session id -> (created, tenant)
    sse,       \* the ids that have a broadcast channel: sse_tx
    bound,     \* legacy channel -> tenant: sse_tenant
    pc, job,
    seen,      \* the instant insert_session read before it took the lock
    acts,      \* the tenant each call was handled as
    answered   \* how each call ended

vars == <<now, sessions, sse, bound, pc, job, seen, acts, answered>>

Kind == {"initialize", "post", "get", "delete", "sse", "message"}
\* as: the tenant that resolve_http_tenant makes of the headers.
Job == [kind : Kind, sid : Call \cup {None}, as : Tenant \cup {None}]

Init ==
    /\ now = 0
    /\ sessions = {} /\ sse = {} /\ bound = {}
    /\ pc = [c \in Call |-> "idle"]
    /\ job = [c \in Call |-> [kind |-> "get", sid |-> None, as |-> None]]
    /\ seen = [c \in Call |-> 0]
    /\ acts = [c \in Call |-> None]
    /\ answered = [c \in Call |-> "no"]
-----------------------------------------------------------------------------
HasSession(s) == \E e \in sessions : e.sid = s

\* A client knows an id once the call that minted it has been answered.
Known(s) == s # None => pc[s] = "done" /\ answered[s] = "ok"

Arrive(c, j, at) ==
    /\ pc[c] = "idle" /\ Known(j.sid)
    /\ job' = [job EXCEPT ![c] = j]
    /\ pc' = [pc EXCEPT ![c] = at]

Goto(c, from, to) ==
    /\ pc[c] = from
    /\ pc' = [pc EXCEPT ![c] = to]
    /\ UNCHANGED job

Ends(c, how) == answered' = [answered EXCEPT ![c] = how]
Tables == <<sessions, sse, bound>>

\* 400 or 401 from the first look at the tables or at the token.
Refused(c, j) ==
    /\ \/ j.kind \in {"initialize", "sse"} /\ j.as = None
       \/ j.kind = "post" /\ j.sid = None /\ j.as = None
       \/ j.kind = "post" /\ j.sid # None /\ ~HasSession(j.sid)
       \/ j.kind = "get" /\ ~HasSession(j.sid)
       \/ j.kind = "message" /\ j.sid \notin sse
    /\ Arrive(c, j, "done") /\ Ends(c, "refused")
    /\ UNCHANGED <<now, Tables, seen, acts>>

\* Wrong variant of Initialize: the session is bound to whoever, or nobody.
InitializeAnyone(c, j) ==
    /\ j.kind = "initialize"
    /\ Arrive(c, j, "insert")
    /\ seen' = [seen EXCEPT ![c] = now]
    /\ UNCHANGED <<now, Tables, acts, answered>>

\* mcp_post, initialize: the tenant of the token, and the clock.
Initialize(c, j) ==
    /\ j.kind = "initialize" /\ j.as # None
    /\ Arrive(c, j, "insert")
    /\ seen' = [seen EXCEPT ![c] = now]
    /\ UNCHANGED <<now, Tables, acts, answered>>

Age(c, e) == IF e.at < seen[c] THEN seen[c] - e.at ELSE 0

Young(c) == {e \in sessions : Age(c, e) < SessionTtl}

\* Wrong variant of Kept: at the cap everything goes.
KeptNone(c) == IF Cardinality(Young(c)) >= MaxSessions THEN {} ELSE Young(c)

\* Over the cap, the sessions older than the spare hour go as well.
Kept(c) ==
    IF Cardinality(Young(c)) >= MaxSessions
    THEN {e \in Young(c) : Age(c, e) <= Spare} ELSE Young(c)

InsertSession(c) ==
    /\ Goto(c, "insert", "prune")
    /\ sessions' = Kept(c) \cup {[sid |-> c, at |-> seen[c], tenant |-> job[c].as]}
    /\ UNCHANGED <<now, sse, bound, seen, acts, answered>>

\* Wrong variant of Prune: the channels are pruned by a second retain on what
\* insert_session would keep now.
PruneKept(c) ==
    /\ Goto(c, "prune", "open")
    /\ sse' = {s \in sse : \E e \in Kept(c) : e.sid = s}
    /\ UNCHANGED <<now, sessions, bound, seen, acts, answered>>

\* The second half of insert_session holds both locks.
Prune(c) ==
    /\ Goto(c, "prune", "open")
    /\ sse' = {s \in sse : HasSession(s)}
    /\ UNCHANGED <<now, sessions, bound, seen, acts, answered>>

OpenChannel(c) ==
    /\ Goto(c, "open", "done") /\ Ends(c, "ok")
    /\ sse' = sse \cup {c}
    /\ UNCHANGED <<now, sessions, bound, seen, acts>>

\* mcp_post, any other method: the tenant bound to the session, or without a
\* session id the tenant of the token. The handler is awaited after that.
Post(c, j) ==
    /\ j.kind = "post"
    /\ Arrive(c, j, "handling")
    /\ \/ j.sid = None /\ j.as # None /\ acts' = [acts EXCEPT ![c] = j.as]
       \/ \E e \in sessions : e.sid = j.sid /\ acts' = [acts EXCEPT ![c] = e.tenant]
    /\ UNCHANGED <<now, Tables, seen, answered>>

\* mcp_get looks for the session, then for its channel.
Get(c, j) ==
    /\ j.kind = "get" /\ HasSession(j.sid)
    /\ Arrive(c, j, "subscribe")
    /\ UNCHANGED <<now, Tables, seen, acts, answered>>

Subscribe(c) ==
    /\ Goto(c, "subscribe", "done")
    /\ Ends(c, IF job[c].sid \in sse THEN "ok" ELSE "refused")
    /\ UNCHANGED <<now, Tables, seen, acts>>

\* mcp_delete takes the three tables in turn and knows no refusal.
Delete(c, j) ==
    /\ j.kind = "delete" /\ j.sid # None
    /\ Arrive(c, j, "unbind1")
    /\ sessions' = {e \in sessions : e.sid # j.sid}
    /\ UNCHANGED <<now, sse, bound, seen, acts, answered>>

DropChannel(c) ==
    /\ Goto(c, "unbind1", "unbind2")
    /\ sse' = sse \ {job[c].sid}
    /\ UNCHANGED <<now, sessions, bound, seen, acts, answered>>

DropBinding(c) ==
    /\ Goto(c, "unbind2", "done") /\ Ends(c, "ok")
    /\ bound' = {b \in bound : b.sid # job[c].sid}
    /\ UNCHANGED <<now, sessions, sse, seen, acts>>

\* legacy_sse
LegacySse(c, j) ==
    /\ j.kind = "sse" /\ j.as # None
    /\ Arrive(c, j, "bind")
    /\ sse' = sse \cup {c}
    /\ UNCHANGED <<now, sessions, bound, seen, acts, answered>>

Bind(c) ==
    /\ Goto(c, "bind", "done") /\ Ends(c, "ok")
    /\ bound' = bound \cup {[sid |-> c, tenant |-> job[c].as]}
    /\ UNCHANGED <<now, sessions, sse, seen, acts>>

\* legacy_messages: the channel exists; then whom it is bound to.
Message(c, j) ==
    /\ j.kind = "message" /\ j.sid \in sse
    /\ Arrive(c, j, "binding")
    /\ UNCHANGED <<now, Tables, seen, acts, answered>>

\* Wrong variant of Caller: the token goes first.
CallerByToken(c) ==
    LET b == {x \in bound : x.sid = job[c].sid}
    IN  IF job[c].as = None /\ b # {} THEN (CHOOSE x \in b : TRUE).tenant ELSE job[c].as

Caller(c) ==
    LET b == {x \in bound : x.sid = job[c].sid}
    IN  IF b # {} THEN (CHOOSE x \in b : TRUE).tenant ELSE job[c].as

LookUpBinding(c) ==
    /\ Goto(c, "binding", IF Caller(c) = None THEN "done" ELSE "handling")
    /\ acts' = [acts EXCEPT ![c] = Caller(c)]
    /\ IF Caller(c) = None THEN Ends(c, "refused") ELSE UNCHANGED answered
    /\ UNCHANGED <<now, Tables, seen>>

\* The handler returns. A post is answered in its own response; a legacy
\* message only through the channel, if there still is one.
Answer(c) ==
    /\ Goto(c, "handling", "done")
    /\ Ends(c, IF job[c].kind = "message" /\ job[c].sid \notin sse THEN "lost" ELSE "ok")
    /\ UNCHANGED <<now, Tables, seen, acts>>

Tick ==
    /\ now < MaxTime
    /\ now' = now + 1
    /\ UNCHANGED <<Tables, pc, job, seen, acts, answered>>

Next ==
    \/ Tick
    \/ \E c \in Call, j \in Job :
          \/ Refused(c, j) \/ Initialize(c, j) \/ Post(c, j) \/ Get(c, j)
          \/ Delete(c, j) \/ LegacySse(c, j) \/ Message(c, j)
    \/ \E c \in Call :
          \/ InsertSession(c) \/ Prune(c) \/ OpenChannel(c) \/ Subscribe(c)
          \/ DropChannel(c) \/ DropBinding(c) \/ Bind(c) \/ LookUpBinding(c) \/ Answer(c)

Spec == Init /\ [][Next]_vars
-----------------------------------------------------------------------------
TypeOK ==
    /\ now \in Nat
    /\ sessions \subseteq [sid : Call, at : Nat, tenant : Tenant]
    /\ \A e, f \in sessions : e.sid = f.sid => e = f
    /\ sse \subseteq Call
    /\ bound \subseteq [sid : Call, tenant : Tenant]
    /\ pc \in [Call -> {"idle", "insert", "prune", "open", "subscribe", "unbind1",
                        "unbind2", "bind", "binding", "handling", "done"}]
    /\ job \in [Call -> Job]
    /\ seen \in [Call -> Nat]
    /\ acts \in [Call -> Tenant \cup {None}]
    /\ answered \in [Call -> {"no", "ok", "refused", "lost"}]

\* A session is removed only by its DELETE, by old age, or past the spare
\* hour when the cap is reached: no initialize, however stale the clock it
\* read, throws out a young session.
YoungSessionsStay ==
    [][\A e \in sessions : e \notin sessions' =>
          \/ \E d \in Call : job'[d].kind = "delete" /\ job'[d].sid = e.sid
          \/ now - e.at >= SessionTtl
          \/ now - e.at > Spare /\ Cardinality(sessions) >= MaxSessions]_vars

\* The channel of a session is there whenever a client may ask for it: the
\* pruning of one initialize never takes the channel of another's session.
SessionsHaveChannels ==
    \A e \in sessions :
        pc[e.sid] = "done" /\ (\A d \in Call : job[d].sid # e.sid \/ job[d].kind # "delete")
        => e.sid \in sse

\* Later calls on a session or a channel are handled as the tenant that opened
\* it, whatever token they carry (transport_http.rs:27, 245). Only a message whose
\* channel has lost its binding to a DELETE between two look-ups, or whose id is
\* a session's, which has none there, is not: it is handled as the tenant of its
\* own token, and of nobody else's.
BoundTenantHolds ==
    \A c \in Call :
        ( /\ job[c].kind \in {"post", "message"} /\ job[c].sid # None /\ acts[c] # None
          /\ acts[c] # job[job[c].sid].as )
        => /\ job[c].kind = "message" /\ acts[c] = job[c].as
           /\ \/ job[job[c].sid].kind = "initialize"
              \/ \E d \in Call : job[d].kind = "delete" /\ job[d].sid = job[c].sid

\* transport_http.rs:56: only channels whose session is gone are dropped. A
\* legacy message that was accepted is answered unless its client deletes
\* the channel.
LegacyAnswered ==
    \A c \in Call :
        answered[c] = "lost" => \E d \in Call : job[d].kind = "delete" /\ job[d].sid = job[c].sid
=============================================================================
