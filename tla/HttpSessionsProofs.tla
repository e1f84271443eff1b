-------------------------- MODULE HttpSessionsProofs --------------------------
(***************************************************************************)
(* What the session tables guarantee for any number of requests, sessions  *)
(* and tenants, any caps and times to live, and every interleaving of the  *)
(* handlers between their critical sections.                               *)
(***************************************************************************)
EXTENDS MCLockedTables, FiniteSetTheorems, TLAPS

\* The client has asked for the channel or session s to be deleted.
Deleted(s) == \E d \in Call : request[d].kind = "delete" /\ request[d].sid = s

\* A request that has not come has asked for nothing.
IdleIsBlank ==
    \A c \in Call : stage[c] = "idle" =>
        request[c].kind = "get" /\ request[c].sid = None /\ acts[c] = None

\* The id a request names was minted by one that has been answered.
IdsAreKnown == \A c \in Call : Http!Known(request[c].sid)

\* What a request waits for at each of its gaps between two locks.
Stages ==
    \A c \in Call :
        /\ stage[c] \in {"insert", "prune", "open"} => request[c].kind = "initialize"
        /\ stage[c] = "bind" => request[c].kind = "sse"
        /\ stage[c] \in {"insert", "bind"} => request[c].as # None
        /\ stage[c] \in {"unbind1", "unbind2"} => request[c].kind = "delete" /\ request[c].sid # None
        /\ stage[c] = "subscribe" => request[c].kind = "get"
        /\ stage[c] = "handling" => request[c].kind \in {"post", "message"}
        /\ stage[c] = "binding" =>
              /\ request[c].kind = "message" /\ request[c].sid # None
              /\ request[request[c].sid].kind \in {"initialize", "sse"}

\* The clock a request read is not ahead of the clock.
ClockRead == \A c \in Call : began[c] <= now

\* Sessions and bindings are those of the requests that minted their ids.
SessionsMade ==
    /\ IsFiniteSet(sessions)
    /\ \A e \in sessions :
          /\ request[e.sid].kind = "initialize" /\ e.tenant = request[e.sid].as
          /\ stage[e.sid] \in {"prune", "open", "done"}

ChannelsMade ==
    \A s \in sse : request[s].kind \in {"initialize", "sse"} /\ stage[s] # "idle"

BindingsMade ==
    \A b \in bound : b.tenant = request[b.sid].as /\ stage[b.sid] # "idle"

\* The binding of a legacy channel is there from the answer to its DELETE.
LegacyBound ==
    \A s \in Call : request[s].kind = "sse" /\ stage[s] = "done" /\ answered[s] = "ok" =>
        Deleted(s) \/ \E b \in bound : b.sid = s

IInv ==
    /\ Http!TypeOK
    /\ IdleIsBlank /\ IdsAreKnown /\ Stages /\ ClockRead
    /\ SessionsMade /\ ChannelsMade /\ BindingsMade /\ LegacyBound
    /\ Http!SessionsHaveChannels /\ Http!BoundTenantHolds
-----------------------------------------------------------------------------
\* What is assumed of the constants.
LEMMA SessionConstants ==
  /\ None \notin Call \cup Tenant
  /\ {SessionTtl, Spare, MaxSessions} \subseteq Nat /\ Spare < SessionTtl
  BY SessionsAssumption DEF Http!ConstantsAssumption

\* A set has one cardinality, whichever module counts it.
LEMMA SameCardinality == \A S : Http!Cardinality(S) = Cardinality(S)
  BY DEF Http!Cardinality, Cardinality

\* The tables start empty.
LEMMA InitIInv == Http!Init => IInv
  <1> SUFFICES ASSUME Http!Init PROVE IInv
    OBVIOUS
  <1>1. Http!TypeOK
    BY DEF Http!Init, Http!TypeOK, Http!Job, Http!Kind
  <1>2. IsFiniteSet({})
    BY FS_EmptySet
  <1> QED
    BY <1>1, <1>2 DEF Http!Init, IInv, IdleIsBlank, IdsAreKnown, Http!Known, Stages, ClockRead,
       SessionsMade,
       ChannelsMade, BindingsMade, LegacyBound, Http!SessionsHaveChannels, Http!BoundTenantHolds

\* A request arrives: it names known ids, takes nothing but what it deletes,
\* and is handled as the tenant of the session it names.
LEMMA ArriveIInv ==
  ASSUME IInv, Http!TypeOK', NEW c \in Call, NEW j \in Http!Job, NEW at, Http!Arrive(c, j, at),
         at # "idle",
         Stages',
         now' = now, bound' = bound, sse \subseteq sse',
         sse' \subseteq sse \cup {c}, c \in sse' => j.kind = "sse",
         sessions' \subseteq sessions,
         \A d \in Call : d # c => acts'[d] = acts[d] /\ answered'[d] = answered[d],
         \A d \in Call : began'[d] = began[d] \/ began'[d] = now,
         j.sid # None /\ acts'[c] # None => acts'[c] = request[j.sid].as,
         at = "done" => answered'[c] # "ok"
  PROVE  IInv'
  <1>1. /\ stage[c] = "idle" /\ stage'[c] = at /\ request'[c] = j /\ Http!Known(j.sid)
        /\ \A d \in Call : d # c => stage'[d] = stage[d] /\ request'[d] = request[d]
    BY DEF Http!Arrive, IInv, Http!TypeOK
  <1>2. request[c].kind = "get"
    BY <1>1 DEF IInv, IdleIsBlank
  <1>3. j.sid \in Call \cup {None} /\ j.sid # c
    BY <1>1, SessionConstants DEF Http!Job, Http!Known
  <1>4. \A d \in Call : request[d].sid \in Call \cup {None} /\ request[d].sid # c
    BY <1>1, SessionConstants DEF IInv, Http!TypeOK, Http!Job, IdsAreKnown, Http!Known
  <1>5. IdleIsBlank' /\ IdsAreKnown'
    BY <1>1, <1>3, <1>4 DEF IInv, IdleIsBlank, IdsAreKnown, Http!Known
  <1>6. ClockRead'
    BY DEF IInv, Http!TypeOK, ClockRead
  <1>7. IsFiniteSet(sessions')
    BY FS_Subset DEF IInv, SessionsMade
  <1>8. SessionsMade' /\ ChannelsMade' /\ BindingsMade'
    BY <1>1, <1>7 DEF IInv, Http!TypeOK, SessionsMade, ChannelsMade, BindingsMade
  <1>9. \A s : Deleted(s) => Deleted(s)'
    BY <1>1, <1>2 DEF Deleted
  <1>10. LegacyBound'
    BY <1>1, <1>9 DEF IInv, LegacyBound
  <1>11. Http!SessionsHaveChannels'
    <2> SUFFICES ASSUME NEW e \in sessions', stage'[e.sid] = "done",
                        \A d \in Call : request'[d].sid # e.sid \/ request'[d].kind # "delete"
                 PROVE  e.sid \in sse'
      BY DEF Http!SessionsHaveChannels
    <2>1. e \in sessions /\ e.sid \in Call /\ e.sid # c
      BY <1>1 DEF IInv, Http!TypeOK, SessionsMade
    <2>2. \A d \in Call : request[d].sid # e.sid \/ request[d].kind # "delete"
      BY <1>1, <1>2
    <2> QED
      BY <1>1, <2>1, <2>2 DEF IInv, Http!SessionsHaveChannels
  <1>12. Http!BoundTenantHolds'
    <2> SUFFICES ASSUME NEW d \in Call, NEW s, s = request'[d].sid, s # None,
                        request'[d].kind \in {"post", "message"},
                        acts'[d] # None, acts'[d] # request'[s].as
                 PROVE  /\ request'[d].kind = "message" /\ acts'[d] = request'[d].as
                        /\ request'[s].kind = "initialize" \/ Deleted(s)'
      BY DEF Http!BoundTenantHolds, Deleted
    <2>1. d # c
      BY <1>1, <1>3
    <2>2. request'[d] = request[d] /\ request'[s] = request[s] /\ acts'[d] = acts[d]
      BY <1>1, <1>4, <2>1
    <2>3. /\ request[d].kind = "message" /\ acts[d] = request[d].as
          /\ request[s].kind = "initialize" \/ Deleted(s)
      BY <2>2 DEF IInv, Http!BoundTenantHolds, Deleted
    <2> QED
      BY <1>9, <2>2, <2>3
  <1> QED
    BY <1>5, <1>6, <1>8, <1>10, <1>11, <1>12 DEF IInv

\* A handler goes on after a lock: it answers itself at most, and whom it acts
\* as is the tenant of the id it names, or of its own token if the id is no legacy
\* channel any more.
LEMMA MoveIInv ==
  ASSUME IInv, Http!TypeOK', NEW c \in Call, NEW from, NEW to, Http!Goto(c, from, to),
         from \notin {"idle", "done"}, to # "idle",
         UNCHANGED <<now, began>>,
         Stages', SessionsMade', ChannelsMade', BindingsMade', LegacyBound',
         Http!SessionsHaveChannels',
         \A d \in Call : d # c => acts'[d] = acts[d] /\ answered'[d] = answered[d],
         \/ acts'[c] = acts[c]
         \/ /\ request[c].kind = "message"
            /\ \/ acts'[c] = request[request[c].sid].as
               \/ /\ acts'[c] = request[c].as
                  /\ request[request[c].sid].kind = "initialize" \/ Deleted(request[c].sid)
  PROVE  IInv'
  <1>1. /\ stage[c] = from /\ stage'[c] = to /\ request' = request
        /\ \A d \in Call : d # c => stage'[d] = stage[d]
    BY DEF Http!Goto, IInv, Http!TypeOK
  <1>2. \A d \in Call : request[d].sid \in Call \cup {None} /\ request[d].sid # c
    BY <1>1, SessionConstants DEF IInv, Http!TypeOK, Http!Job, IdsAreKnown, Http!Known
  <1>3. IdleIsBlank' /\ IdsAreKnown' /\ ClockRead'
    BY <1>1, <1>2 DEF IInv, IdleIsBlank, IdsAreKnown, Http!Known, ClockRead
  <1>4. Http!BoundTenantHolds'
    BY <1>1 DEF IInv, Http!BoundTenantHolds, Deleted
  <1> QED
    BY <1>3, <1>4 DEF IInv

\* What a handler leaves alone when it only moves on.
LEMMA TablesKept ==
  ASSUME IInv, NEW c \in Call, NEW from, NEW to, Http!Goto(c, from, to),
         from \notin {"idle", "done"}, to # "idle",
         from = "prune" => to = "open", from = "open" => to = "done"
  PROVE  /\ sessions' = sessions => SessionsMade'
         /\ sse' = sse => ChannelsMade'
         /\ bound' = bound => BindingsMade'
         /\ bound' = bound /\ from # "bind" /\ (\A d \in Call : d # c => answered'[d] = answered[d])
              /\ (to = "done" => request[c].kind # "sse") => LegacyBound'
         /\ sessions' = sessions /\ from # "open" /\ sse \subseteq sse' => Http!SessionsHaveChannels'
  <1>1. /\ stage[c] = from /\ stage'[c] = to /\ request' = request
        /\ \A d \in Call : d # c => stage'[d] = stage[d]
    BY DEF Http!Goto, IInv, Http!TypeOK
  <1>2. SessionsMade /\ \A e \in sessions : e.sid \in Call
    BY DEF IInv, Http!TypeOK
  <1>3. sessions' = sessions => SessionsMade'
    BY <1>1, <1>2 DEF SessionsMade
  <1>4. sse' = sse => ChannelsMade'
    BY <1>1 DEF IInv, Http!TypeOK, ChannelsMade
  <1>5. bound' = bound => BindingsMade'
    BY <1>1 DEF IInv, Http!TypeOK, BindingsMade
  <1>6. bound' = bound /\ from # "bind" /\ (\A d \in Call : d # c => answered'[d] = answered[d])
          /\ (to = "done" => request[c].kind # "sse") => LegacyBound'
    BY <1>1 DEF IInv, LegacyBound, Deleted
  <1>7. sessions' = sessions /\ from # "open" /\ sse \subseteq sse' => Http!SessionsHaveChannels'
    BY <1>1, <1>2 DEF IInv, Http!SessionsHaveChannels, SessionsMade
  <1> QED
    BY <1>3, <1>4, <1>5, <1>6, <1>7

\* insert_session, the first half: whoever is kept was there, and the new
\* session is the request's own.
LEMMA InsertIInv ==
  ASSUME IInv, NEW c \in Call, Http!InsertSession(c)
  PROVE  IInv'
  <1> DEFINE new == [sid |-> c, at |-> began[c], tenant |-> request[c].as]
  <1>1. /\ Http!Goto(c, "insert", "prune")
        /\ sessions' = Http!Kept(c) \cup {new}
        /\ UNCHANGED <<now, sse, bound, began, acts, answered>>
    BY DEF Http!InsertSession
  <1>2. /\ stage[c] = "insert" /\ stage'[c] = "prune" /\ request' = request
        /\ \A d \in Call : d # c => stage'[d] = stage[d]
        /\ stage' = [stage EXCEPT ![c] = "prune"]
    BY <1>1 DEF Http!Goto, IInv, Http!TypeOK
  <1>3. Http!Kept(c) \subseteq sessions
    BY DEF Http!Kept, Http!Young
  <1>4. request[c].kind = "initialize" /\ request[c].as \in Tenant
    BY <1>2 DEF IInv, Http!TypeOK, Stages, Http!Job
  <1>5. \A e \in sessions : e.sid # c
    BY <1>2 DEF IInv, SessionsMade
  <1>6. new \in [sid : Call, at : Nat, tenant : Tenant] /\ new.sid = c /\ new.tenant = request[c].as
    BY <1>4 DEF IInv, Http!TypeOK
  <1>7. IsFiniteSet(Http!Kept(c) \cup {new})
    BY <1>3, FS_Subset, FS_AddElement DEF IInv, SessionsMade
  <1> HIDE DEF new
  <1>8. Http!TypeOK'
    BY <1>1, <1>2, <1>3, <1>5, <1>6 DEF IInv, Http!TypeOK
  <1>9. Stages'
    BY <1>2 DEF IInv, Stages
  <1>10. SessionsMade'
    <2>1. \A e \in sessions : e.sid \in Call
      BY DEF IInv, Http!TypeOK
    <2> QED
      BY <1>1, <1>2, <1>3, <1>4, <1>6, <1>7, <2>1 DEF IInv, SessionsMade
  <1>11. Http!SessionsHaveChannels'
    BY <1>1, <1>2, <1>3, <1>6 DEF IInv, Http!TypeOK, Http!SessionsHaveChannels
  <1> QED
    BY <1>1, <1>4, <1>8, <1>9, <1>10, <1>11, TablesKept, MoveIInv

\* An arrival is at a stage that fits what is asked for.
LEMMA ArriveStages ==
  ASSUME IInv, NEW c \in Call, NEW j \in Http!Job,
         NEW at \in {"insert", "subscribe", "unbind1", "bind", "binding", "handling", "done"},
         Http!Arrive(c, j, at),
         at = "insert" => j.kind = "initialize" /\ j.as # None,
         at = "bind" => j.kind = "sse" /\ j.as # None,
         at = "unbind1" => j.kind = "delete" /\ j.sid # None,
         at = "subscribe" => j.kind = "get",
         at = "handling" => j.kind = "post",
         at = "binding" => j.kind = "message" /\ j.sid \in sse
  PROVE  /\ Stages'
         /\ stage' \in [Call -> {"idle", "insert", "prune", "open", "subscribe", "unbind1",
                             "unbind2", "bind", "binding", "handling", "done"}]
         /\ request' \in [Call -> Http!Job]
  <1>1. /\ stage[c] = "idle" /\ stage'[c] = at /\ request'[c] = j /\ Http!Known(j.sid)
        /\ \A d \in Call : d # c => stage'[d] = stage[d] /\ request'[d] = request[d]
    BY DEF Http!Arrive, IInv, Http!TypeOK
  <1>2. \A d \in Call : request[d].sid \in Call \cup {None} /\ request[d].sid # c
    BY <1>1, SessionConstants DEF IInv, Http!TypeOK, Http!Job, IdsAreKnown, Http!Known
  <1>3. j.sid \in Call \cup {None} /\ j.sid # c
    BY <1>1, SessionConstants DEF Http!Job, Http!Known
  <1>4. at = "binding" => j.sid # None /\ request[j.sid].kind \in {"initialize", "sse"}
    BY SessionConstants DEF IInv, Http!TypeOK, ChannelsMade
  <1>5. Stages'
    BY <1>1, <1>2, <1>3, <1>4 DEF IInv, Stages
  <1> QED
    BY <1>5 DEF Http!Arrive, IInv, Http!TypeOK

\* Every arrival keeps the invariant.
LEMMA ArrivalIInv ==
  ASSUME IInv, NEW c \in Call, NEW j \in Http!Job,
         \/ Http!Refused(c, j) \/ Http!Initialize(c, j) \/ Http!Post(c, j) \/ Http!Get(c, j)
         \/ Http!Delete(c, j) \/ Http!LegacySse(c, j) \/ Http!Message(c, j)
  PROVE  IInv'
  <1> USE DEF Http!Tables, Http!Ends
  <1>1. stage[c] = "idle" /\ acts[c] = None
    BY DEF Http!Refused, Http!Initialize, Http!Post, Http!Get, Http!Delete, Http!LegacySse,
       Http!Message, Http!Arrive, IInv, IdleIsBlank
  <1>2. CASE Http!Refused(c, j)
    <2>1. /\ Http!Arrive(c, j, "done") /\ answered' = [answered EXCEPT ![c] = "refused"]
          /\ UNCHANGED <<now, sessions, sse, bound, began, acts>>
      BY <1>2 DEF Http!Refused
    <2>2. Http!TypeOK' /\ Stages'
      BY <2>1, ArriveStages DEF IInv, Http!TypeOK
    <2>3. answered'[c] = "refused" /\ \A d \in Call : d # c => answered'[d] = answered[d]
      BY <2>1 DEF IInv, Http!TypeOK
    <2> QED
      BY <1>1, <2>1, <2>2, <2>3, ArriveIInv DEF IInv, Http!TypeOK, ChannelsMade
  <1>3. CASE Http!Initialize(c, j)
    <2>1. /\ j.kind = "initialize" /\ j.as # None /\ Http!Arrive(c, j, "insert")
          /\ began' = [began EXCEPT ![c] = now]
          /\ UNCHANGED <<now, sessions, sse, bound, acts, answered>>
      BY <1>3 DEF Http!Initialize
    <2>2. Http!TypeOK' /\ Stages'
      BY <2>1, ArriveStages DEF IInv, Http!TypeOK
    <2>3. \A d \in Call : began'[d] = began[d] \/ began'[d] = now
      BY <2>1 DEF IInv, Http!TypeOK
    <2> QED
      BY <1>1, <2>1, <2>2, <2>3, ArriveIInv DEF IInv, Http!TypeOK, ChannelsMade
  <1>4. CASE Http!Post(c, j)
    <2>1. /\ j.kind = "post" /\ Http!Arrive(c, j, "handling")
          /\ UNCHANGED <<now, sessions, sse, bound, began, answered>>
      BY <1>4 DEF Http!Post
    <2>2. \/ j.sid = None /\ j.as # None /\ acts' = [acts EXCEPT ![c] = j.as]
          \/ \E e \in sessions : e.sid = j.sid /\ acts' = [acts EXCEPT ![c] = e.tenant]
      BY <1>4 DEF Http!Post
    <2>3. \E who \in Tenant : /\ acts' = [acts EXCEPT ![c] = who]
                              /\ j.sid # None => who = request[j.sid].as
      <3>1. j.as \in Tenant \cup {None}
        BY DEF Http!Job
      <3>2. \A e \in sessions : e.tenant \in Tenant /\ e.tenant = request[e.sid].as
        BY DEF IInv, Http!TypeOK, SessionsMade
      <3> QED
        BY <2>2, <3>1, <3>2
    <2>4. acts \in [Call -> Tenant \cup {None}]
      BY DEF IInv, Http!TypeOK
    <2>5. /\ acts' \in [Call -> Tenant \cup {None}]
          /\ j.sid # None => acts'[c] = request[j.sid].as
          /\ \A d \in Call : d # c => acts'[d] = acts[d]
      <3>1. PICK who \in Tenant : /\ acts' = [acts EXCEPT ![c] = who]
                                  /\ j.sid # None => who = request[j.sid].as
        BY <2>3
      <3>2. acts'[c] = who /\ \A d \in Call : d # c => acts'[d] = acts[d]
        BY <2>4, <3>1
      <3>3. acts' \in [Call -> Tenant \cup {None}]
        BY <2>4, <3>1
      <3> QED
        BY <3>1, <3>2, <3>3
    <2>6. Stages' /\ Http!TypeOK'
      BY <2>1, <2>5, ArriveStages DEF IInv, Http!TypeOK
    <2> QED
      BY <1>1, <2>1, <2>5, <2>6, ArriveIInv DEF IInv, Http!TypeOK, ChannelsMade
  <1>5. CASE Http!Get(c, j) \/ Http!Message(c, j)
    <2>1. /\ \/ j.kind = "get" /\ Http!Arrive(c, j, "subscribe")
             \/ j.kind = "message" /\ j.sid \in sse /\ Http!Arrive(c, j, "binding")
          /\ UNCHANGED <<now, sessions, sse, bound, began, acts, answered>>
      BY <1>5 DEF Http!Get, Http!Message
    <2>2. Http!TypeOK' /\ Stages'
      BY <2>1, ArriveStages DEF IInv, Http!TypeOK
    <2> QED
      BY <1>1, <2>1, <2>2, ArriveIInv DEF IInv, Http!TypeOK, ChannelsMade
  <1>6. CASE Http!Delete(c, j)
    <2>1. /\ j.kind = "delete" /\ j.sid # None /\ Http!Arrive(c, j, "unbind1")
          /\ sessions' = {e \in sessions : e.sid # j.sid}
          /\ UNCHANGED <<now, sse, bound, began, acts, answered>>
      BY <1>6 DEF Http!Delete
    <2>2. Http!TypeOK' /\ Stages'
      BY <2>1, ArriveStages DEF IInv, Http!TypeOK
    <2> QED
      BY <1>1, <2>1, <2>2, ArriveIInv DEF IInv, Http!TypeOK, ChannelsMade
  <1>7. CASE Http!LegacySse(c, j)
    <2>1. /\ j.kind = "sse" /\ j.as # None /\ Http!Arrive(c, j, "bind")
          /\ sse' = sse \cup {c}
          /\ UNCHANGED <<now, sessions, bound, began, acts, answered>>
      BY <1>7 DEF Http!LegacySse
    <2>2. Http!TypeOK' /\ Stages'
      BY <2>1, ArriveStages DEF IInv, Http!TypeOK
    <2> QED
      BY <1>1, <2>1, <2>2, ArriveIInv
  <1> QED
    BY <1>2, <1>3, <1>4, <1>5, <1>6, <1>7

\* Every handler keeps it between its locks.
LEMMA HandlerIInv ==
  ASSUME IInv, NEW c \in Call,
         \/ Http!InsertSession(c) \/ Http!Prune(c) \/ Http!OpenChannel(c) \/ Http!Subscribe(c)
         \/ Http!DropChannel(c) \/ Http!DropBinding(c) \/ Http!Bind(c)
         \/ Http!LookUpBinding(c) \/ Http!Answer(c)
  PROVE  IInv'
  <1> USE DEF Http!Tables, Http!Ends
  <1>1. ASSUME NEW to, NEW from \in {"insert", "prune", "open", "subscribe", "unbind1", "unbind2",
                                    "bind", "binding", "handling"},
               Http!Goto(c, from, to), to \in {"open", "done", "unbind2", "handling"},
               to = "open" => from = "prune", to = "unbind2" => from = "unbind1",
               to = "handling" => from = "binding"
        PROVE  /\ Stages' /\ request' = request /\ stage[c] = from /\ stage'[c] = to
               /\ \A d \in Call : d # c => stage'[d] = stage[d]
               /\ stage' \in [Call -> {"idle", "insert", "prune", "open", "subscribe", "unbind1",
                                   "unbind2", "bind", "binding", "handling", "done"}]
    <2>1. /\ stage[c] = from /\ stage'[c] = to /\ request' = request
          /\ \A d \in Call : d # c => stage'[d] = stage[d]
      BY <1>1 DEF Http!Goto, IInv, Http!TypeOK
    <2>2. Stages'
      BY <1>1, <2>1 DEF IInv, Stages
    <2> QED
      BY <1>1, <2>1, <2>2 DEF Http!Goto, IInv, Http!TypeOK
  <1>2. CASE Http!InsertSession(c)
    BY <1>2, InsertIInv
  <1>3. CASE Http!Prune(c)
    <2>1. /\ Http!Goto(c, "prune", "open") /\ sse' = {s \in sse : Http!HasSession(s)}
          /\ UNCHANGED <<now, sessions, bound, began, acts, answered>>
      BY <1>3 DEF Http!Prune
    <2>2. /\ Stages' /\ request' = request /\ stage[c] = "prune" /\ stage'[c] = "open"
          /\ Http!TypeOK'
          /\ \A d \in Call : d # c => stage'[d] = stage[d]
      BY <1>1, <2>1 DEF IInv, Http!TypeOK
    <2>3. ChannelsMade'
      BY <2>1, <2>2 DEF IInv, Http!TypeOK, ChannelsMade
    <2>4. Http!SessionsHaveChannels'
      BY <2>1, <2>2 DEF IInv, Http!TypeOK, Http!SessionsHaveChannels, Http!HasSession
    <2> QED
      BY <2>1, <2>2, <2>3, <2>4, TablesKept, MoveIInv
  <1>4. CASE Http!OpenChannel(c)
    <2>1. /\ Http!Goto(c, "open", "done") /\ answered' = [answered EXCEPT ![c] = "ok"]
          /\ sse' = sse \cup {c}
          /\ UNCHANGED <<now, sessions, bound, began, acts>>
      BY <1>4 DEF Http!OpenChannel
    <2>2. /\ Stages' /\ request' = request /\ stage[c] = "open" /\ stage'[c] = "done"
          /\ Http!TypeOK'
          /\ \A d \in Call : d # c => stage'[d] = stage[d] /\ answered'[d] = answered[d]
      BY <1>1, <2>1 DEF IInv, Http!TypeOK
    <2>3. request[c].kind = "initialize"
      BY <2>2 DEF IInv, Stages
    <2>4. ChannelsMade'
      BY <2>1, <2>2, <2>3 DEF IInv, Http!TypeOK, ChannelsMade
    <2>5. Http!SessionsHaveChannels'
      BY <2>1, <2>2 DEF IInv, Http!TypeOK, Http!SessionsHaveChannels
    <2> QED
      BY <2>1, <2>2, <2>3, <2>4, <2>5, TablesKept, MoveIInv
  <1>5. CASE Http!Subscribe(c) \/ Http!Answer(c)
    <2>1. /\ \/ Http!Goto(c, "subscribe", "done")
             \/ Http!Goto(c, "handling", "done")
          /\ \E how \in {"ok", "refused", "lost"} : answered' = [answered EXCEPT ![c] = how]
          /\ UNCHANGED <<now, sessions, sse, bound, began, acts>>
      BY <1>5 DEF Http!Subscribe, Http!Answer
    <2>2. /\ Stages' /\ request' = request /\ stage[c] \in {"subscribe", "handling"} /\ stage'[c] = "done"
          /\ Http!TypeOK'
          /\ \A d \in Call : d # c => stage'[d] = stage[d] /\ answered'[d] = answered[d]
      BY <1>1, <2>1 DEF IInv, Http!TypeOK
    <2>3. request[c].kind # "sse"
      BY <2>2 DEF IInv, Stages
    <2> QED
      BY <2>1, <2>2, <2>3, TablesKept, MoveIInv
  <1>6. CASE Http!DropChannel(c)
    <2>1. /\ Http!Goto(c, "unbind1", "unbind2") /\ sse' = sse \ {request[c].sid}
          /\ UNCHANGED <<now, sessions, bound, began, acts, answered>>
      BY <1>6 DEF Http!DropChannel
    <2>2. /\ Stages' /\ request' = request /\ stage[c] = "unbind1" /\ stage'[c] = "unbind2"
          /\ Http!TypeOK'
          /\ \A d \in Call : d # c => stage'[d] = stage[d]
      BY <1>1, <2>1 DEF IInv, Http!TypeOK
    <2>3. request[c].kind = "delete"
      BY <2>2 DEF IInv, Stages
    <2>4. ChannelsMade'
      BY <2>1, <2>2 DEF IInv, Http!TypeOK, ChannelsMade
    <2>5. Http!SessionsHaveChannels'
      BY <2>1, <2>2, <2>3 DEF IInv, Http!TypeOK, Http!SessionsHaveChannels, SessionsMade
    <2> QED
      BY <2>1, <2>2, <2>4, <2>5, TablesKept, MoveIInv
  <1>7. CASE Http!DropBinding(c)
    <2>1. /\ Http!Goto(c, "unbind2", "done") /\ answered' = [answered EXCEPT ![c] = "ok"]
          /\ bound' = {b \in bound : b.sid # request[c].sid}
          /\ UNCHANGED <<now, sessions, sse, began, acts>>
      BY <1>7 DEF Http!DropBinding
    <2>2. /\ Stages' /\ request' = request /\ stage[c] = "unbind2" /\ stage'[c] = "done"
          /\ Http!TypeOK'
          /\ \A d \in Call : d # c => stage'[d] = stage[d] /\ answered'[d] = answered[d]
      BY <1>1, <2>1 DEF IInv, Http!TypeOK
    <2>3. request[c].kind = "delete"
      BY <2>2 DEF IInv, Stages
    <2>4. BindingsMade'
      BY <2>1, <2>2 DEF IInv, Http!TypeOK, BindingsMade
    <2>5. LegacyBound'
      BY <2>1, <2>2, <2>3 DEF IInv, LegacyBound, Deleted
    <2> QED
      BY <2>1, <2>2, <2>4, <2>5, TablesKept, MoveIInv
  <1>8. CASE Http!Bind(c)
    <2>1. /\ Http!Goto(c, "bind", "done") /\ answered' = [answered EXCEPT ![c] = "ok"]
          /\ bound' = bound \cup {[sid |-> c, tenant |-> request[c].as]}
          /\ UNCHANGED <<now, sessions, sse, began, acts>>
      BY <1>8 DEF Http!Bind
    <2>2. /\ Stages' /\ request' = request /\ stage[c] = "bind" /\ stage'[c] = "done"
          /\ \A d \in Call : d # c => stage'[d] = stage[d] /\ answered'[d] = answered[d]
      BY <1>1, <2>1 DEF IInv, Http!TypeOK
    <2>3. request[c].as \in Tenant
      BY <2>2 DEF IInv, Http!TypeOK, Stages, Http!Job
    <2>4. Http!TypeOK'
      BY <1>1, <2>1, <2>2, <2>3 DEF IInv, Http!TypeOK
    <2>5. BindingsMade'
      BY <2>1, <2>2 DEF IInv, Http!TypeOK, BindingsMade
    <2>6. bound \subseteq bound' /\ \E b \in bound' : b.sid = c
      <3>1. [sid |-> c, tenant |-> request[c].as].sid = c
        OBVIOUS
      <3>2. bound \subseteq bound' /\ [sid |-> c, tenant |-> request[c].as] \in bound'
        BY <2>1
      <3> QED
        BY <3>1, <3>2
    <2>7. LegacyBound'
      BY <2>2, <2>6 DEF IInv, LegacyBound, Deleted
    <2> QED
      BY <2>1, <2>2, <2>4, <2>5, <2>7, TablesKept, MoveIInv
  <1>9. CASE Http!LookUpBinding(c)
    <2>1. /\ \/ Http!Goto(c, "binding", "done") \/ Http!Goto(c, "binding", "handling")
          /\ acts' = [acts EXCEPT ![c] = Http!Caller(c)]
          /\ answered' = answered \/ answered' = [answered EXCEPT ![c] = "refused"]
          /\ UNCHANGED <<now, sessions, sse, bound, began>>
      BY <1>9 DEF Http!LookUpBinding
    <2>2. /\ Stages' /\ request' = request /\ stage[c] = "binding"
          /\ \A d \in Call : d # c => stage'[d] = stage[d]
      BY <1>1, <2>1
    <2>3. /\ request[c].kind = "message" /\ request[c].sid # None
          /\ request[request[c].sid].kind \in {"initialize", "sse"}
          /\ request[c].sid \in Call /\ stage[request[c].sid] = "done" /\ answered[request[c].sid] = "ok"
      BY <2>2 DEF IInv, Http!TypeOK, Http!Job, Stages, IdsAreKnown, Http!Known
    <2>4. \/ Http!Caller(c) = request[request[c].sid].as
          \/ Http!Caller(c) = request[c].as /\ ~ \E b \in bound : b.sid = request[c].sid
      BY DEF Http!Caller, IInv, Http!TypeOK, BindingsMade
    <2>5. Http!Caller(c) \in Tenant \cup {None}
      BY <2>3, <2>4 DEF Http!Caller, IInv, Http!TypeOK, Http!Job
    <2>6. Http!TypeOK'
      BY <1>1, <2>1, <2>2, <2>5 DEF IInv, Http!TypeOK
    <2>7. \/ Http!Caller(c) = request[request[c].sid].as
          \/ /\ Http!Caller(c) = request[c].as
             /\ request[request[c].sid].kind = "initialize" \/ Deleted(request[c].sid)
      BY <2>3, <2>4 DEF IInv, LegacyBound
    <2>8. acts'[c] = Http!Caller(c)
          /\ \A d \in Call : d # c => acts'[d] = acts[d] /\ answered'[d] = answered[d]
      BY <2>1 DEF IInv, Http!TypeOK
    <2> QED
      BY <2>1, <2>2, <2>3, <2>6, <2>7, <2>8, TablesKept, MoveIInv
  <1> QED
    BY <1>2, <1>3, <1>4, <1>5, <1>6, <1>7, <1>8, <1>9

\* Every step of every handler and of the clock keeps the invariant.
LEMMA StepIInv == IInv /\ [Http!Next]_(Http!vars) => IInv'
  <1> SUFFICES ASSUME IInv, [Http!Next]_(Http!vars) PROVE IInv'
    OBVIOUS
  <1>1. CASE UNCHANGED Http!vars \/ Http!Tick
    <2>1. UNCHANGED <<sessions, sse, bound, stage, request, acts, answered>>
      BY <1>1 DEF Http!vars, Http!Tick, Http!Tables
    <2>2. Http!TypeOK'
      BY <1>1 DEF Http!vars, Http!Tick, Http!Tables, IInv, Http!TypeOK
    <2>3. ClockRead'
      BY <1>1 DEF Http!vars, Http!Tick, Http!Tables, IInv, Http!TypeOK, ClockRead
    <2> QED
      BY <2>1, <2>2, <2>3 DEF IInv, IdleIsBlank, IdsAreKnown, Http!Known, Stages, SessionsMade,
         ChannelsMade, BindingsMade, LegacyBound, Deleted, Http!SessionsHaveChannels,
         Http!BoundTenantHolds
  <1> QED
    BY <1>1, ArrivalIInv, HandlerIInv DEF Http!Next

\* The invariant holds in every reachable state.
THEOREM Inductive == Http!Spec => []IInv
  BY InitIInv, StepIInv, PTL DEF Http!Spec

\* The tables keep their types: a session id is never in the table twice.
THEOREM TypeCorrect == Http!Spec => []SessionsTypeOK
  BY Inductive, PTL DEF IInv, SessionsTypeOK

\* The pruning of one initialize never takes the channel of another session:
\* a session whose initialize was answered has its channel until its DELETE.
THEOREM ChannelsTheorem == Http!Spec => []SessionsHaveChannels
  BY Inductive, PTL DEF IInv, SessionsHaveChannels

\* Whatever token a later call carries, it is handled as the tenant that
\* opened the session or the channel it names, and where no tenant is bound to
\* that as the tenant of its own token.
THEOREM BoundTenantTheorem == Http!Spec => []BoundTenantHolds
  BY Inductive, PTL DEF IInv, BoundTenantHolds

\* An initialize throws out only what is old by the clock that holds the lock,
\* although it read its own before: an age is never overstated.
LEMMA KeptEnough ==
  ASSUME IInv, NEW c \in Call, NEW e \in sessions, e \notin Http!Kept(c)
  PROVE  \/ now - e.at >= SessionTtl
         \/ now - e.at > Spare /\ Cardinality(sessions) >= MaxSessions
  <1>1. /\ e.at \in Nat /\ now \in Nat /\ began[c] \in Nat /\ began[c] <= now
        /\ SessionTtl \in Nat /\ Spare \in Nat /\ MaxSessions \in Nat /\ Spare < SessionTtl
    BY SessionConstants DEF IInv, Http!TypeOK, ClockRead
  <1>2. \A n \in Nat : Http!Age(c, e) > n \/ (Http!Age(c, e) = n /\ n > 0) => now - e.at >= n
    BY <1>1 DEF Http!Age
  <1>3. Http!Age(c, e) \in Nat /\ (Http!Age(c, e) > Spare => now - e.at > Spare)
    BY <1>1 DEF Http!Age
  <1>4. CASE e \notin Http!Young(c)
    <2>1. Http!Age(c, e) >= SessionTtl
      BY <1>1, <1>3, <1>4 DEF Http!Young
    <2> QED
      BY <1>1, <1>2, <1>3, <2>1
  <1>5. CASE e \in Http!Young(c)
    <2>1. Cardinality(Http!Young(c)) >= MaxSessions /\ ~(Http!Age(c, e) <= Spare)
      BY <1>5, SameCardinality DEF Http!Kept
    <2>2. /\ Cardinality(Http!Young(c)) <= Cardinality(sessions)
          /\ Cardinality(Http!Young(c)) \in Nat /\ Cardinality(sessions) \in Nat
      <3>1. IsFiniteSet(sessions) /\ Http!Young(c) \subseteq sessions
        BY DEF IInv, SessionsMade, Http!Young
      <3> QED
        BY <3>1, FS_Subset, FS_CardinalityType
    <2> QED
      BY <1>1, <1>3, <2>1, <2>2
  <1> QED
    BY <1>4, <1>5

\* No initialize, however stale the clock it read, throws out a young session.
THEOREM YoungSessionsTheorem == Http!Spec => YoungSessionsStay
  <1>1. ASSUME IInv, [Http!Next]_(Http!vars), NEW e \in sessions, e \notin sessions'
        PROVE  \/ \E d \in Call : request'[d].kind = "delete" /\ request'[d].sid = e.sid
               \/ now - e.at >= SessionTtl
               \/ now - e.at > Spare /\ Http!Cardinality(sessions) >= MaxSessions
    <2>1. \/ \E c \in Call : Http!InsertSession(c)
          \/ \E c \in Call, j \in Http!Job : Http!Delete(c, j)
      BY <1>1 DEF Http!vars, Http!Next, Http!Tick, Http!Tables, Http!Refused, Http!Initialize,
         Http!Post, Http!Get, Http!LegacySse, Http!Message,
         Http!Prune, Http!OpenChannel, Http!Subscribe, Http!DropChannel, Http!DropBinding,
         Http!Bind, Http!LookUpBinding, Http!Answer
    <2>2. CASE \E c \in Call : Http!InsertSession(c)
      BY <1>1, <2>2, KeptEnough, SameCardinality DEF Http!InsertSession
    <2>3. CASE \E c \in Call, j \in Http!Job : Http!Delete(c, j)
      <3>1. PICK c \in Call, j \in Http!Job : Http!Delete(c, j)
        BY <2>3
      <3>2. j.kind = "delete" /\ request'[c] = j /\ e.sid = j.sid
        BY <1>1, <3>1 DEF Http!Delete, Http!Arrive, IInv, Http!TypeOK
      <3> QED
        BY <3>2
    <2> QED
      BY <2>1, <2>2, <2>3
  <1>2. IInv /\ [Http!Next]_(Http!vars) =>
          [\A e \in sessions : e \notin sessions' =>
              \/ \E d \in Call : request'[d].kind = "delete" /\ request'[d].sid = e.sid
              \/ now - e.at >= SessionTtl
              \/ now - e.at > Spare /\ Http!Cardinality(sessions) >= MaxSessions]_(Http!vars)
    BY <1>1
  <1> QED
    BY <1>2, Inductive, PTL DEF Http!Spec, YoungSessionsStay, Http!YoungSessionsStay
=============================================================================
