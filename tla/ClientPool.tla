------------------------------ MODULE ClientPool ------------------------------
(***************************************************************************)
(* The clients of the configured instances: SapPool::get of                *)
(* src/sap_client.rs, which looks and inserts under two locks, and         *)
(* client_for of src/handler.rs, which makes a client of its own for a     *)
(* call that brings credentials. A client holds the CSRF and access tokens *)
(* of its instance, so how many there are decides how often SAP is asked   *)
(* for them. A client is known by the call that made it.                   *)
(***************************************************************************)
EXTENDS Naturals

CONSTANTS Call,      \* calls of client_for
          Instance,  \* configured instances
          Unknown    \* a name that is not configured

VARIABLES
    pool,      \* the clients: a function from instances to calls
    inst,      \* the instance each call is admitted for
    override,  \* the calls that bring credentials
    may,       \* those that may: a Full tenant, and the environment allows it
    pc,
    client,    \* the client each call went on with: none or one
    before     \* history: the calls that had their client when each one began

vars == <<pool, inst, override, may, pc, client, before>>

Init ==
    /\ pool = [i \in {} |-> {}]
    /\ inst \in [Call -> Instance \cup {Unknown}]
    /\ override \in SUBSET Call
    /\ may \in SUBSET override
    /\ pc = [c \in Call |-> "idle"]
    /\ client = [c \in Call |-> {}]
    /\ before = [c \in Call |-> {}]

Give(c, d) ==
    /\ client' = [client EXCEPT ![c] = {d}]
    /\ pc' = [pc EXCEPT ![c] = "done"]

Fail(c) ==
    /\ pc' = [pc EXCEPT ![c] = "failed"]
    /\ UNCHANGED client

Begin(c) ==
    /\ pc[c] = "idle"
    /\ before' = [before EXCEPT ![c] = {d \in Call : pc[d] = "done"}]
    /\ UNCHANGED <<inst, override, may>>

\* The first lock of get.
Hit(c) ==
    /\ Begin(c) /\ c \notin override
    /\ inst[c] \in DOMAIN pool
    /\ Give(c, pool[inst[c]])
    /\ UNCHANGED pool

\* Nothing there: a configured instance gets a new client, unless it cannot
\* be made.
Miss(c) ==
    /\ Begin(c) /\ c \notin override
    /\ inst[c] \notin DOMAIN pool
    /\ \/ inst[c] \in Instance /\ pc' = [pc EXCEPT ![c] = "insert"] /\ UNCHANGED client
       \/ Fail(c)
    /\ UNCHANGED pool

\* The second lock of get: the new client replaces what came in between.
Pooled(i, c) == [j \in DOMAIN pool \cup {i} |-> IF j = i THEN c ELSE pool[j]]

Insert(c) ==
    /\ pc[c] = "insert"
    /\ pool' = Pooled(inst[c], c)
    /\ Give(c, c)
    /\ UNCHANGED <<inst, override, may, before>>

\* Wrong variant of OwnPool: a client with a caller's credentials is pooled.
OwnPoolShared(c) == pool' = Pooled(inst[c], c)
OwnPool(c) == UNCHANGED pool

\* Credentials in the arguments: a client for this call alone.
Own(c) ==
    /\ Begin(c) /\ c \in may
    /\ inst[c] \in Instance
    /\ Give(c, c)
    /\ OwnPool(c)

\* Credentials that may not be used, an instance nobody knows, or a client
\* that cannot be made.
Refuse(c) ==
    /\ Begin(c) /\ c \in override
    /\ Fail(c)
    /\ UNCHANGED pool

Next == \E c \in Call : Hit(c) \/ Miss(c) \/ Insert(c) \/ Own(c) \/ Refuse(c)

Spec == Init /\ [][Next]_vars
-----------------------------------------------------------------------------
TypeOK ==
    /\ DOMAIN pool \subseteq Instance
    /\ \A i \in DOMAIN pool : pool[i] \in Call
    /\ pc \in [Call -> {"idle", "insert", "done", "failed"}]
    /\ \A c \in Call : client[c] \subseteq Call /\ (client[c] # {} <=> pc[c] = "done")

\* Two clients of one instance are only made by calls that overlapped: a call
\* that begins after another had its client, whoever made it, makes none.
OneClientButForRaces ==
    \A c, d \in Call \ override :
        d \in before[c] /\ inst[c] = inst[d] => c \notin client[c]

\* A client with the credentials of a call is used by that call alone, and no
\* call is given the client of another instance than its own.
OverrideStaysOwn ==
    \A c \in Call : \A d \in client[c] :
        /\ inst[d] = inst[c]
        /\ d # c => {c, d} \cap override = {}

\* Clients are shared by those who may share them, and made for no one else.
OneClientEach == OneClientButForRaces /\ OverrideStaysOwn
=============================================================================
