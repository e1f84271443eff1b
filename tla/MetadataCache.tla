---------------------------- MODULE MetadataCache ----------------------------
(***************************************************************************)
(* The $metadata cache of src/cache.rs and its only user, cached_metadata  *)
(* of src/handler.rs: look, and on a miss ask SAP and insert. The look-up  *)
(* and the insert are separate critical sections with an HTTP request in   *)
(* between; nobody waits for another's fetch.                              *)
(***************************************************************************)
EXTENDS Integers, Sequences

CONSTANTS Call,        \* callers of cached_metadata
          Instance, Service,
          Ttl,         \* SAP_MCP_METADATA_CACHE_TTL when it is not 0
          MaxVersions, \* bound on the deployments of a service
          MaxTime      \* bound on the clock

ASSUME ConstantsAssumption == Ttl \in Nat \ {0} /\ MaxVersions \in Nat

VARIABLES
    now,
    ttl,       \* the configured time to live; 0 turns the cache off
    deployed,  \* SAP: when each later version of a service was deployed
    broken,    \* history: when the body of a response broke off
    cache,     \* the entries; `asked' (history) is when their fetch began
    pc, want,  \* where each caller is, and the service it asks about
    asked,     \* when it looked; on a miss its request leaves at once
    reply,     \* the version in the response on its way to it
    got        \* what it was given, from when

vars == <<now, ttl, deployed, broken, cache, pc, want, asked, reply, got>>

Slot == [inst : Instance, service : Service]

\* A body that breaks off is read as empty text, and parses as no entities.
Empty == -1
Document == 0 .. MaxVersions \cup {Empty}

Init ==
    /\ now = 0 /\ ttl \in {0, Ttl}
    /\ deployed = [s \in Slot |-> <<>>] /\ broken = [s \in Slot |-> {}]
    /\ cache = {}
    /\ pc = [c \in Call |-> "idle"]
    /\ want \in [Call -> Slot]
    /\ asked = [c \in Call |-> 0]
    /\ reply = [c \in Call |-> {}]
    /\ got = [c \in Call |-> {}]

\* The version a service is at, and whether it was at v at the instant t.
Version(s) == Len(deployed[s])
Current(s, v, t) ==
    /\ v > 0 => deployed[s][v] <= t
    /\ v < Version(s) => t <= deployed[s][v + 1]

\* The key of an entry is the pair (instance, service).
Slotted(c) == {e \in cache : e.slot = want[c]}

\* Wrong variant of Hits: a tick too long.
HitsOld(c) == {e \in Slotted(c) : ttl > 0 /\ now - e.at <= ttl + 1}

\* get: nothing older than the time to live, and nothing at all when it is 0.
Hits(c) == {e \in Slotted(c) : ttl > 0 /\ now - e.at <= ttl}

Give(c, doc, from, at) ==
    /\ got' = [got EXCEPT ![c] = {[doc |-> doc, from |-> from, at |-> at, when |-> now]}]
    /\ pc' = [pc EXCEPT ![c] = "done"]

\* HashMap::insert under the key of the entry.
With(e) == {f \in cache : f.slot # e.slot} \cup {e}

Hit(c) ==
    /\ pc[c] = "idle"
    /\ \E e \in Hits(c) : Give(c, e.doc, e.asked, e.at)
    /\ asked' = [asked EXCEPT ![c] = now]
    /\ UNCHANGED <<now, ttl, deployed, broken, cache, want, reply>>

Miss(c) ==
    /\ pc[c] = "idle" /\ Hits(c) = {}
    /\ pc' = [pc EXCEPT ![c] = "fetch"]
    /\ asked' = [asked EXCEPT ![c] = now]
    /\ UNCHANGED <<now, ttl, deployed, broken, cache, want, reply, got>>

\* SAP answers with what it has.
Serve(c) ==
    /\ pc[c] = "fetch" /\ reply[c] = {}
    /\ reply' = [reply EXCEPT ![c] = {Version(want[c])}]
    /\ UNCHANGED <<now, ttl, deployed, broken, cache, pc, want, asked, got>>

\* The connection breaks in the body of a response: unwrap_or_default.
BreakOff(c) ==
    /\ pc[c] = "fetch" /\ reply[c] = {}
    /\ reply' = [reply EXCEPT ![c] = {Empty}]
    /\ broken' = [broken EXCEPT ![want[c]] = @ \cup {now}]
    /\ UNCHANGED <<now, ttl, deployed, cache, pc, want, asked, got>>

\* insert, whatever has been inserted since the miss.
Insert(c) ==
    /\ pc[c] = "fetch"
    /\ \E doc \in reply[c] :
          /\ cache' = IF ttl = 0 THEN cache
                      ELSE With([slot |-> want[c], doc |-> doc, at |-> now, asked |-> asked[c]])
          /\ Give(c, doc, asked[c], now)
    /\ UNCHANGED <<now, ttl, deployed, broken, want, asked, reply>>

\* Wrong variant of Fail: the body of an error is parsed like any other.
FailCaching(c) ==
    /\ pc[c] = "fetch"
    /\ cache' = IF ttl = 0 THEN cache
                ELSE With([slot |-> want[c], doc |-> Empty, at |-> now, asked |-> asked[c]])
    /\ Give(c, Empty, asked[c], now)
    /\ UNCHANGED <<now, ttl, deployed, broken, want, asked, reply>>

\* An error status, a timeout: nothing is cached.
Fail(c) ==
    /\ pc[c] = "fetch"
    /\ pc' = [pc EXCEPT ![c] = "done"]
    /\ UNCHANGED <<now, ttl, deployed, broken, cache, want, asked, reply, got>>

Deploy(s) ==
    /\ Version(s) < MaxVersions
    /\ deployed' = [deployed EXCEPT ![s] = Append(@, now)]
    /\ UNCHANGED <<now, ttl, broken, cache, pc, want, asked, reply, got>>

Tick ==
    /\ now < MaxTime
    /\ now' = now + 1
    /\ UNCHANGED <<ttl, deployed, broken, cache, pc, want, asked, reply, got>>

Next ==
    \/ Tick
    \/ \E s \in Slot : Deploy(s)
    \/ \E c \in Call : Hit(c) \/ Miss(c) \/ Serve(c) \/ BreakOff(c) \/ Insert(c) \/ Fail(c)

Spec == Init /\ [][Next]_vars
-----------------------------------------------------------------------------
\* The cache is a map keyed by (instance, service).
TypeOK ==
    /\ now \in Nat /\ ttl \in {0, Ttl}
    /\ deployed \in [Slot -> Seq(Nat)] /\ broken \in [Slot -> SUBSET Nat]
    /\ cache \subseteq [slot : Slot, doc : Document, at : Nat, asked : Nat]
    /\ \A e, f \in cache : e.slot = f.slot => e = f
    /\ pc \in [Call -> {"idle", "fetch", "done"}]
    /\ want \in [Call -> Slot]
    /\ asked \in [Call -> Nat]
    /\ reply \in [Call -> SUBSET Document]
    /\ got \in [Call -> SUBSET [doc : Document, from : Nat, at : Nat, when : Nat]]

\* Whoever else fetches, deploys or overwrites: what a caller is given was
\* what SAP said of that very service at some instant of the fetch that
\* brought it, and that fetch ended at most one time to live ago. It is told of
\* no entities at all only if the body of a response broke off in that fetch.
StalenessBounded ==
    \A c \in Call : \A g \in got[c] :
        /\ g.when - g.at <= ttl
        /\ \E t \in g.from .. g.at :
              IF g.doc = Empty THEN t \in broken[want[c]] ELSE Current(want[c], g.doc, t)
=============================================================================
