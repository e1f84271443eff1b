----------------------------- MODULE OAuthTokens -----------------------------
(***************************************************************************)
(* The OAuth2 access token that the clones of a SapClient share            *)
(* (access_token of src/sap_client.rs): used from the cache until it is    *)
(* due, else fetched. The lock is not held during the fetch, so several    *)
(* tasks may fetch at once and store in any order.                         *)
(***************************************************************************)
EXTENDS Integers, FiniteSetsExt

CONSTANTS Call,      \* calls of access_token
          Skew,      \* the 60 s taken off expires_in, in clock ticks
          Floor,     \* the 60 s a token is cached for at least
          Lifetime,  \* what the provider may say in expires_in
          MaxTime    \* bound on the clock

\* MCSharedTables assumes it.
ConstantsAssumption == {Skew, Floor} \cup Lifetime \subseteq Nat

VARIABLES
    now,
    oauth,  \* the cached token and its deadline: none or one
    pc,
    reply,  \* the token in the response on its way to each call
    used    \* the token each call went on with, and when

vars == <<now, oauth, pc, reply, used>>

\* A token is known by when it was issued and for how long.
Token == [issued : Nat, life : Lifetime]
Expired(k, t) == t >= k.issued + k.life

Init ==
    /\ now = 0
    /\ oauth = {}
    /\ pc = [c \in Call |-> "idle"]
    /\ reply = [c \in Call |-> {}]
    /\ used = [c \in Call |-> {}]

\* A cached token stays in use before its deadline.
Usable == {k \in oauth : now < k.exp}

Use(c, k) ==
    /\ used' = [used EXCEPT ![c] = {[token |-> k.token, stored |-> k.stored, when |-> now]}]
    /\ pc' = [pc EXCEPT ![c] = "done"]

UseCached(c) ==
    /\ pc[c] = "idle"
    /\ \E k \in Usable : Use(c, k)
    /\ UNCHANGED <<now, oauth, reply>>

StartFetch(c) ==
    /\ pc[c] = "idle" /\ Usable = {}
    /\ pc' = [pc EXCEPT ![c] = "fetch"]
    /\ UNCHANGED <<now, oauth, reply, used>>

\* The provider issues a token.
Issue(c, life) ==
    /\ pc[c] = "fetch" /\ reply[c] = {}
    /\ reply' = [reply EXCEPT ![c] = {[issued |-> now, life |-> life]}]
    /\ UNCHANGED <<now, oauth, pc, used>>

\* Wrong variants of CachedFor: nothing saturates; no skew is taken off.
CachedForBare(life) == life - Skew
CachedForAll(life) == Max({life, Floor})

\* ttl.saturating_sub(60).max(60), counted from the arrival of the response.
CachedFor(life) == Max({IF life > Skew THEN life - Skew ELSE 0, Floor})

Store(c) ==
    /\ pc[c] = "fetch"
    /\ \E k \in reply[c] :
          LET e == [token |-> k, stored |-> now, exp |-> now + CachedFor(k.life)]
          IN  oauth' = {e} /\ Use(c, e)
    /\ UNCHANGED <<now, reply>>

\* An error status, no access_token, a timeout.
Fail(c) ==
    /\ pc[c] = "fetch"
    /\ pc' = [pc EXCEPT ![c] = "done"]
    /\ UNCHANGED <<now, oauth, reply, used>>

Tick ==
    /\ now < MaxTime
    /\ now' = now + 1
    /\ UNCHANGED <<oauth, pc, reply, used>>

Next ==
    \/ Tick
    \/ \E c \in Call : UseCached(c) \/ StartFetch(c) \/ Store(c) \/ Fail(c)
    \/ \E c \in Call, life \in Lifetime : Issue(c, life)

Spec == Init /\ [][Next]_vars
-----------------------------------------------------------------------------
TypeOK ==
    /\ now \in Nat
    /\ oauth \subseteq [token : Token, stored : Nat, exp : Nat]
    /\ Cardinality(oauth) <= 1
    /\ pc \in [Call -> {"idle", "fetch", "done"}]
    /\ reply \in [Call -> SUBSET Token]
    /\ used \in [Call -> SUBSET [token : Token, stored : Nat, when : Nat]]

\* No call goes out with an expired token, whichever of several fetches is
\* stored last, as long as the response took no longer than the skew and the
\* provider grants more than the skew and the floor.
ServedWhileValid ==
    \A c \in Call : \A u \in used[c] :
        u.stored - u.token.issued <= Skew /\ u.token.life >= Skew + Floor
        => u.when <= u.stored \/ ~Expired(u.token, u.when)
=============================================================================
