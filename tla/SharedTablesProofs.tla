-------------------------- MODULE SharedTablesProofs --------------------------
(***************************************************************************)
(* What the shared tables guarantee for any number of calls, keys,         *)
(* instances and services, and for any times to live and budgets: the pool *)
(* of clients, the access token, the $metadata cache and the rate limiter, *)
(* each from the specification of its own module.                          *)
(***************************************************************************)
EXTENDS MCSharedTables, FiniteSetTheorems, SequenceTheorems, TLAPS

\* The pool: its clients are those of calls that are through and brought no
\* credentials.
PoolTypes ==
    /\ inst \in [Call -> Instance \cup {Unknown}]
    /\ override \subseteq Call /\ may \subseteq override
    /\ pc \in [Call -> {"idle", "insert", "done", "failed"}]
    /\ client \in [Call -> SUBSET Call]
    /\ before \in [Call -> SUBSET Call]
    /\ \A c \in Call : client[c] # {} <=> pc[c] = "done"

PooledAreShared ==
    /\ DOMAIN pool \subseteq Instance
    /\ \A i \in DOMAIN pool :
          pool[i] \in Call \ override /\ inst[pool[i]] = i /\ pc[pool[i]] = "done"

\* Who is through without credentials of its own left a client in the pool.
ServedArePooled ==
    \A c \in Call \ override : pc[c] = "done" => inst[c] \in DOMAIN pool

\* Who makes a client for the pool found none when it began.
InsertsAreRaces ==
    \A c \in Call : pc[c] = "insert" =>
        /\ c \notin override /\ inst[c] \in Instance
        /\ \A d \in before[c] \ override : inst[d] # inst[c]

BeforeAreServed == \A c \in Call : \A d \in before[c] : pc[d] = "done"

PoolIInv ==
    /\ PoolTypes /\ PooledAreShared /\ ServedArePooled
    /\ InsertsAreRaces /\ BeforeAreServed
    /\ Pool!OneClientButForRaces /\ Pool!OverrideStaysOwn
-----------------------------------------------------------------------------
\* The pool starts empty.
LEMMA PoolInit == Pool!Init => PoolIInv
  BY DEF Pool!Init, PoolIInv, PoolTypes, PooledAreShared, ServedArePooled, InsertsAreRaces,
     BeforeAreServed, Pool!OneClientButForRaces, Pool!OverrideStaysOwn

\* A call that begins sees who is through.
LEMMA PoolBegin ==
  ASSUME PoolIInv, NEW c \in Call, Pool!Begin(c), PoolTypes', pool' = pool,
         \A d \in Call : d # c => pc'[d] = pc[d] /\ client'[d] = client[d],
         \/ pc'[c] = "failed" /\ client'[c] = {}
         \/ c \notin override /\ inst[c] \in DOMAIN pool /\ client'[c] = {pool[inst[c]]}
         \/ c \notin override /\ inst[c] \notin DOMAIN pool /\ inst[c] \in Instance
              /\ pc'[c] = "insert" /\ client'[c] = {}
         \/ c \in override /\ client'[c] = {c}
  PROVE  PoolIInv'
  <1>1. /\ pc[c] = "idle" /\ before'[c] = {d \in Call : pc[d] = "done"}
        /\ \A d \in Call : d # c => before'[d] = before[d]
        /\ UNCHANGED <<inst, override, may>>
    BY DEF Pool!Begin, PoolIInv, PoolTypes
  <1>2. PooledAreShared'
    BY <1>1 DEF PoolIInv, PooledAreShared
  <1>3. ServedArePooled'
    BY <1>1 DEF PoolIInv, PoolTypes, ServedArePooled
  <1>4. BeforeAreServed'
    BY <1>1 DEF PoolIInv, PoolTypes, BeforeAreServed
  <1>5. InsertsAreRaces'
    BY <1>1 DEF PoolIInv, PoolTypes, InsertsAreRaces, ServedArePooled
  <1>6. Pool!OneClientButForRaces'
    BY <1>1 DEF PoolIInv, PoolTypes, Pool!OneClientButForRaces, PooledAreShared, ServedArePooled
  <1>7. Pool!OverrideStaysOwn'
    BY <1>1 DEF PoolIInv, PoolTypes, Pool!OverrideStaysOwn, PooledAreShared
  <1> QED
    BY <1>2, <1>3, <1>4, <1>5, <1>6, <1>7 DEF PoolIInv

\* The second lock: the new client takes the place of what came in between.
LEMMA PoolInsert ==
  ASSUME PoolIInv, NEW c \in Call, Pool!Insert(c)
  PROVE  PoolIInv'
  <1>1. /\ pc[c] = "insert" /\ pc'[c] = "done" /\ client'[c] = {c}
        /\ \A d \in Call : d # c => pc'[d] = pc[d] /\ client'[d] = client[d]
        /\ UNCHANGED <<inst, override, may, before>>
        /\ pool' = Pool!Pooled(inst[c], c)
    BY DEF Pool!Insert, Pool!Give, PoolIInv, PoolTypes
  <1>2. /\ DOMAIN pool' = DOMAIN pool \cup {inst[c]}
        /\ pool'[inst[c]] = c
        /\ \A i \in DOMAIN pool : i # inst[c] => pool'[i] = pool[i]
    BY <1>1 DEF Pool!Pooled
  <1>3. c \notin override /\ inst[c] \in Instance
        /\ \A d \in before[c] \ override : inst[d] # inst[c]
    BY <1>1 DEF PoolIInv, InsertsAreRaces
  <1>4. PoolTypes'
    BY <1>1 DEF PoolIInv, PoolTypes, Pool!Insert, Pool!Give
  <1>5. PooledAreShared' /\ ServedArePooled'
    BY <1>1, <1>2, <1>3 DEF PoolIInv, PooledAreShared, ServedArePooled
  <1>6. InsertsAreRaces' /\ BeforeAreServed'
    BY <1>1 DEF PoolIInv, PoolTypes, InsertsAreRaces, BeforeAreServed
  <1>7. Pool!OneClientButForRaces'
    BY <1>1, <1>3 DEF PoolIInv, Pool!OneClientButForRaces
  <1>8. Pool!OverrideStaysOwn'
    BY <1>1 DEF PoolIInv, Pool!OverrideStaysOwn
  <1> QED
    BY <1>4, <1>5, <1>6, <1>7, <1>8 DEF PoolIInv

\* Neither the races of two locks nor a caller's own client breaks the pool.
LEMMA PoolStep == PoolIInv /\ [Pool!Next]_(Pool!vars) => PoolIInv'
  <1> SUFFICES ASSUME PoolIInv, [Pool!Next]_(Pool!vars) PROVE PoolIInv'
    OBVIOUS
  <1> USE DEF Pool!Begin, Pool!Give, Pool!Fail, Pool!OwnPool
  <1>1. CASE UNCHANGED Pool!vars
    BY <1>1 DEF Pool!vars, PoolIInv, PoolTypes, PooledAreShared, ServedArePooled,
       InsertsAreRaces, BeforeAreServed, Pool!OneClientButForRaces, Pool!OverrideStaysOwn
  <1>2. ASSUME NEW c \in Call, Pool!Hit(c) \/ Pool!Miss(c) \/ Pool!Own(c) \/ Pool!Refuse(c)
        PROVE  PoolIInv'
    <2>1. /\ pc[c] = "idle" /\ client[c] = {}
          /\ before' = [before EXCEPT ![c] = {d \in Call : pc[d] = "done"}]
          /\ UNCHANGED <<inst, override, may, pool>> /\ Pool!Begin(c)
      BY <1>2 DEF Pool!Hit, Pool!Miss, Pool!Own, Pool!Refuse, PoolIInv, PoolTypes
    <2>2. \/ pc' = [pc EXCEPT ![c] = "failed"] /\ client' = client
          \/ /\ c \notin override /\ inst[c] \in DOMAIN pool
             /\ pc' = [pc EXCEPT ![c] = "done"] /\ client' = [client EXCEPT ![c] = {pool[inst[c]]}]
          \/ /\ c \notin override /\ inst[c] \notin DOMAIN pool /\ inst[c] \in Instance
             /\ pc' = [pc EXCEPT ![c] = "insert"] /\ client' = client
          \/ /\ c \in override
             /\ pc' = [pc EXCEPT ![c] = "done"] /\ client' = [client EXCEPT ![c] = {c}]
      BY <1>2 DEF Pool!Hit, Pool!Miss, Pool!Own, Pool!Refuse, PoolIInv, PoolTypes
    <2>3. inst[c] \in DOMAIN pool => pool[inst[c]] \in Call
      BY DEF PoolIInv, PooledAreShared
    <2>4. PoolTypes'
      BY <2>1, <2>2, <2>3 DEF PoolIInv, PoolTypes
    <2>5. /\ \A d \in Call : d # c => pc'[d] = pc[d] /\ client'[d] = client[d]
          /\ \/ pc'[c] = "failed" /\ client'[c] = {}
             \/ c \notin override /\ inst[c] \in DOMAIN pool /\ client'[c] = {pool[inst[c]]}
             \/ c \notin override /\ inst[c] \notin DOMAIN pool /\ inst[c] \in Instance
                  /\ pc'[c] = "insert" /\ client'[c] = {}
             \/ c \in override /\ client'[c] = {c}
      BY <2>1, <2>2, <2>3 DEF PoolIInv, PoolTypes
    <2> QED
      BY <2>1, <2>4, <2>5, PoolBegin
  <1> QED
    BY <1>1, <1>2, PoolInsert DEF Pool!Next

\* Clients are shared but for races, and own ones are not (ClientPool).
LEMMA PoolPromise == PoolIInv => OneClientEach
  BY DEF PoolIInv, OneClientEach, Pool!OneClientEach

\* Of calls that did not overlap only the first makes a client for the pool;
\* a client made with credentials of a call serves that call alone.
THEOREM OneClientTheorem == Pool!Spec => []OneClientEach
  BY PoolInit, PoolStep, PoolPromise, PTL DEF Pool!Spec
-----------------------------------------------------------------------------
\* The access token: what is cached is due when its lifetime less the skew, or
\* the floor, is over; what a call went on with was not due or had just come.
TokenTypes ==
    /\ now \in Nat
    /\ oauth \in SUBSET [token : Tokens!Token, stored : Nat, exp : Nat]
    /\ pc \in [Call -> {"idle", "fetch", "done"}]
    /\ reply \in [Call -> SUBSET Tokens!Token]
    /\ used \in [Call -> SUBSET [token : Tokens!Token, stored : Nat, when : Nat]]

CachedUntilDue == \A k \in oauth : k.exp = k.stored + Tokens!CachedFor(k.token.life)

OneCached == oauth = {} \/ \E k \in oauth : oauth = {k}

UsedInTime ==
    \A c \in Call : \A u \in used[c] :
        u.when = u.stored \/ u.when < u.stored + Tokens!CachedFor(u.token.life)

TokenIInv == TokenTypes /\ OneCached /\ CachedUntilDue /\ UsedInTime

\* The greater of two naturals is one of them and bounds both.
LEMMA MaxOfTwo ==
  ASSUME NEW a \in Nat, NEW b \in Nat
  PROVE  /\ Tokens!Max({a, b}) \in {a, b}
         /\ Tokens!Max({a, b}) >= a /\ Tokens!Max({a, b}) >= b
  <1>1. \E x \in {a, b} : \A y \in {a, b} : x >= y
    <2>1. CASE a >= b
      BY <2>1
    <2>2. CASE b >= a
      BY <2>2
    <2> QED
      BY <2>1, <2>2
  <1> QED
    BY <1>1 DEF Tokens!Max

\* A token is cached for the floor at least, and for all but the skew of a
\* lifetime that is longer than both.
LEMMA CachedForFacts ==
  ASSUME NEW life \in Lifetime
  PROVE  /\ life \in Nat /\ Skew \in Nat /\ Floor \in Nat
         /\ Tokens!CachedFor(life) \in Nat
         /\ life >= Skew + Floor => Tokens!CachedFor(life) = life - Skew
  <1>1. life \in Nat /\ Skew \in Nat /\ Floor \in Nat
    BY TokensAssumption DEF Tokens!ConstantsAssumption
  <1> DEFINE most == IF life > Skew THEN life - Skew ELSE 0
  <1>2. most \in Nat
    BY <1>1
  <1>3. Tokens!CachedFor(life) = Tokens!Max({most, Floor})
    BY DEF Tokens!CachedFor
  <1>4. life >= Skew + Floor => most >= Floor /\ most = life - Skew
    BY <1>1
  <1> HIDE DEF most
  <1> QED
    BY <1>1, <1>2, <1>3, <1>4, MaxOfTwo

\* Going on with an entry that is not due yet, or that has just come.
LEMMA TokenUse ==
  ASSUME TokenIInv, NEW c \in Call, NEW k, Tokens!Use(c, k),
         k \in [token : Tokens!Token, stored : Nat, exp : Nat],
         now = k.stored \/ now < k.stored + Tokens!CachedFor(k.token.life)
  PROVE  /\ used' \in [Call -> SUBSET [token : Tokens!Token, stored : Nat, when : Nat]]
         /\ pc' \in [Call -> {"idle", "fetch", "done"}]
         /\ UsedInTime'
  <1> DEFINE u == [token |-> k.token, stored |-> k.stored, when |-> now]
  <1>1. used' = [used EXCEPT ![c] = {u}] /\ pc' = [pc EXCEPT ![c] = "done"]
    BY DEF Tokens!Use
  <1>2. /\ u \in [token : Tokens!Token, stored : Nat, when : Nat]
        /\ u.token = k.token /\ u.stored = k.stored /\ u.when = now
    BY DEF TokenIInv, TokenTypes
  <1> HIDE DEF u
  <1>3. /\ used'[c] = {u} /\ \A d \in Call : d # c => used'[d] = used[d]
        /\ used' \in [Call -> SUBSET [token : Tokens!Token, stored : Nat, when : Nat]]
        /\ pc' \in [Call -> {"idle", "fetch", "done"}]
    BY <1>1, <1>2 DEF TokenIInv, TokenTypes
  <1> QED
    BY <1>2, <1>3 DEF TokenIInv, UsedInTime

\* Whichever fetch is stored last, an entry says when it expires.
LEMMA TokenStep == TokenIInv /\ [Tokens!Next]_(Tokens!vars) => TokenIInv'
  <1> SUFFICES ASSUME TokenIInv, [Tokens!Next]_(Tokens!vars) PROVE TokenIInv'
    OBVIOUS
  <1>1. CASE UNCHANGED Tokens!vars \/ Tokens!Tick
    BY <1>1 DEF Tokens!vars, Tokens!Tick, TokenIInv, TokenTypes, OneCached, CachedUntilDue, UsedInTime
  <1>2. ASSUME NEW c \in Call, Tokens!UseCached(c) PROVE TokenIInv'
    <2>1. PICK k \in oauth : now < k.exp /\ Tokens!Use(c, k)
      BY <1>2 DEF Tokens!UseCached, Tokens!Usable
    <2>2. UNCHANGED <<now, oauth, reply>>
      BY <1>2 DEF Tokens!UseCached
    <2>3. k \in [token : Tokens!Token, stored : Nat, exp : Nat]
          /\ now < k.stored + Tokens!CachedFor(k.token.life)
      BY <2>1 DEF TokenIInv, TokenTypes, CachedUntilDue
    <2> QED
      BY <2>1, <2>2, <2>3, TokenUse DEF TokenIInv, TokenTypes, OneCached, CachedUntilDue
  <1>3. ASSUME NEW c \in Call, Tokens!Store(c) PROVE TokenIInv'
    <2>1. PICK k \in reply[c] :
            LET e == [token |-> k, stored |-> now, exp |-> now + Tokens!CachedFor(k.life)]
            IN  oauth' = {e} /\ Tokens!Use(c, e)
      BY <1>3 DEF Tokens!Store
    <2> DEFINE e == [token |-> k, stored |-> now, exp |-> now + Tokens!CachedFor(k.life)]
    <2>2. UNCHANGED <<now, reply>> /\ oauth' = {e} /\ Tokens!Use(c, e)
      BY <1>3, <2>1 DEF Tokens!Store
    <2>3. k \in Tokens!Token /\ k.life \in Lifetime
      BY DEF TokenIInv, TokenTypes, Tokens!Token
    <2>4. now + Tokens!CachedFor(k.life) \in Nat
      BY <2>3, CachedForFacts DEF TokenIInv, TokenTypes
    <2>5. /\ e \in [token : Tokens!Token, stored : Nat, exp : Nat]
          /\ e.stored = now /\ e.exp = e.stored + Tokens!CachedFor(e.token.life)
      BY <2>3, <2>4 DEF TokenIInv, TokenTypes
    <2> HIDE DEF e
    <2> QED
      BY <2>2, <2>5, TokenUse DEF TokenIInv, TokenTypes, OneCached, CachedUntilDue
  <1>4. ASSUME NEW c \in Call, Tokens!StartFetch(c) \/ Tokens!Fail(c) PROVE TokenIInv'
    BY <1>4 DEF Tokens!StartFetch, Tokens!Fail, TokenIInv, TokenTypes, OneCached, CachedUntilDue,
       UsedInTime
  <1>5. ASSUME NEW c \in Call, NEW life \in Lifetime, Tokens!Issue(c, life) PROVE TokenIInv'
    <2>1. [issued |-> now, life |-> life] \in Tokens!Token
      BY DEF TokenIInv, TokenTypes, Tokens!Token
    <2> QED
      BY <1>5, <2>1 DEF Tokens!Issue, TokenIInv, TokenTypes, OneCached, CachedUntilDue, UsedInTime
  <1> QED
    BY <1>1, <1>2, <1>3, <1>4, <1>5 DEF Tokens!Next

\* No token is cached yet.
LEMMA TokenInit == Tokens!Init => TokenIInv
  BY DEF Tokens!Init, TokenIInv, TokenTypes, OneCached, CachedUntilDue, UsedInTime

\* What is served has not outlived the token it came with (OAuthTokens).
LEMMA TokenPromise == TokenIInv => ServedWhileValid
  <1> SUFFICES ASSUME TokenIInv, NEW c \in Call, NEW u \in used[c],
                      u.stored - u.token.issued <= Skew, u.token.life >= Skew + Floor
               PROVE  u.when <= u.stored \/ ~Tokens!Expired(u.token, u.when)
    BY DEF ServedWhileValid, Tokens!ServedWhileValid
  <1>1. /\ u.token.issued \in Nat /\ u.token.life \in Lifetime
        /\ u.stored \in Nat /\ u.when \in Nat
    BY DEF TokenIInv, TokenTypes, Tokens!Token
  <1>2. /\ u.token.life \in Nat /\ Skew \in Nat
        /\ Tokens!CachedFor(u.token.life) = u.token.life - Skew
    BY <1>1, CachedForFacts
  <1>3. u.when = u.stored \/ u.when < u.stored + Tokens!CachedFor(u.token.life)
    BY DEF TokenIInv, UsedInTime
  <1> QED
    BY <1>1, <1>2, <1>3 DEF Tokens!Expired

\* Whichever of several fetches is stored last, no call goes out with an
\* expired token, unless its response was slower than the skew.
THEOREM ServedTheorem == Tokens!Spec => []ServedWhileValid
  BY TokenInit, TokenStep, TokenPromise, PTL DEF Tokens!Spec
-----------------------------------------------------------------------------
\* The $metadata cache: versions were deployed one after the other, in the past.
DeploysArePast ==
    \A s \in Slot :
        /\ Len(deployed[s]) <= MaxVersions
        /\ \A i \in 1 .. Len(deployed[s]) : deployed[s][i] <= now

\* SAP was at version doc of the service at some instant from the first to the
\* last; the empty document is what a body that broke off then is read as.
Was(s, doc, first, last) ==
    /\ doc # Empty => doc <= Version(s)
    /\ \E t \in first .. last : IF doc = Empty THEN t \in broken[s] ELSE Current(s, doc, t)

CacheIsGenuine == \A e \in cache : e.at <= now /\ Was(e.slot, e.doc, e.asked, e.at)

RepliesAreGenuine ==
    \A c \in Call :
        /\ pc[c] = "idle" => reply[c] = {}
        /\ pc[c] = "fetch" =>
              asked[c] <= now /\ \A doc \in reply[c] : Was(want[c], doc, asked[c], now)

GivenIsGenuine ==
    \A c \in Call : \A g \in got[c] :
        /\ g.at <= now /\ g.when - g.at <= ttl
        /\ Was(want[c], g.doc, g.from, g.at)

MetaIInv ==
    /\ TypeOK
    /\ DeploysArePast /\ CacheIsGenuine /\ RepliesAreGenuine /\ GivenIsGenuine
-----------------------------------------------------------------------------
\* No document is cached yet.
LEMMA MetaInit == Init => MetaIInv
  <1> SUFFICES ASSUME Init PROVE MetaIInv
    OBVIOUS
  <1>1. Ttl \in Nat /\ MaxVersions \in Nat
    BY ConstantsAssumption
  <1>2. <<>> \in Seq(Nat) /\ Len(<<>>) = 0
    OBVIOUS
  <1>3. TypeOK
    BY <1>1, <1>2 DEF Init, TypeOK
  <1>4. DeploysArePast
    BY <1>1, <1>2 DEF Init, DeploysArePast
  <1> QED
    BY <1>3, <1>4 DEF Init, MetaIInv, CacheIsGenuine, RepliesAreGenuine, GivenIsGenuine

\* The types that the reasoning about deployments needs.
LEMMA MetaTypes ==
  ASSUME MetaIInv
  PROVE  /\ now \in Nat /\ ttl \in Nat /\ MaxVersions \in Nat
         /\ \A s \in Slot : deployed[s] \in Seq(Nat) /\ Version(s) \in 0 .. MaxVersions
         /\ \A d \in Document : d \in Int /\ (d # Empty => d \in Nat)
         /\ \A c \in Call : want[c] \in Slot /\ asked[c] \in Nat /\ reply[c] \subseteq Document
         /\ \A e \in cache : e.slot \in Slot /\ e.doc \in Document /\ e.at \in Nat /\ e.asked \in Nat
         /\ \A c \in Call : \A g \in got[c] :
               g.doc \in Document /\ g.from \in Nat /\ g.at \in Nat /\ g.when \in Nat
  <1>1. Ttl \in Nat /\ MaxVersions \in Nat
    BY ConstantsAssumption
  <1>2. \A s \in Slot : deployed[s] \in Seq(Nat)
    BY DEF MetaIInv, TypeOK
  <1>3. \A s \in Slot : Version(s) \in 0 .. MaxVersions
    BY <1>1, <1>2 DEF MetaIInv, DeploysArePast, Version
  <1>4. \A d \in Document : d \in Int /\ (d # Empty => d \in Nat)
    BY <1>1 DEF Document, Empty
  <1> QED
    BY <1>1, <1>2, <1>3, <1>4 DEF MetaIInv, TypeOK

\* A deployment changes nothing about the past.
LEMMA WasStays ==
  ASSUME MetaIInv, NEW d \in Slot, Deploy(d), NEW s \in Slot, NEW doc \in Document,
         NEW first \in Nat, NEW last \in Nat, last <= now, Was(s, doc, first, last)
  PROVE  Was(s, doc, first, last)'
  <1>1. /\ deployed[s] \in Seq(Nat) /\ now \in Nat
        /\ deployed'[s] = deployed[s] \/ deployed'[s] = Append(deployed[s], now)
    BY DEF Deploy, MetaIInv, TypeOK
  <1>2. /\ Version(s) \in Nat /\ (Version(s))' \in {Version(s), Version(s) + 1}
        /\ \A i \in 1 .. Version(s) : deployed'[s][i] = deployed[s][i]
        /\ (Version(s))' = Version(s) + 1 => deployed'[s][Version(s) + 1] = now
    BY <1>1 DEF Version
  <1>0. CASE doc = Empty
    BY <1>0 DEF Was, Empty, Deploy
  <1> SUFFICES ASSUME doc # Empty PROVE Was(s, doc, first, last)'
    BY <1>0
  <1>3. doc \in Nat
    BY MetaTypes
  <1>4. PICK t \in first .. last : Current(s, doc, t)
    BY DEF Was
  <1>5. doc <= Version(s)
    BY DEF Was
  <1>6. Current(s, doc, t)'
    <2>1. doc > 0 => deployed'[s][doc] <= t
      BY <1>2, <1>3, <1>4, <1>5 DEF Current
    <2>2. ASSUME doc < (Version(s))' PROVE t <= deployed'[s][doc + 1]
      <3>1. CASE doc < Version(s)
        BY <1>2, <1>3, <1>4, <3>1 DEF Current
      <3>2. CASE doc = Version(s)
        <4>1. (Version(s))' = Version(s) + 1
          BY <1>2, <2>2, <3>2
        <4> QED
          BY <1>1, <1>2, <3>2, <4>1
      <3> QED
        BY <1>2, <1>3, <1>5, <3>1, <3>2
    <2> QED
      BY <2>1, <2>2 DEF Current
  <1>7. doc <= (Version(s))'
    BY <1>2, <1>3, <1>5
  <1> QED
    BY <1>6, <1>7 DEF Was, Empty

\* A step that deploys nothing leaves what SAP was at alone.
LEMMA WasKept ==
  ASSUME UNCHANGED <<deployed, broken>>, NEW s, NEW doc, NEW first, NEW last
  PROVE  Was(s, doc, first, last)' <=> Was(s, doc, first, last)
  BY DEF Was, Version, Current, Empty

\* A longer interval still holds the instant.
LEMMA WasLonger ==
  ASSUME NEW s, NEW doc, NEW first \in Nat, NEW last \in Nat, NEW later \in Nat, last <= later,
         Was(s, doc, first, last)
  PROVE  Was(s, doc, first, later)
  <1>1. first .. last \subseteq first .. later
    OBVIOUS
  <1> QED
    BY <1>1 DEF Was

\* What a caller goes on with is genuine if it came from a genuine answer.
LEMMA MetaGive ==
  ASSUME MetaIInv, NEW c \in Call, NEW doc \in Document, NEW first \in Nat, NEW at \in Nat,
         Give(c, doc, first, at), at <= now, now - at <= ttl, Was(want[c], doc, first, at),
         UNCHANGED <<now, ttl, deployed, broken, want>>
  PROVE  /\ got' \in [Call -> SUBSET [doc : Document, from : Nat, at : Nat, when : Nat]]
         /\ GivenIsGenuine'
         /\ pc' \in [Call -> {"idle", "fetch", "done"}]
         /\ pc'[c] = "done" /\ \A d \in Call : d # c => pc'[d] = pc[d]
  <1> DEFINE g == [doc |-> doc, from |-> first, at |-> at, when |-> now]
  <1>1. got' = [got EXCEPT ![c] = {g}] /\ pc' = [pc EXCEPT ![c] = "done"]
    BY DEF Give
  <1>2. /\ g \in [doc : Document, from : Nat, at : Nat, when : Nat]
        /\ g.doc = doc /\ g.from = first /\ g.at = at /\ g.when = now
    BY MetaTypes
  <1> HIDE DEF g
  <1>3. /\ got'[c] = {g} /\ \A d \in Call : d # c => got'[d] = got[d]
        /\ got' \in [Call -> SUBSET [doc : Document, from : Nat, at : Nat, when : Nat]]
    BY <1>1, <1>2 DEF MetaIInv, TypeOK
  <1>4. GivenIsGenuine'
    BY <1>2, <1>3, WasKept DEF MetaIInv, GivenIsGenuine
  <1> QED
    BY <1>1, <1>3, <1>4 DEF MetaIInv, TypeOK

\* Whoever fetches or overwrites, an entry is from the fetch that it names.
LEMMA MetaStep == MetaIInv /\ [Next]_vars => MetaIInv'
  <1> SUFFICES ASSUME MetaIInv, [Next]_vars PROVE MetaIInv'
    OBVIOUS
  <1>1. CASE UNCHANGED vars
    <2>1. TypeOK' /\ DeploysArePast'
      BY <1>1 DEF vars, MetaIInv, TypeOK, DeploysArePast
    <2> QED
      BY <1>1, <2>1, WasKept DEF vars, MetaIInv, CacheIsGenuine, RepliesAreGenuine, GivenIsGenuine
  <1>2. CASE Tick
    <2>1. /\ now \in Nat /\ now' = now + 1
          /\ UNCHANGED <<ttl, deployed, broken, cache, pc, want, asked, reply, got>>
      BY <1>2 DEF Tick, MetaIInv, TypeOK
    <2>2. TypeOK'
      BY <2>1 DEF MetaIInv, TypeOK
    <2>3. DeploysArePast'
      BY <2>1, MetaTypes DEF MetaIInv, DeploysArePast
    <2>4. CacheIsGenuine' /\ GivenIsGenuine'
      BY <2>1, MetaTypes, WasKept DEF MetaIInv, CacheIsGenuine, GivenIsGenuine
    <2>5. RepliesAreGenuine'
      <3>1. \A c \in Call : \A doc \in reply[c] :
              Was(want[c], doc, asked[c], now) => Was(want[c], doc, asked[c], now + 1)
        BY <2>1, MetaTypes, WasLonger
      <3> QED
        BY <2>1, <3>1, MetaTypes, WasKept DEF MetaIInv, RepliesAreGenuine
    <2> QED
      BY <2>2, <2>3, <2>4, <2>5 DEF MetaIInv
  <1>3. ASSUME NEW s \in Slot, Deploy(s) PROVE MetaIInv'
    <2>1. /\ Version(s) < MaxVersions /\ deployed' = [deployed EXCEPT ![s] = Append(@, now)]
          /\ UNCHANGED <<now, ttl, broken, cache, pc, want, asked, reply, got>>
      BY <1>3 DEF Deploy
    <2>2. TypeOK'
      BY <2>1 DEF MetaIInv, TypeOK
    <2>3. DeploysArePast'
      BY <2>1, MetaTypes DEF MetaIInv, TypeOK, DeploysArePast, Version
    <2>4. CacheIsGenuine' /\ GivenIsGenuine' /\ RepliesAreGenuine'
      BY <1>3, <2>1, MetaTypes, WasStays DEF MetaIInv, CacheIsGenuine, GivenIsGenuine, RepliesAreGenuine
    <2> QED
      BY <2>2, <2>3, <2>4 DEF MetaIInv
  <1>4. ASSUME NEW c \in Call, Hit(c) PROVE MetaIInv'
    <2>1. PICK e \in Hits(c) : Give(c, e.doc, e.asked, e.at)
      BY <1>4 DEF Hit
    <2>2. /\ asked' = [asked EXCEPT ![c] = now] /\ pc[c] = "idle"
          /\ UNCHANGED <<now, ttl, deployed, broken, cache, want, reply>>
      BY <1>4 DEF Hit
    <2>3. /\ e \in cache /\ e.slot = want[c] /\ now - e.at <= ttl /\ e.at <= now
          /\ Was(want[c], e.doc, e.asked, e.at)
          /\ e.doc \in Document /\ e.asked \in Nat /\ e.at \in Nat
      BY MetaTypes DEF Hits, Slotted, MetaIInv, CacheIsGenuine
    <2>4. /\ got' \in [Call -> SUBSET [doc : Document, from : Nat, at : Nat, when : Nat]]
          /\ GivenIsGenuine'
          /\ pc' \in [Call -> {"idle", "fetch", "done"}]
          /\ pc'[c] = "done" /\ \A d \in Call : d # c => pc'[d] = pc[d]
      BY <2>1, <2>2, <2>3, MetaGive
    <2>5. TypeOK' /\ DeploysArePast'
      BY <2>2, <2>4 DEF MetaIInv, TypeOK, DeploysArePast
    <2>6. CacheIsGenuine'
      BY <2>2, WasKept DEF MetaIInv, CacheIsGenuine
    <2>7. RepliesAreGenuine'
      BY <2>2, <2>4, WasKept DEF MetaIInv, TypeOK, RepliesAreGenuine
    <2> QED
      BY <2>4, <2>5, <2>6, <2>7 DEF MetaIInv
  <1>5. ASSUME NEW c \in Call, Miss(c) \/ Serve(c) \/ Fail(c) PROVE MetaIInv'
    <2>1. UNCHANGED <<now, ttl, deployed, broken, cache, want, got>>
      BY <1>5 DEF Miss, Serve, Fail
    <2>2. DeploysArePast' /\ CacheIsGenuine' /\ GivenIsGenuine'
      BY <2>1, WasKept DEF MetaIInv, DeploysArePast, CacheIsGenuine, GivenIsGenuine
    <2>3. CASE Miss(c) \/ Fail(c)
      <3>1. TypeOK'
        BY <2>1, <2>3 DEF Miss, Fail, MetaIInv, TypeOK
      <3>2. RepliesAreGenuine'
        <4>1. /\ reply' = reply
              /\ \A d \in Call : d # c => pc'[d] = pc[d] /\ asked'[d] = asked[d]
              /\ \/ pc[c] = "idle" /\ pc'[c] = "fetch" /\ asked'[c] = now
                 \/ pc'[c] = "done"
          BY <2>3 DEF Miss, Fail, MetaIInv, TypeOK
        <4>2. pc[c] = "idle" => reply[c] = {}
          BY DEF MetaIInv, RepliesAreGenuine
        <4> QED
          BY <2>1, <4>1, <4>2, MetaTypes, WasKept DEF MetaIInv, RepliesAreGenuine
      <3> QED
        BY <2>2, <3>1, <3>2 DEF MetaIInv
    <2>4. CASE Serve(c)
      <3> DEFINE doc == Version(want[c])
      <3>1. reply' = [reply EXCEPT ![c] = {doc}]
        BY <2>4 DEF Serve
      <3>2. pc[c] = "fetch" /\ UNCHANGED <<pc, asked>>
        BY <2>4 DEF Serve
      <3>3. doc \in Document
        BY MetaTypes DEF Document
      <3> HIDE DEF doc
      <3>4. TypeOK'
        BY <2>1, <3>1, <3>2, <3>3 DEF MetaIInv, TypeOK
      <3>5. Was(want[c], doc, asked[c], now)
        <4>1. doc = Version(want[c]) /\ doc \in Nat /\ want[c] \in Slot /\ doc # Empty
          BY MetaTypes DEF doc, Empty
        <4>2. doc > 0 => deployed[want[c]][doc] <= now
          BY <4>1 DEF MetaIInv, DeploysArePast, Version
        <4>3. now \in asked[c] .. now
          BY <3>2, MetaTypes DEF MetaIInv, RepliesAreGenuine
        <4>4. Current(want[c], doc, now)
          BY <4>1, <4>2, MetaTypes DEF Current
        <4> QED
          BY <4>1, <4>3, <4>4, MetaTypes DEF Was
      <3>6. reply'[c] = {doc} /\ \A d \in Call : d # c => reply'[d] = reply[d]
        BY <3>1 DEF MetaIInv, TypeOK
      <3>7. RepliesAreGenuine'
        BY <2>1, <3>2, <3>5, <3>6, WasKept DEF MetaIInv, RepliesAreGenuine
      <3> QED
        BY <2>2, <3>4, <3>7 DEF MetaIInv
    <2> QED
      BY <1>5, <2>3, <2>4
  <1>6. ASSUME NEW c \in Call, Insert(c) PROVE MetaIInv'
    <2> DEFINE e(doc) == [slot |-> want[c], doc |-> doc, at |-> now, asked |-> asked[c]]
    <2>1. PICK doc \in reply[c] :
            /\ cache' = IF ttl = 0 THEN cache ELSE With(e(doc))
            /\ Give(c, doc, asked[c], now)
      BY <1>6 DEF Insert
    <2>2. pc[c] = "fetch" /\ UNCHANGED <<now, ttl, deployed, broken, want, asked, reply>>
      BY <1>6 DEF Insert
    <2>3. /\ Was(want[c], doc, asked[c], now) /\ doc \in Document /\ asked[c] \in Nat
          /\ now \in Nat /\ want[c] \in Slot
      BY <2>2, MetaTypes DEF MetaIInv, RepliesAreGenuine
    <2>4. /\ got' \in [Call -> SUBSET [doc : Document, from : Nat, at : Nat, when : Nat]]
          /\ GivenIsGenuine'
          /\ pc' \in [Call -> {"idle", "fetch", "done"}]
          /\ pc'[c] = "done" /\ \A d \in Call : d # c => pc'[d] = pc[d]
      <3>1. now - now <= ttl
        BY MetaTypes
      <3> QED
        BY <2>1, <2>2, <2>3, <3>1, MetaGive
    <2>5. /\ e(doc) \in [slot : Slot, doc : Document, at : Nat, asked : Nat]
          /\ e(doc).slot = want[c] /\ e(doc).doc = doc /\ e(doc).at = now /\ e(doc).asked = asked[c]
      BY <2>3
    <2> HIDE DEF e
    <2>6. cache' \subseteq {f \in cache : f.slot # e(doc).slot \/ ttl = 0} \cup {e(doc)}
          /\ (ttl = 0 => cache' = cache)
      BY <2>1 DEF With
    <2>7. TypeOK' /\ DeploysArePast'
      BY <2>2, <2>4, <2>5, <2>6 DEF MetaIInv, TypeOK, DeploysArePast
    <2>8. CacheIsGenuine'
      BY <2>2, <2>3, <2>5, <2>6, WasKept DEF MetaIInv, CacheIsGenuine
    <2>9. RepliesAreGenuine'
      BY <2>2, <2>4, WasKept DEF MetaIInv, RepliesAreGenuine
    <2> QED
      BY <2>4, <2>7, <2>8, <2>9 DEF MetaIInv
  <1>7. ASSUME NEW c \in Call, BreakOff(c) PROVE MetaIInv'
    <2>1. /\ pc[c] = "fetch" /\ reply' = [reply EXCEPT ![c] = {Empty}]
          /\ broken' = [broken EXCEPT ![want[c]] = @ \cup {now}]
          /\ UNCHANGED <<now, ttl, deployed, cache, pc, want, asked, got>>
      BY <1>7 DEF BreakOff
    <2>2. Empty \in Document /\ now \in Nat /\ want[c] \in Slot /\ broken \in [Slot -> SUBSET Nat]
      BY MetaTypes DEF Document, MetaIInv, TypeOK
    <2>3. /\ \A s \in Slot : broken[s] \subseteq broken'[s]
          /\ now \in broken'[want[c]] /\ broken' \in [Slot -> SUBSET Nat]
      BY <2>1, <2>2
    <2>4. TypeOK' /\ DeploysArePast'
      BY <2>1, <2>2, <2>3 DEF MetaIInv, TypeOK, DeploysArePast
    <2>5. \A s \in Slot : \A doc, first, last : Was(s, doc, first, last) => Was(s, doc, first, last)'
      BY <2>1, <2>3 DEF Was, Version, Current, Empty
    <2>6. CacheIsGenuine' /\ GivenIsGenuine'
      BY <2>1, <2>5, MetaTypes DEF MetaIInv, CacheIsGenuine, GivenIsGenuine
    <2>7. Was(want[c], Empty, asked[c], now)'
      <3>1. now \in asked[c] .. now
        BY <2>1, MetaTypes DEF MetaIInv, RepliesAreGenuine
      <3> QED
        BY <2>1, <2>3, <3>1 DEF Was, Empty
    <2>8. reply'[c] = {Empty} /\ \A d \in Call : d # c => reply'[d] = reply[d]
      BY <2>1 DEF MetaIInv, TypeOK
    <2>9. RepliesAreGenuine'
      <3>1. (Empty)' = Empty
        BY DEF Empty
      <3> QED
        BY <2>1, <2>5, <2>7, <2>8, <3>1, MetaTypes DEF MetaIInv, RepliesAreGenuine
    <2> QED
      BY <2>4, <2>6, <2>9 DEF MetaIInv
  <1> QED
    BY <1>1, <1>2, <1>3, <1>4, <1>5, <1>6, <1>7 DEF Next

\* What is served was SAP's in its fetch, one time to live ago at most (MetadataCache).
LEMMA MetaPromise == MetaIInv => StalenessBounded
  BY DEF MetaIInv, GivenIsGenuine, Was, StalenessBounded

\* Whoever else fetches, deploys or overwrites, a caller is given what SAP said
\* of that very service during the fetch that brought it, nothing only if the
\* response broke off in it, and never for longer than the time to live after it.
THEOREM StalenessTheorem == Spec => []StalenessBounded
  BY MetaInit, MetaStep, MetaPromise, PTL DEF Spec
-----------------------------------------------------------------------------
\* The rate limiter: the calls that have been counted, so far a finite number.
CountedCalls == {c \in LimitedCall : limiterPc[c] = "done"}

LimiterTypes ==
    /\ now \in Nat
    /\ key \in [LimitedCall -> Key]
    /\ limiterPc \in [LimitedCall -> {"idle", "lock", "done"}]
    /\ seen \in [LimitedCall -> Nat] /\ \A c \in LimitedCall : seen[c] <= now
    /\ DOMAIN queue \subseteq Key /\ IsFiniteSet(DOMAIN queue) /\ Limiter!KeysBounded
    /\ \A k \in DOMAIN queue : queue[k] \in Seq(Nat) /\ queue[k] # <<>>
    /\ allowed \in [LimitedCall -> BOOLEAN]
    /\ cleared \in BOOLEAN
    /\ IsFiniteSet(CountedCalls) /\ late \subseteq CountedCalls

\* Who stands at each place in the queue of k: each call at most once, behind
\* a newer clock only if it was overtaken. Missing is only who is older than
\* the window of some call of k, unless the map was cleared.
StandsIn(k, who) ==
    /\ who \in [1 .. Len(queue[k]) -> Limiter!Counts(k)]
    /\ \A i, j \in 1 .. Len(queue[k]) : who[i] = who[j] => i = j
    /\ \A i \in 1 .. Len(queue[k]) : seen[who[i]] = queue[k][i]
    /\ \A i, j \in 1 .. Len(queue[k]) : i < j /\ queue[k][j] < queue[k][i] => who[j] \in late
    /\ ~cleared =>
          \A d \in Limiter!Counts(k) :
              (\A e \in Limiter!Counts(k) : ~Limiter!Old(seen[d], seen[e]))
              => \E i \in 1 .. Len(queue[k]) : who[i] = d

QueuesAreCounts ==
    /\ \A k \in DOMAIN queue : \E who : StandsIn(k, who)
    /\ ~cleared => \A k \in Key \ DOMAIN queue : Limiter!Counts(k) = {}

\* Without the overtaken the budget is kept exactly.
PunctualInBudget ==
    Mode = "block" /\ ~cleared =>
        \A k \in Key, t \in Nat : Cardinality(Limiter!Through(k, t) \ late) <= Budget

LimiterIInv ==
    /\ LimiterTypes /\ QueuesAreCounts /\ PunctualInBudget
    /\ Limiter!RefusedOnlyOverBudget
-----------------------------------------------------------------------------
\* The module and its instance count alike.
LEMMA SameCardinality == \A S : Limiter!Cardinality(S) = Cardinality(S)
  BY DEF Limiter!Cardinality, Cardinality

\* A set of indexes has a first one.
LEMMA FirstIndex ==
  ASSUME NEW I \in SUBSET Nat, I # {}
  PROVE  Limiter!Min(I) \in I /\ \A i \in I : Limiter!Min(I) <= i
  <1>1. \E x \in I : \A y \in I : ~(<<y, x>> \in OpToRel(<, Nat))
    BY NatLessThanWellFounded, WFMin
  <1>2. \A x, y \in Nat : y < x => <<y, x>> \in OpToRel(<, Nat)
    BY DEF OpToRel
  <1>3. \E x \in I : \A y \in I : x <= y
    <2>1. PICK x \in I : \A y \in I : ~(<<y, x>> \in OpToRel(<, Nat))
      BY <1>1
    <2>2. \A y \in I : ~(y < x) /\ y \in Nat /\ x \in Nat
      BY <1>2, <2>1
    <2> QED
      BY <2>2
  <1> QED
    BY <1>3 DEF Limiter!Min

\* Trimming pops instants that are old, up to the first that is not.
LEMMA TrimmedFacts ==
  ASSUME NEW q \in Seq(Nat), NEW t \in Nat
  PROVE  \E m \in 1 .. Len(q) + 1 :
           /\ Limiter!Trimmed(q, t) \in Seq(Nat)
           /\ Len(Limiter!Trimmed(q, t)) = Len(q) + 1 - m
           /\ \A i \in 1 .. Len(q) + 1 - m : Limiter!Trimmed(q, t)[i] = q[m + i - 1]
           /\ \A i \in 1 .. m - 1 : Limiter!Old(q[i], t)
           /\ m <= Len(q) => ~Limiter!Old(q[m], t)
  <1> DEFINE I == {i \in 1 .. Len(q) : ~Limiter!Old(q[i], t)}
             keep == IF I # {} THEN Limiter!Min(I) ELSE 0
  <1>1. Limiter!Trimmed(q, t) = IF keep = 0 THEN <<>> ELSE SubSeq(q, keep, Len(q))
    BY DEF Limiter!Trimmed, Limiter!SelectInSeq
  <1>2. I \subseteq 1 .. Len(q) /\ I \in SUBSET Nat /\ Len(q) \in Nat
    OBVIOUS
  <1>3. CASE I = {}
    <2>1. Limiter!Trimmed(q, t) = <<>>
      BY <1>1, <1>3
    <2>2. \A i \in 1 .. Len(q) : Limiter!Old(q[i], t)
      BY <1>3
    <2> DEFINE m == Len(q) + 1
    <2>3. m \in 1 .. Len(q) + 1 /\ 1 .. Len(q) + 1 - m = {} /\ m - 1 = Len(q) /\ ~(m <= Len(q))
      BY <1>2
    <2>4. <<>> \in Seq(Nat) /\ Len(<<>>) = 0 /\ Len(q) + 1 - m = 0
      BY <1>2
    <2> HIDE DEF m, I
    <2> QED
      BY <2>1, <2>2, <2>3, <2>4
  <1>4. CASE I # {}
    <2> DEFINE m == Limiter!Min(I)
    <2>1. m \in I /\ \A i \in I : m <= i
      <3> HIDE DEF I
      <3> QED
        BY <1>2, <1>4, FirstIndex
    <2>2. keep = m
      BY <1>4
    <2> HIDE DEF m
    <2>3. m \in 1 .. Len(q) /\ ~Limiter!Old(q[m], t)
      BY <2>1
    <2>4. \A i \in 1 .. m - 1 : Limiter!Old(q[i], t)
      BY <2>1, <2>3
    <2>5. Limiter!Trimmed(q, t) = SubSeq(q, m, Len(q))
      <3>1. m # 0
        BY <2>3
      <3> HIDE DEF I, keep
      <3> QED
        BY <1>1, <2>2, <3>1
    <2>6. \A i \in m .. Len(q) : q[i] \in Nat
      BY <2>3
    <2>7. /\ SubSeq(q, m, Len(q)) \in Seq(Nat)
          /\ Len(SubSeq(q, m, Len(q))) = Len(q) + 1 - m
          /\ \A i \in 1 .. Len(q) + 1 - m : SubSeq(q, m, Len(q))[i] = q[m + i - 1]
      BY <2>3, <2>6, SubSeqProperties
    <2>8. m \in 1 .. Len(q) + 1
      BY <2>3
    <2> HIDE DEF I
    <2> QED
      BY <2>3, <2>4, <2>5, <2>7, <2>8
  <1> QED
    BY <1>3, <1>4

\* The initial map is empty and nobody has been counted.
LEMMA LimiterInit == Limiter!Init => LimiterIInv
  <1> SUFFICES ASSUME Limiter!Init PROVE LimiterIInv
    OBVIOUS
  <1>1. CountedCalls = {} /\ DOMAIN queue = {} /\ \A k : Limiter!Counts(k) = {}
    BY DEF Limiter!Init, CountedCalls, Limiter!Counts
  <1>2. IsFiniteSet({}) /\ Cardinality({}) = 0
    BY FS_EmptySet
  <1>3. MaxKeys \in Nat /\ Budget \in Nat
    BY LimiterAssumption DEF Limiter!ConstantsAssumption
  <1>4. LimiterTypes
    <2>1. /\ DOMAIN queue \subseteq Key /\ IsFiniteSet(DOMAIN queue)
          /\ \A k \in DOMAIN queue : queue[k] \in Seq(Nat) /\ queue[k] # <<>>
      BY <1>1, <1>2
    <2>2. Limiter!KeysBounded
      BY <1>1, <1>2, <1>3, SameCardinality DEF Limiter!KeysBounded
    <2>3. IsFiniteSet(CountedCalls)
      BY <1>1, <1>2
    <2>4. now \in Nat /\ seen \in [LimitedCall -> Nat] /\ \A c \in LimitedCall : seen[c] <= now
      BY DEF Limiter!Init
    <2>5. /\ key \in [LimitedCall -> Key]
          /\ limiterPc \in [LimitedCall -> {"idle", "lock", "done"}]
          /\ allowed \in [LimitedCall -> BOOLEAN] /\ cleared \in BOOLEAN
          /\ late \subseteq CountedCalls
      BY DEF Limiter!Init
    <2> QED
      BY <2>1, <2>2, <2>3, <2>4, <2>5 DEF LimiterTypes
  <1>5. QueuesAreCounts
    BY <1>1 DEF QueuesAreCounts
  <1>6. \A k, t : Limiter!Through(k, t) \ late = {}
    BY <1>1 DEF Limiter!Through
  <1>7. PunctualInBudget
    BY <1>2, <1>3, <1>6 DEF PunctualInBudget
  <1>8. Limiter!RefusedOnlyOverBudget
    BY DEF Limiter!Init, Limiter!RefusedOnlyOverBudget
  <1> QED
    BY <1>4, <1>5, <1>7, <1>8 DEF LimiterIInv

\* The effect of Check on who has been counted: the call is, nothing else is.
LEMMA CheckCounts ==
  ASSUME LimiterIInv, NEW c \in LimitedCall, Limiter!Check(c)
  PROVE  /\ c \notin CountedCalls /\ CountedCalls' = CountedCalls \cup {c}
         /\ UNCHANGED <<now, key, seen>>
         /\ \A d \in LimitedCall : d # c => allowed'[d] = allowed[d]
         /\ allowed'[c] = Limiter!WithinBudget(Limiter!Counted(c))
         /\ late \subseteq late' /\ late' \subseteq late \cup {c}
         /\ cleared' = FALSE => cleared = FALSE /\ ~Limiter!Overfull(c)
         /\ \A k : Limiter!Counts(k)' = IF k = key[c] THEN Limiter!Counts(k) \cup {c}
                                                      ELSE Limiter!Counts(k)
         /\ \A k : Limiter!Counts(k) \subseteq CountedCalls
         /\ DOMAIN queue' = (IF Limiter!Overfull(c) THEN {} ELSE DOMAIN queue) \cup {key[c]}
         /\ queue'[key[c]] = Limiter!Counted(c)
         /\ \A k \in DOMAIN queue' : k # key[c] => queue'[k] = queue[k]
         /\ c \notin late' => \A d \in Limiter!Counts(key[c]) : seen[d] <= seen[c]
  <1>1. limiterPc[c] = "lock" /\ limiterPc' = [limiterPc EXCEPT ![c] = "done"]
        /\ UNCHANGED <<now, key, seen>>
        /\ allowed' = [allowed EXCEPT ![c] = Limiter!WithinBudget(Limiter!Counted(c))]
    BY DEF Limiter!Check
  <1>2. limiterPc'[c] = "done" /\ \A d \in LimitedCall : d # c => limiterPc'[d] = limiterPc[d]
    BY <1>1 DEF LimiterIInv, LimiterTypes
  <1>3. c \notin CountedCalls /\ CountedCalls' = CountedCalls \cup {c}
    BY <1>1, <1>2 DEF CountedCalls
  <1>4. \A k : Limiter!Counts(k)' = IF k = key[c] THEN Limiter!Counts(k) \cup {c}
                                                  ELSE Limiter!Counts(k)
    BY <1>1, <1>2 DEF Limiter!Counts
  <1>5. \A k : Limiter!Counts(k) \subseteq CountedCalls
    BY DEF Limiter!Counts, CountedCalls
  <1>6. /\ allowed'[c] = Limiter!WithinBudget(Limiter!Counted(c))
        /\ \A d \in LimitedCall : d # c => allowed'[d] = allowed[d]
    BY <1>1 DEF LimiterIInv, LimiterTypes
  <1>7. late' = IF \E d \in Limiter!Counts(key[c]) : seen[d] > seen[c]
                THEN late \cup {c} ELSE late
    BY DEF Limiter!Check
  <1>8. c \notin late' => \A d \in Limiter!Counts(key[c]) : seen[d] <= seen[c]
    BY <1>7 DEF Limiter!Counts, LimiterIInv, LimiterTypes
  <1>9. cleared' = FALSE => cleared = FALSE /\ ~Limiter!Overfull(c)
    BY DEF Limiter!Check, LimiterIInv, LimiterTypes
  <1>10. queue' = LET kept == IF Limiter!Overfull(c) THEN {} ELSE DOMAIN queue
                  IN  [k \in kept \cup {key[c]} |->
                          IF k = key[c] THEN Limiter!Counted(c) ELSE queue[k]]
    BY DEF Limiter!Check
  <1>11. /\ DOMAIN queue' = (IF Limiter!Overfull(c) THEN {} ELSE DOMAIN queue) \cup {key[c]}
         /\ queue'[key[c]] = Limiter!Counted(c)
         /\ \A k \in DOMAIN queue' : k # key[c] => queue'[k] = queue[k]
    BY <1>10
  <1> QED
    BY <1>1, <1>3, <1>4, <1>5, <1>6, <1>7, <1>8, <1>9, <1>11

\* A call that counts itself stands last in the queue of its key, whose first
\* is not older than its window.
LEMMA CheckQueue ==
  ASSUME LimiterIInv, NEW c \in LimitedCall, Limiter!Check(c), NEW k, k = key[c]
  PROVE  /\ queue'[k] \in Seq(Nat) /\ Len(queue'[k]) > 0
         /\ Len(queue'[k]) > 1 => ~Limiter!Old(queue'[k][1], seen[c])
         /\ \E who : StandsIn(k, who)' /\ who[Len(queue'[k])] = c
  <1> DEFINE q == Limiter!QueueOf(c)
             new == queue'[k]
             C == Limiter!Counts(k)
  <1>1. seen[c] \in Nat /\ new = Append(Limiter!Trimmed(q, seen[c]), seen[c]) /\ seen' = seen
    BY CheckCounts DEF Limiter!Counted, LimiterIInv, LimiterTypes
  <1> HIDE DEF new
  <1>2. q \in Seq(Nat)
    BY DEF Limiter!QueueOf, LimiterIInv, LimiterTypes
  <1>3. \E who : /\ who \in [1 .. Len(q) -> C]
                 /\ \A i, j \in 1 .. Len(q) : who[i] = who[j] => i = j
                 /\ \A i \in 1 .. Len(q) : seen[who[i]] = q[i]
                 /\ \A i, j \in 1 .. Len(q) : i < j /\ q[j] < q[i] => who[j] \in late
                 /\ cleared' = FALSE =>
                       \A d \in C : (\A e \in C : ~Limiter!Old(seen[d], seen[e]))
                                    => \E i \in 1 .. Len(q) : who[i] = d
    <2>1. CASE Limiter!Overfull(c) \/ k \notin DOMAIN queue
      <3>1. q = <<>> /\ 1 .. Len(q) = {}
        BY <2>1 DEF Limiter!QueueOf
      <3>2. cleared' = FALSE => C = {}
        <4>1. k \in Key
          BY DEF LimiterIInv, LimiterTypes
        <4> QED
          BY <2>1, <4>1, CheckCounts DEF LimiterIInv, QueuesAreCounts
      <3> DEFINE w == [i \in 1 .. Len(q) |-> 0]
      <3>3. w \in [1 .. Len(q) -> C]
        BY <3>1
      <3> HIDE DEF w, q
      <3> QED
        BY <3>1, <3>2, <3>3
    <2>2. CASE ~Limiter!Overfull(c) /\ k \in DOMAIN queue
      <3>1. q = queue[k]
        BY <2>2 DEF Limiter!QueueOf
      <3>2. PICK who : StandsIn(k, who)
        BY <2>2 DEF LimiterIInv, QueuesAreCounts
      <3>3. cleared' = FALSE => ~cleared
        BY CheckCounts
      <3> QED
        BY <3>1, <3>2, <3>3 DEF StandsIn
    <2> QED
      BY <2>1, <2>2
  <1>4. PICK w : /\ w \in [1 .. Len(q) -> C]
                 /\ \A i, j \in 1 .. Len(q) : w[i] = w[j] => i = j
                 /\ \A i \in 1 .. Len(q) : seen[w[i]] = q[i]
                 /\ \A i, j \in 1 .. Len(q) : i < j /\ q[j] < q[i] => w[j] \in late
                 /\ cleared' = FALSE =>
                       \A d \in C : (\A e \in C : ~Limiter!Old(seen[d], seen[e]))
                                    => \E i \in 1 .. Len(q) : w[i] = d
    BY <1>3
  <1> DEFINE Tr == Limiter!Trimmed(q, seen[c])
  <1>5. PICK m \in 1 .. Len(q) + 1 :
           /\ Tr \in Seq(Nat) /\ Len(Tr) = Len(q) + 1 - m
           /\ \A i \in 1 .. Len(q) + 1 - m : Tr[i] = q[m + i - 1]
           /\ \A i \in 1 .. m - 1 : Limiter!Old(q[i], seen[c])
           /\ m <= Len(q) => ~Limiter!Old(q[m], seen[c])
    BY <1>1, <1>2, TrimmedFacts
  <1> HIDE DEF q, Tr
  <1> DEFINE n == Len(q) + 2 - m
  <1>6. /\ new \in Seq(Nat) /\ Len(new) = n /\ n \in Nat /\ n >= 1 /\ Len(q) \in Nat /\ m \in Nat
        /\ \A i \in 1 .. n - 1 : new[i] = q[m + i - 1] /\ m + i - 1 \in 1 .. Len(q)
        /\ new[n] = seen[c]
    <2>1. new = Append(Tr, seen[c]) /\ Len(q) \in Nat /\ m \in Nat
      BY <1>1, <1>2 DEF Tr
    <2>2. /\ new \in Seq(Nat) /\ Len(new) = Len(Tr) + 1
          /\ \A i \in 1 .. Len(Tr) : new[i] = Tr[i]
          /\ new[Len(Tr) + 1] = seen[c]
      BY <1>1, <1>5, <2>1, AppendProperties
    <2>5. Len(Tr) = n - 1 /\ n \in Nat /\ n >= 1
      BY <1>5, <2>1
    <2>6. \A i \in 1 .. n - 1 : new[i] = q[m + i - 1] /\ m + i - 1 \in 1 .. Len(q)
      BY <1>5, <2>1, <2>2, <2>5
    <2> HIDE DEF n
    <2> QED
      BY <2>1, <2>2, <2>5, <2>6
  <1> HIDE DEF n
  <1>7. n > 1 => ~Limiter!Old(new[1], seen[c])
    <2> SUFFICES ASSUME n > 1 PROVE ~Limiter!Old(new[1], seen[c])
      OBVIOUS
    <2>1. m <= Len(q) /\ 1 \in 1 .. n - 1
      BY <1>6 DEF n
    <2>2. new[1] = q[m]
      BY <1>6, <2>1
    <2> QED
      BY <1>5, <2>1, <2>2
  <1>8. PICK who : who = [i \in 1 .. n |-> IF i = n THEN c ELSE w[m + i - 1]]
    OBVIOUS
  <1>9. /\ who[n] = c
        /\ \A i \in 1 .. n - 1 : who[i] = w[m + i - 1] /\ who[i] \in C /\ seen[who[i]] = new[i]
        /\ \A i \in 1 .. n : i = n \/ i \in 1 .. n - 1
    <2>1. \A i \in 1 .. n - 1 : i \in 1 .. n /\ i # n
      BY <1>6
    <2>2. n \in 1 .. n /\ \A i \in 1 .. n : i = n \/ i \in 1 .. n - 1
      BY <1>6
    <2>3. \A i \in 1 .. n - 1 : w[m + i - 1] \in C /\ seen[w[m + i - 1]] = new[i]
      BY <1>4, <1>6
    <2>4. who[n] = c
      BY <1>8, <2>2
    <2>5. \A i \in 1 .. n - 1 : who[i] = w[m + i - 1]
      BY <1>8, <2>1
    <2> HIDE DEF C
    <2> QED
      BY <2>2, <2>3, <2>4, <2>5
  <1>10. c \notin C /\ (Limiter!Counts(k))' = C \cup {c}
    BY CheckCounts
  <1>11. who \in [1 .. n -> C \cup {c}]
    BY <1>9, <1>8
  <1> HIDE DEF C
  <1>12. \A i, j \in 1 .. n : who[i] = who[j] => i = j
    <2> SUFFICES ASSUME NEW i \in 1 .. n, NEW j \in 1 .. n, who[i] = who[j] PROVE i = j
      OBVIOUS
    <2>1. CASE i = n \/ j = n
      BY <1>9, <1>10, <2>1
    <2>2. CASE i \in 1 .. n - 1 /\ j \in 1 .. n - 1
      <3>1. m + i - 1 \in 1 .. Len(q) /\ m + j - 1 \in 1 .. Len(q)
        BY <1>6, <2>2
      <3>2. w[m + i - 1] = w[m + j - 1]
        BY <1>9, <2>2
      <3>3. m + i - 1 = m + j - 1
        BY <1>4, <3>1, <3>2
      <3> QED
        BY <1>6, <3>3
    <2> QED
      BY <1>9, <2>1, <2>2
  <1>13. \A i \in 1 .. n : seen'[who[i]] = new[i]
    BY <1>1, <1>6, <1>9
  <1>14. \A i, j \in 1 .. n : i < j /\ new[j] < new[i] => who[j] \in late'
    <2> SUFFICES ASSUME NEW i \in 1 .. n, NEW j \in 1 .. n, i < j, new[j] < new[i]
                 PROVE  who[j] \in late'
      OBVIOUS
    <2>1. i \in 1 .. n - 1
      BY <1>6
    <2>2. CASE j = n
      <3>1. who[i] \in C /\ seen[c] < seen[who[i]]
        BY <1>6, <1>9, <2>1, <2>2
      <3>2. C = Limiter!Counts(key[c]) /\ seen[who[i]] \in Nat /\ seen[c] \in Nat
        BY <1>1, <3>1 DEF C, Limiter!Counts, LimiterIInv, LimiterTypes
      <3>3. c \notin late' => \A d \in Limiter!Counts(key[c]) : seen[d] <= seen[c]
        BY CheckCounts
      <3>4. c \notin late' => seen[who[i]] <= seen[c]
        BY <3>1, <3>2, <3>3
      <3>5. c \in late'
        BY <3>1, <3>2, <3>4
      <3> QED
        BY <1>9, <2>2, <3>5
    <2>3. CASE j \in 1 .. n - 1
      <3>1. m + i - 1 \in 1 .. Len(q) /\ m + j - 1 \in 1 .. Len(q)
        BY <1>6, <2>1, <2>3
      <3>2. new[i] = q[m + i - 1] /\ new[j] = q[m + j - 1]
        BY <1>6, <2>1, <2>3
      <3>3. m + i - 1 < m + j - 1
        BY <1>6
      <3>4. q[m + j - 1] < q[m + i - 1]
        BY <3>2
      <3>5. w[m + j - 1] \in late
        BY <1>4, <3>1, <3>3, <3>4
      <3> QED
        BY <1>9, <2>3, <3>5, CheckCounts
    <2> QED
      BY <1>9, <2>2, <2>3
  <1>15. cleared' = FALSE =>
            \A d \in C \cup {c} : (\A e \in C \cup {c} : ~Limiter!Old(seen[d], seen[e]))
                                  => \E i \in 1 .. n : who[i] = d
    <2> SUFFICES ASSUME cleared' = FALSE, NEW d \in C \cup {c},
                        \A e \in C \cup {c} : ~Limiter!Old(seen[d], seen[e])
                 PROVE  \E i \in 1 .. n : who[i] = d
      OBVIOUS
    <2>1. CASE d = c
      BY <1>6, <1>9, <2>1
    <2>2. CASE d \in C
      <3>1. PICK i \in 1 .. Len(q) : w[i] = d
        BY <1>4, <2>2
      <3>2. ~Limiter!Old(q[i], seen[c])
        BY <1>4, <3>1
      <3>3. i >= m
        BY <1>5, <1>6, <3>2
      <3>4. i - m + 1 \in 1 .. n - 1 /\ m + (i - m + 1) - 1 = i /\ i - m + 1 \in 1 .. n
        BY <1>6, <3>1, <3>3 DEF n
      <3>5. who[i - m + 1] = d
        BY <1>9, <3>1, <3>4
      <3> QED
        BY <3>4, <3>5
    <2> QED
      BY <2>1, <2>2
  <1>16. StandsIn(k, who)'
    <2>1. cleared' \in BOOLEAN
      BY DEF Limiter!Check, LimiterIInv, LimiterTypes
    <2>2. queue'[k] = new /\ Len(queue'[k]) = n
      BY <1>6 DEF new
    <2>3. who \in [1 .. Len(queue'[k]) -> Limiter!Counts(k)']
      BY <1>10, <1>11, <2>2
    <2>4. \A i, j \in 1 .. Len(queue'[k]) : who[i] = who[j] => i = j
      BY <1>12, <2>2
    <2>5. \A i \in 1 .. Len(queue'[k]) : seen'[who[i]] = queue'[k][i]
      BY <1>13, <2>2
    <2>6. \A i, j \in 1 .. Len(queue'[k]) :
            i < j /\ queue'[k][j] < queue'[k][i] => who[j] \in late'
      BY <1>14, <2>2
    <2>7. ~cleared' =>
            \A d \in Limiter!Counts(k)' :
                (\A e \in Limiter!Counts(k)' : ~Limiter!Old(seen'[d], seen'[e]))
                => \E i \in 1 .. Len(queue'[k]) : who[i] = d
      BY <1>1, <1>10, <1>15, <2>1, <2>2
    <2> QED
      BY <2>3, <2>4, <2>5, <2>6, <2>7 DEF StandsIn, Limiter!Old
  <1>17. who[Len(queue'[k])] = c /\ queue'[k] = new
    BY <1>6, <1>9 DEF new
  <1> QED
    BY <1>6, <1>7, <1>16, <1>17

\* A queue that a Check does not touch stands as it did.
LEMMA OthersStand ==
  ASSUME LimiterIInv, NEW c \in LimitedCall, Limiter!Check(c),
         NEW k, k # key[c], NEW who, StandsIn(k, who), queue'[k] = queue[k]
  PROVE  StandsIn(k, who)'
  <1>1. /\ (Limiter!Counts(k))' = Limiter!Counts(k) /\ seen' = seen /\ late \subseteq late'
        /\ ~cleared' => ~cleared
    <2>1. cleared' \in BOOLEAN
      BY DEF Limiter!Check, LimiterIInv, LimiterTypes
    <2> QED
      BY <2>1, CheckCounts
  <1> QED
    BY <1>1 DEF StandsIn, Limiter!Old

\* A check keeps the types, and that each queue holds calls that were counted.
LEMMA CheckTypes ==
  ASSUME LimiterIInv, NEW c \in LimitedCall, Limiter!Check(c)
  PROVE  LimiterTypes' /\ QueuesAreCounts'
  <1> DEFINE kept == IF Limiter!Overfull(c) THEN {} ELSE DOMAIN queue
  <1>1. /\ key[c] \in Key /\ kept \subseteq DOMAIN queue /\ DOMAIN queue' = kept \cup {key[c]}
        /\ queue'[key[c]] \in Seq(Nat) /\ queue'[key[c]] # <<>>
        /\ \A k \in DOMAIN queue' : k # key[c] => k \in DOMAIN queue /\ queue'[k] = queue[k]
    <2>1. queue'[key[c]] \in Seq(Nat) /\ Len(queue'[key[c]]) > 0
      BY CheckQueue
    <2>2. key[c] \in Key
      BY DEF LimiterIInv, LimiterTypes
    <2>3. DOMAIN queue' = kept \cup {key[c]} /\ kept \subseteq DOMAIN queue
      BY CheckCounts
    <2>4. queue'[key[c]] # <<>>
      BY <2>1
    <2>5. \A k \in DOMAIN queue' : k # key[c] => k \in DOMAIN queue /\ queue'[k] = queue[k]
      <3>1. \A k \in DOMAIN queue' : k # key[c] => queue'[k] = queue[k]
        BY CheckCounts
      <3> HIDE DEF kept
      <3> QED
        BY <2>3, <3>1
    <2> QED
      BY <2>1, <2>2, <2>3, <2>4, <2>5
  <1>2. IsFiniteSet(DOMAIN queue') /\ Limiter!KeysBounded'
    <2>1. IsFiniteSet(DOMAIN queue) /\ IsFiniteSet(kept)
          /\ Cardinality(kept) \in Nat /\ MaxKeys \in Nat
      BY <1>1, FS_Subset, FS_CardinalityType, LimiterAssumption
         DEF LimiterIInv, LimiterTypes, Limiter!ConstantsAssumption
    <2>2. /\ IsFiniteSet(kept \cup {key[c]})
          /\ Cardinality(kept \cup {key[c]}) =
                IF key[c] \in kept THEN Cardinality(kept) ELSE Cardinality(kept) + 1
      BY <2>1, FS_AddElement
    <2>3. Cardinality(kept) <= MaxKeys + 1 /\ (key[c] \notin kept => Cardinality(kept) <= MaxKeys)
      <3>1. CASE Limiter!Overfull(c)
        BY <2>1, <3>1, FS_EmptySet
      <3>2. CASE ~Limiter!Overfull(c)
        <4>1. /\ kept = DOMAIN queue /\ Cardinality(DOMAIN queue) <= MaxKeys + 1
              /\ ~(Cardinality(DOMAIN queue) > MaxKeys) \/ key[c] \in DOMAIN queue
          BY <3>2, SameCardinality DEF Limiter!Overfull, LimiterIInv, LimiterTypes, Limiter!KeysBounded
        <4> HIDE DEF kept
        <4> QED
          BY <2>1, <4>1
      <3> QED
        BY <3>1, <3>2
    <2> HIDE DEF kept
    <2>4. Cardinality(DOMAIN queue') <= MaxKeys + 1
      BY <1>1, <2>1, <2>2, <2>3
    <2> QED
      BY <1>1, <2>2, <2>4, SameCardinality DEF Limiter!KeysBounded
  <1>3. IsFiniteSet(CountedCalls') /\ late' \subseteq CountedCalls'
    <2>1. IsFiniteSet(CountedCalls \cup {c})
      BY FS_AddElement DEF LimiterIInv, LimiterTypes
    <2> QED
      BY <2>1, CheckCounts DEF LimiterIInv, LimiterTypes
  <1>4. LimiterTypes'
    <2>1. allowed' \in [LimitedCall -> BOOLEAN]
      <3>1. Limiter!WithinBudget(Limiter!Counted(c)) \in BOOLEAN
        BY DEF Limiter!WithinBudget
      <3>2. allowed' = [allowed EXCEPT ![c] = Limiter!WithinBudget(Limiter!Counted(c))]
        BY DEF Limiter!Check
      <3> QED
        BY <3>1, <3>2 DEF LimiterIInv, LimiterTypes
    <2>2. cleared' \in BOOLEAN
      BY DEF Limiter!Check, LimiterIInv, LimiterTypes
    <2>3. limiterPc' \in [LimitedCall -> {"idle", "lock", "done"}] /\ UNCHANGED <<now, key, seen>>
      BY DEF Limiter!Check, LimiterIInv, LimiterTypes
    <2>4. \A k \in DOMAIN queue' : queue'[k] \in Seq(Nat) /\ queue'[k] # <<>>
      BY <1>1 DEF LimiterIInv, LimiterTypes
    <2>5. DOMAIN queue' \subseteq Key
      BY <1>1 DEF LimiterIInv, LimiterTypes
    <2> QED
      BY <1>2, <1>3, <2>1, <2>2, <2>3, <2>4, <2>5 DEF LimiterIInv, LimiterTypes
  <1>5. ASSUME NEW k \in DOMAIN queue' PROVE \E who : StandsIn(k, who)'
    <2>1. CASE k = key[c]
      BY <2>1, CheckQueue
    <2>2. CASE k # key[c]
      <3>1. PICK who : StandsIn(k, who)
        BY <1>1, <1>5, <2>2 DEF LimiterIInv, QueuesAreCounts
      <3> QED
        BY <1>1, <1>5, <2>2, <3>1, OthersStand
    <2> QED
      BY <2>1, <2>2
  <1>6. ASSUME ~cleared', NEW k \in Key \ DOMAIN queue' PROVE (Limiter!Counts(k))' = {}
    <2>1. cleared' = FALSE
      BY <1>4, <1>6 DEF LimiterTypes
    <2>2. k # key[c] /\ k \notin DOMAIN queue
      BY <1>1, <1>6, <2>1, CheckCounts
    <2>3. Limiter!Counts(k) = {}
      BY <2>1, <2>2, CheckCounts DEF LimiterIInv, QueuesAreCounts
    <2> QED
      BY <2>2, <2>3, CheckCounts
  <1> QED
    BY <1>4, <1>5, <1>6 DEF QueuesAreCounts

\* Everyone whom a punctual call still has in its window stands in the queue
\* it leaves, which is no longer than the budget if the call is let through.
LEMMA CheckBudget ==
  ASSUME LimiterIInv, NEW c \in LimitedCall, Limiter!Check(c), LimiterTypes'
  PROVE  PunctualInBudget'
  <1> SUFFICES ASSUME Mode = "block", cleared' = FALSE, NEW k \in Key, NEW t \in Nat
               PROVE  Cardinality(Limiter!Through(k, t)' \ late') <= Budget
    BY DEF PunctualInBudget, LimiterTypes
  <1>1. /\ UNCHANGED <<seen, key>> /\ cleared = FALSE /\ seen \in [LimitedCall -> Nat]
        /\ late \subseteq late' /\ Budget \in Nat /\ Window \in Nat
        /\ \A j : Limiter!Counts(j) \subseteq CountedCalls /\ IsFiniteSet(CountedCalls)
        /\ c \notin CountedCalls
    BY CheckCounts, LimiterAssumption DEF LimiterIInv, LimiterTypes, Limiter!ConstantsAssumption
  <1> DEFINE old == Limiter!Through(k, t) \ late
             new == Limiter!Through(k, t)' \ late'
  <1>2. IsFiniteSet(old) /\ Cardinality(old) \in Nat /\ Cardinality(old) <= Budget
    <2>1. old \in SUBSET CountedCalls
      BY <1>1 DEF Limiter!Through
    <2>2. Cardinality(old) <= Budget
      BY <1>1 DEF LimiterIInv, PunctualInBudget
    <2> HIDE DEF old
    <2> QED
      BY <1>1, <2>1, <2>2, FS_Subset, FS_CardinalityType
  <1>3. new \subseteq old \cup {c}
    <2>1. ASSUME NEW d \in new, d # c PROVE d \in old
      <3>1. d \in Limiter!Counts(k)' /\ allowed'[d] /\ seen[d] <= t /\ ~Limiter!Old(seen[d], t)
            /\ d \notin late
        BY <1>1, <2>1 DEF Limiter!Through, Limiter!Old
      <3>2. d \in Limiter!Counts(k) /\ d \in LimitedCall
        <4>1. Limiter!Counts(k)' = IF k = key[c] THEN Limiter!Counts(k) \cup {c}
                                                ELSE Limiter!Counts(k)
          BY CheckCounts
        <4>2. d \in Limiter!Counts(k)
          BY <2>1, <3>1, <4>1
        <4> QED
          BY <4>2 DEF Limiter!Counts
      <3>3. allowed[d]
        BY <2>1, <3>1, <3>2, CheckCounts
      <3> QED
        BY <3>1, <3>2, <3>3 DEF Limiter!Through
    <2> QED
      BY <2>1
  <1>4. CASE c \notin new
    <2>1. new \in SUBSET old
      BY <1>3, <1>4
    <2> HIDE DEF new, old
    <2>2. Cardinality(new) <= Cardinality(old) /\ Cardinality(new) \in Nat
      BY <1>2, <2>1, FS_Subset, FS_CardinalityType
    <2> QED
      BY <1>1, <1>2, <2>2 DEF new
  <1>5. CASE c \in new
    <2>1. /\ c \notin late' /\ k = key[c] /\ seen[c] \in Nat /\ seen[c] <= t
          /\ allowed'[c]
      BY <1>1, <1>5 DEF Limiter!Through, Limiter!Counts
    <2>2. \A d \in Limiter!Counts(k)' : seen[d] <= seen[c]
      <3>1. Limiter!Counts(k)' = Limiter!Counts(k) \cup {c}
        BY <2>1, CheckCounts
      <3>2. \A d \in Limiter!Counts(k) : seen[d] <= seen[c]
        BY <2>1, CheckCounts
      <3> QED
        BY <2>1, <3>1, <3>2
    <2>3. PICK who : StandsIn(k, who)'
      BY <2>1, CheckQueue
    <2> DEFINE n == Len(queue'[k])
               R == {who[i] : i \in 1 .. n}
    <2>4. n \in Nat /\ n <= Budget
      <3>1. queue'[k] = Limiter!Counted(c) /\ Limiter!WithinBudget(Limiter!Counted(c))
        BY <2>1, CheckCounts
      <3>2. queue'[k] \in Seq(Nat)
        BY <2>1, CheckQueue
      <3> QED
        BY <3>1, <3>2 DEF Limiter!WithinBudget
    <2>5. new \in SUBSET R
      <3> SUFFICES ASSUME NEW d \in new PROVE \E i \in 1 .. n : who[i] = d
        OBVIOUS
      <3>1. d \in Limiter!Counts(k)' /\ ~Limiter!Old(seen[d], t) /\ seen[d] \in Nat
        BY <1>1 DEF Limiter!Through, Limiter!Old, Limiter!Counts
      <3>2. \A e \in Limiter!Counts(k)' : seen[e] \in Nat
        BY <1>1 DEF Limiter!Counts
      <3>3. \A e \in Limiter!Counts(k)' : ~Limiter!Old(seen[d], seen[e])
        BY <1>1, <2>1, <2>2, <3>1, <3>2 DEF Limiter!Old
      <3> QED
        BY <1>1, <2>3, <3>1, <3>3 DEF StandsIn, Limiter!Old
    <2>6. IsFiniteSet(R) /\ Cardinality(R) <= n /\ Cardinality(R) \in Nat
      <3> DEFINE f == [i \in 1 .. n |-> who[i]]
      <3>1. f \in Surjection(1 .. n, R)
        BY DEF Surjection
      <3>2. IsFiniteSet(1 .. n) /\ Cardinality(1 .. n) = n
        BY <2>4, FS_Interval
      <3> HIDE DEF f, R, n
      <3> QED
        BY <3>1, <3>2, FS_Surjection, FS_CardinalityType
    <2> HIDE DEF R, n
    <2>7. Cardinality(new) <= Cardinality(R) /\ Cardinality(new) \in Nat
      <3> HIDE DEF new
      <3> QED
        BY <2>5, <2>6, FS_Subset, FS_CardinalityType
    <2> HIDE DEF new
    <2> QED
      BY <1>1, <2>4, <2>6, <2>7 DEF new
  <1> QED
    BY <1>4, <1>5

\* The calls of its key that a call has before it in its window, or overtaken.
Ahead(c) ==
    {d \in Limiter!Counts(key[c]) \ {c} : d \in late \/ ~Limiter!Old(seen[d], seen[c])}

\* Finitely many of the counted calls stand before another.
LEMMA AheadFinite ==
  ASSUME LimiterTypes, NEW c
  PROVE  IsFiniteSet(Ahead(c)) /\ Cardinality(Ahead(c)) \in Nat
  <1>1. Ahead(c) \in SUBSET CountedCalls /\ IsFiniteSet(CountedCalls)
    BY DEF Ahead, Limiter!Counts, CountedCalls, LimiterTypes
  <1> QED
    BY <1>1, FS_Subset, FS_CardinalityType

\* A call is refused for the length of the queue that it leaves: whoever stands
\* before it there came before it, and who is out of its window was overtaken,
\* because the first of the queue is not.
LEMMA CheckRefused ==
  ASSUME LimiterIInv, NEW c \in LimitedCall, Limiter!Check(c), LimiterTypes'
  PROVE  Limiter!RefusedOnlyOverBudget'
  <1> SUFFICES ASSUME NEW d \in LimitedCall, limiterPc'[d] = "done", ~allowed'[d]
               PROVE  Cardinality(Ahead(d)') >= Budget
    BY SameCardinality DEF Limiter!RefusedOnlyOverBudget, Ahead
  <1>1. /\ UNCHANGED <<seen, key>> /\ seen \in [LimitedCall -> Nat]
        /\ late \subseteq late' /\ Budget \in Nat /\ Window \in Nat
        /\ \A k : Limiter!Counts(k) \subseteq CountedCalls
        /\ \A k : Limiter!Counts(k) \subseteq Limiter!Counts(k)'
        /\ c \notin CountedCalls
    <2>1. \A k : Limiter!Counts(k)' = IF k = key[c] THEN Limiter!Counts(k) \cup {c}
                                                    ELSE Limiter!Counts(k)
      BY CheckCounts
    <2>2. \A k : Limiter!Counts(k) \subseteq Limiter!Counts(k)'
      BY <2>1
    <2>3. Budget \in Nat /\ Window \in Nat
      BY LimiterAssumption DEF Limiter!ConstantsAssumption
    <2>4. seen \in [LimitedCall -> Nat]
      BY DEF LimiterIInv, LimiterTypes
    <2>5. /\ UNCHANGED <<seen, key>> /\ late \subseteq late' /\ c \notin CountedCalls
          /\ \A k : Limiter!Counts(k) \subseteq CountedCalls
      BY CheckCounts
    <2> QED
      BY <2>2, <2>3, <2>4, <2>5
  <1>2. IsFiniteSet(Ahead(d)') /\ Cardinality(Ahead(d)') \in Nat
    <2>1. Ahead(d)' \in SUBSET CountedCalls' /\ IsFiniteSet(CountedCalls')
      BY DEF Ahead, Limiter!Counts, CountedCalls, LimiterTypes
    <2> QED
      BY <2>1, FS_Subset, FS_CardinalityType
  <1>3. CASE d # c
    <2>1. limiterPc[d] = "done" /\ ~allowed[d]
      <3>1. allowed'[d] = allowed[d]
        BY <1>3, CheckCounts
      <3>2. limiterPc'[d] = limiterPc[d]
        BY <1>3 DEF Limiter!Check, LimiterIInv, LimiterTypes
      <3> QED
        BY <3>1, <3>2
    <2>2. Cardinality(Ahead(d)) >= Budget
      BY <2>1, SameCardinality DEF LimiterIInv, Limiter!RefusedOnlyOverBudget, Ahead
    <2>3. Ahead(d) \in SUBSET Ahead(d)'
      BY <1>1 DEF Ahead, Limiter!Old
    <2>4. Cardinality(Ahead(d)) <= Cardinality(Ahead(d)')
      BY <1>2, <2>3, FS_Subset
    <2>5. Cardinality(Ahead(d)) \in Nat
      BY AheadFinite DEF LimiterIInv
    <2> QED
      BY <1>1, <1>2, <2>2, <2>4, <2>5
  <1>4. CASE d = c
    <2>0. PICK k : k = key[c]
      OBVIOUS
    <2> DEFINE n == Len(queue'[k])
    <2>1. PICK who : StandsIn(k, who)' /\ who[n] = c
      BY <2>0, CheckQueue
    <2>2. n \in Nat /\ n > Budget
      <3>1. queue'[k] = Limiter!Counted(c) /\ ~Limiter!WithinBudget(Limiter!Counted(c))
        BY <1>4, <2>0, CheckCounts
      <3>2. queue'[k] \in Seq(Nat)
        BY <2>0, CheckQueue
      <3> QED
        BY <1>1, <3>1, <3>2 DEF Limiter!WithinBudget
    <2>3. n > 1 => ~Limiter!Old(queue'[k][1], seen[c])
      BY <2>0, CheckQueue
    <2>4. key' = key /\ seen' = seen /\ k = key'[d]
      BY <1>1, <1>4, <2>0
    <2>5. /\ who \in [1 .. n -> Limiter!Counts(k)']
          /\ \A i, j \in 1 .. n : who[i] = who[j] => i = j
          /\ \A i \in 1 .. n : seen[who[i]] = queue'[k][i]
          /\ \A i, j \in 1 .. n : i < j /\ queue'[k][j] < queue'[k][i] => who[j] \in late'
      BY <2>1, <2>4 DEF StandsIn
    <2> HIDE DEF n
    <2>6. ASSUME NEW i \in 1 .. n - 1 PROVE who[i] \in Ahead(d)'
      <3>1. i \in 1 .. n /\ n \in 1 .. n /\ i # n /\ 1 \in 1 .. n /\ n > 1
        BY <2>2
      <3>2. who[i] # c /\ who[i] \in Limiter!Counts(k)' /\ who[1] \in Limiter!Counts(k)'
        BY <2>1, <2>5, <3>1
      <3>3. who[i] \in LimitedCall /\ who[1] \in LimitedCall
        BY <3>2 DEF Limiter!Counts
      <3>4. seen[who[i]] \in Nat /\ seen[who[1]] \in Nat /\ seen[c] \in Nat
        BY <1>1, <3>3
      <3>5. who[i] \in late' \/ ~(i > 1 /\ seen[who[i]] < seen[who[1]])
        BY <2>5, <3>1
      <3>6. ~Limiter!Old(seen[who[1]], seen[c])
        BY <2>3, <2>5, <3>1
      <3>7. who[i] \in late' \/ ~Limiter!Old(seen[who[i]], seen[c])
        BY <1>1, <3>4, <3>5, <3>6 DEF Limiter!Old
      <3> QED
        BY <1>4, <2>4, <3>2, <3>7 DEF Ahead, Limiter!Old
    <2> DEFINE f == [i \in 1 .. n - 1 |-> who[i]]
    <2>7. f \in Injection(1 .. n - 1, Ahead(d)')
      <3>1. \A i \in 1 .. n - 1 : f[i] \in Ahead(d)' /\ i \in 1 .. n /\ f[i] = who[i]
        BY <2>2, <2>6
      <3>2. f \in [1 .. n - 1 -> Ahead(d)']
        BY <3>1
      <3>3. \A i, j \in 1 .. n - 1 : f[i] = f[j] => i = j
        BY <2>5, <3>1
      <3> HIDE DEF f
      <3> QED
        BY <3>2, <3>3 DEF Injection, IsInjective
    <2>8. IsFiniteSet(1 .. n - 1) /\ Cardinality(1 .. n - 1) = n - 1
      <3>1. n - 1 \in Nat /\ n - 1 \in Int /\ 1 \in Int
        BY <1>1, <2>2
      <3>2. 1 > n - 1 => n - 1 = 0
        BY <2>2, <3>1
      <3> QED
        BY <3>1, <3>2, FS_Interval
    <2>9. Cardinality(1 .. n - 1) <= Cardinality(Ahead(d)')
      <3> HIDE DEF f
      <3> QED
        BY <1>2, <2>7, FS_Injection
    <2> QED
      BY <1>1, <1>2, <2>2, <2>8, <2>9
  <1> QED
    BY <1>3, <1>4

\* Neither a clock read nor a check breaks the queues.
LEMMA LimiterStep == LimiterIInv /\ [Limiter!Next]_(Limiter!vars) => LimiterIInv'
  <1> SUFFICES ASSUME LimiterIInv, [Limiter!Next]_(Limiter!vars) PROVE LimiterIInv'
    OBVIOUS
  <1>1. CASE Limiter!vars' = Limiter!vars \/ Limiter!Tick
    <2>1. /\ UNCHANGED <<key, limiterPc, seen, queue, allowed, cleared, late>>
          /\ now' \in Nat /\ now <= now'
      BY <1>1 DEF Limiter!vars, Limiter!history, Limiter!Tick, LimiterIInv, LimiterTypes
    <2>2. CountedCalls' = CountedCalls /\ \A k : (Limiter!Counts(k))' = Limiter!Counts(k)
      BY <2>1 DEF CountedCalls, Limiter!Counts
    <2>3. LimiterTypes'
      BY <2>1, <2>2 DEF LimiterIInv, LimiterTypes, Limiter!KeysBounded
    <2>4. QueuesAreCounts'
      BY <2>1, <2>2 DEF LimiterIInv, QueuesAreCounts, StandsIn, Limiter!Old
    <2>5. PunctualInBudget' /\ Limiter!RefusedOnlyOverBudget'
      BY <2>1, <2>2 DEF LimiterIInv, PunctualInBudget, Limiter!RefusedOnlyOverBudget,
         Limiter!Through, Limiter!Old
    <2> QED
      BY <2>3, <2>4, <2>5 DEF LimiterIInv
  <1>2. ASSUME NEW c \in LimitedCall, Limiter!ReadClock(c) PROVE LimiterIInv'
    <2>1. /\ UNCHANGED <<now, key, queue, allowed, cleared, late>>
          /\ limiterPc[c] = "idle" /\ limiterPc' = [limiterPc EXCEPT ![c] = "lock"]
          /\ seen' = [seen EXCEPT ![c] = now]
      BY <1>2 DEF Limiter!ReadClock, Limiter!history
    <2>2. /\ CountedCalls' = CountedCalls /\ \A k : (Limiter!Counts(k))' = Limiter!Counts(k)
          /\ \A d \in CountedCalls : seen'[d] = seen[d]
          /\ \A k : Limiter!Counts(k) \subseteq CountedCalls
          /\ \A d \in LimitedCall : limiterPc'[d] = "done" => limiterPc[d] = "done" /\ d \in CountedCalls
      BY <2>1 DEF CountedCalls, Limiter!Counts, LimiterIInv, LimiterTypes
    <2>3. LimiterTypes'
      BY <2>1, <2>2 DEF LimiterIInv, LimiterTypes, Limiter!KeysBounded
    <2>4. ASSUME NEW k, NEW who, StandsIn(k, who) PROVE StandsIn(k, who)'
      <3>1. \A d \in Limiter!Counts(k) : seen'[d] = seen[d]
        BY <2>2
      <3> QED
        BY <2>1, <2>2, <2>4, <3>1 DEF StandsIn, Limiter!Old
    <2>5. QueuesAreCounts'
      BY <2>1, <2>2, <2>4 DEF LimiterIInv, QueuesAreCounts
    <2>6. \A k, t : Limiter!Through(k, t)' = Limiter!Through(k, t)
      BY <2>1, <2>2 DEF Limiter!Through, Limiter!Old
    <2>7. PunctualInBudget'
      BY <2>1, <2>6 DEF LimiterIInv, PunctualInBudget
    <2>8. ASSUME NEW d \in CountedCalls PROVE Ahead(d)' = Ahead(d)
      BY <2>1, <2>2, <2>8 DEF Ahead, Limiter!Old
    <2>9. Limiter!RefusedOnlyOverBudget'
      BY <2>1, <2>2, <2>8 DEF LimiterIInv, Limiter!RefusedOnlyOverBudget, Ahead
    <2> QED
      BY <2>3, <2>5, <2>7, <2>9 DEF LimiterIInv
  <1>3. ASSUME NEW c \in LimitedCall, Limiter!Check(c) PROVE LimiterIInv'
    BY <1>3, CheckTypes, CheckBudget, CheckRefused DEF LimiterIInv
  <1> QED
    BY <1>1, <1>2, <1>3 DEF Limiter!Next

\* Who was let through, and who was refused, by what the queues hold (RateLimiter).
LEMMA LimiterPromise == LimiterIInv => BudgetHolds
  <1> SUFFICES ASSUME LimiterIInv PROVE Limiter!BudgetKept
    BY DEF LimiterIInv, BudgetHolds, Limiter!BudgetHolds
  <1> SUFFICES ASSUME Mode = "block", ~cleared, NEW k \in Key, NEW t \in 0 .. now
               PROVE  Cardinality(Limiter!Through(k, t))
                          <= Budget + Cardinality({c \in late : key[c] = k})
    BY SameCardinality DEF Limiter!BudgetKept
  <1> DEFINE punctual == Limiter!Through(k, t) \ late
             overtaken == {c \in late : key[c] = k}
  <1>1. punctual \in SUBSET CountedCalls /\ overtaken \in SUBSET CountedCalls
    BY DEF Limiter!Through, Limiter!Counts, CountedCalls, LimiterIInv, LimiterTypes
  <1>2. Limiter!Through(k, t) \in SUBSET (punctual \cup overtaken)
    BY DEF Limiter!Through, Limiter!Counts
  <1>3. Cardinality(punctual) <= Budget /\ Budget \in Nat
    BY LimiterAssumption DEF LimiterIInv, LimiterTypes, PunctualInBudget,
       Limiter!ConstantsAssumption
  <1> HIDE DEF punctual, overtaken
  <1>4. IsFiniteSet(CountedCalls)
    BY DEF LimiterIInv, LimiterTypes
  <1>5. /\ IsFiniteSet(punctual) /\ IsFiniteSet(overtaken)
        /\ Cardinality(punctual) \in Nat /\ Cardinality(overtaken) \in Nat
    BY <1>1, <1>4, FS_Subset, FS_CardinalityType
  <1>6. /\ IsFiniteSet(punctual \cup overtaken) /\ IsFiniteSet(punctual \cap overtaken)
        /\ Cardinality(punctual \cup overtaken) =
              Cardinality(punctual) + Cardinality(overtaken)
                  - Cardinality(punctual \cap overtaken)
    BY <1>5, FS_Union, FS_Intersection
  <1>7. /\ Cardinality(punctual \cap overtaken) \in Nat
        /\ Cardinality(punctual \cup overtaken) \in Nat
    BY <1>6, FS_CardinalityType
  <1>8. /\ Cardinality(Limiter!Through(k, t)) <= Cardinality(punctual \cup overtaken)
        /\ Cardinality(Limiter!Through(k, t)) \in Nat
    BY <1>2, <1>6, FS_Subset, FS_CardinalityType
  <1>9. Cardinality(Limiter!Through(k, t)) <= Budget + Cardinality(overtaken)
    BY <1>3, <1>5, <1>6, <1>7, <1>8
  <1> QED
    BY <1>9 DEF overtaken

\* Unless the map was cleared, at most Budget calls of a key get through in any
\* window, and one more for each call that was overtaken between its clock and
\* the lock; a refused call had Budget others of its key before it.
THEOREM BudgetTheorem == Limiter!Spec => []BudgetHolds
  BY LimiterInit, LimiterStep, LimiterPromise, PTL DEF Limiter!Spec
-----------------------------------------------------------------------------
\* The composition: the part that a behaviour exercises keeps its invariant,
\* and the others have given nobody anything.
TablesIInv ==
    /\ part \in {"metadata", "tokens", "limiter", "pool"}
    /\ part = "metadata" => MetaIInv
    /\ part = "tokens" => TokenIInv
    /\ part = "limiter" => LimiterIInv
    /\ part = "pool" => PoolIInv
    /\ part # "metadata" => \A c \in Call : got[c] = {}
    /\ part # "tokens" => \A c \in Call : used[c] = {}
    /\ part # "limiter" => late = {} /\ \A c \in LimitedCall : limiterPc[c] = "idle"
    /\ part # "pool" => \A c \in Call : before[c] = {} /\ client[c] = {}

tablesVars == <<vars, TokensOnly, LimiterOnly, PoolOnly, part>>

\* Every table begins as it does alone.
LEMMA TablesStart == TablesInit => TablesIInv
  <1> SUFFICES ASSUME TablesInit PROVE TablesIInv
    OBVIOUS
  <1>1. MetaIInv /\ TokenIInv /\ LimiterIInv /\ PoolIInv
    BY MetaInit, TokenInit, LimiterInit, PoolInit DEF TablesInit
  <1>2. \A c \in Call : got[c] = {} /\ used[c] = {} /\ before[c] = {} /\ client[c] = {}
    BY DEF TablesInit, Init, Tokens!Init, Pool!Init
  <1>3. late = {} /\ \A c \in LimitedCall : limiterPc[c] = "idle"
    BY DEF TablesInit, Limiter!Init
  <1> QED
    BY <1>1, <1>2, <1>3 DEF TablesInit, TablesIInv

\* A step of one table leaves the others alone.
LEMMA TablesStep == TablesIInv /\ [TablesNext]_tablesVars => TablesIInv'
  <1> SUFFICES ASSUME TablesIInv, [TablesNext]_tablesVars PROVE TablesIInv'
    OBVIOUS
  <1> USE DEF MetadataOnly, TokensOnly, LimiterOnly, PoolOnly
  <1>1. part' = part
    BY DEF TablesNext, tablesVars
  <1>2. CASE part = "metadata"
    <2>1. [Next]_vars /\ UNCHANGED <<TokensOnly, LimiterOnly, PoolOnly>>
      BY <1>2 DEF TablesNext, tablesVars
    <2>2. MetaIInv'
      BY <1>2, <2>1, MetaStep DEF TablesIInv
    <2> QED
      BY <1>1, <1>2, <2>1, <2>2 DEF TablesIInv
  <1>3. CASE part = "tokens"
    <2>1. [Tokens!Next]_(Tokens!vars) /\ UNCHANGED <<MetadataOnly, LimiterOnly, PoolOnly>>
      BY <1>3 DEF TablesNext, tablesVars, vars, Tokens!vars
    <2>2. TokenIInv'
      BY <1>3, <2>1, TokenStep DEF TablesIInv
    <2> QED
      BY <1>1, <1>3, <2>1, <2>2 DEF TablesIInv
  <1>4. CASE part = "limiter"
    <2>1. [Limiter!Next]_(Limiter!vars) /\ UNCHANGED <<MetadataOnly, TokensOnly, PoolOnly>>
      BY <1>4 DEF TablesNext, tablesVars, vars, Limiter!vars, Limiter!history
    <2>2. LimiterIInv'
      BY <1>4, <2>1, LimiterStep DEF TablesIInv
    <2> QED
      BY <1>1, <1>4, <2>1, <2>2 DEF TablesIInv
  <1>5. CASE part = "pool"
    <2>1. [Pool!Next]_(Pool!vars) /\ UNCHANGED <<MetadataOnly, TokensOnly, LimiterOnly>>
      BY <1>5 DEF TablesNext, tablesVars, vars, Pool!vars
    <2>2. PoolIInv'
      BY <1>5, <2>1, PoolStep DEF TablesIInv
    <2> QED
      BY <1>1, <1>5, <2>1, <2>2 DEF TablesIInv
  <1> QED
    BY <1>2, <1>3, <1>4, <1>5 DEF TablesIInv

\* Well-formed: instants in queues of bounded many keys.
LEMMA LimiterTyped == LimiterIInv => Limiter!TypeOK
  <1> SUFFICES ASSUME LimiterIInv PROVE Limiter!TypeOK
    OBVIOUS
  <1>1. ASSUME NEW k \in DOMAIN queue, NEW i \in DOMAIN queue[k] PROVE queue[k][i] <= now
    <2>1. PICK who : StandsIn(k, who)
      BY DEF LimiterIInv, QueuesAreCounts
    <2>2. queue[k] \in Seq(Nat) /\ i \in 1 .. Len(queue[k])
      BY DEF LimiterIInv, LimiterTypes
    <2>3. who[i] \in LimitedCall /\ seen[who[i]] = queue[k][i]
      BY <2>1, <2>2 DEF StandsIn, Limiter!Counts
    <2> QED
      BY <2>3 DEF LimiterIInv, LimiterTypes
  <1>2. late \subseteq LimitedCall
    BY DEF LimiterIInv, LimiterTypes, CountedCalls
  <1> QED
    BY <1>1, <1>2 DEF LimiterIInv, LimiterTypes, Limiter!TypeOK

\* Every table is what its module says, and the calls of all tenants together
\* break none of the promises of the table they share.
THEOREM TablesTypeCorrect == TablesSpec => []TablesTypeOK
  <1>1. TablesIInv => TablesTypeOK
    <2> SUFFICES ASSUME TablesIInv PROVE TablesTypeOK
      OBVIOUS
    <2>1. CASE part = "metadata"
      BY <2>1 DEF TablesTypeOK, TablesIInv, MetaIInv
    <2>2. CASE part = "tokens"
      <3>1. Tokens!Cardinality(oauth) <= 1
        <4>1. \A S : Tokens!Cardinality(S) = Cardinality(S)
          BY DEF Tokens!Cardinality, Cardinality
        <4>2. Cardinality(oauth) <= 1
          <5>1. oauth = {} \/ \E k \in oauth : oauth = {k}
            BY <2>2 DEF TablesIInv, TokenIInv, OneCached
          <5>2. CASE oauth = {}
            BY <5>2, FS_EmptySet
          <5>3. CASE \E k \in oauth : oauth = {k}
            <6>1. PICK k : oauth = {k}
              BY <5>3
            <6>2. Cardinality({k}) = 1
              BY FS_Singleton
            <6> QED
              BY <6>1, <6>2
          <5> QED
            BY <5>1, <5>2, <5>3
        <4> QED
          BY <4>1, <4>2
      <3> QED
        BY <2>2, <3>1 DEF TablesTypeOK, TablesIInv, TokenIInv, TokenTypes, Tokens!TypeOK
    <2>3. CASE part = "limiter"
      BY <2>3, LimiterTyped DEF TablesTypeOK, TablesIInv
    <2>4. CASE part = "pool"
      BY <2>4 DEF TablesTypeOK, TablesIInv, PoolIInv, PoolTypes, PooledAreShared, Pool!TypeOK
    <2> QED
      BY <2>1, <2>2, <2>3, <2>4 DEF TablesIInv
  <1> QED
    BY TablesStart, TablesStep, <1>1, PTL DEF TablesSpec, tablesVars

\* However long a behaviour is and whichever table it exercises, none of the
\* promises of any of them is broken.
THEOREM TablesKeepTheirPromises ==
    TablesSpec => [](StalenessBounded /\ ServedWhileValid /\ BudgetHolds /\ OneClientEach)
  <1> DEFINE Promises == StalenessBounded /\ ServedWhileValid /\ BudgetHolds /\ OneClientEach
  <1>1. TablesIInv => Promises
    <2> SUFFICES ASSUME TablesIInv PROVE Promises
      OBVIOUS
    <2>1. StalenessBounded
      <3>1. CASE part = "metadata"
        BY <3>1, MetaPromise DEF TablesIInv
      <3>2. CASE part # "metadata"
        BY <3>2 DEF TablesIInv, StalenessBounded
      <3> QED
        BY <3>1, <3>2
    <2>2. ServedWhileValid
      <3>1. CASE part = "tokens"
        BY <3>1, TokenPromise DEF TablesIInv
      <3>2. CASE part # "tokens"
        BY <3>2 DEF TablesIInv, ServedWhileValid, Tokens!ServedWhileValid
      <3> QED
        BY <3>1, <3>2
    <2>3. BudgetHolds
      <3>1. CASE part = "limiter"
        BY <3>1, LimiterPromise DEF TablesIInv
      <3>2. CASE part # "limiter"
        <4>1. \A k, t : Limiter!Through(k, t) = {} /\ {c \in late : key[c] = k} = {}
          BY <3>2 DEF TablesIInv, Limiter!Through, Limiter!Counts
        <4>2. Limiter!RefusedOnlyOverBudget
          BY <3>2 DEF TablesIInv, Limiter!RefusedOnlyOverBudget
        <4>3. Limiter!BudgetKept
          <5>1. Limiter!Cardinality({}) = 0 /\ Budget \in Nat
            BY FS_EmptySet, SameCardinality, LimiterAssumption DEF Limiter!ConstantsAssumption
          <5>2. 0 <= Budget + 0
            BY <5>1
          <5> QED
            BY <4>1, <5>1, <5>2 DEF Limiter!BudgetKept
        <4> QED
          BY <4>2, <4>3 DEF BudgetHolds, Limiter!BudgetHolds
      <3> QED
        BY <3>1, <3>2
    <2>4. OneClientEach
      <3>1. CASE part = "pool"
        BY <3>1, PoolPromise DEF TablesIInv
      <3>2. CASE part # "pool"
        BY <3>2 DEF TablesIInv, OneClientEach, Pool!OneClientEach, Pool!OneClientButForRaces,
           Pool!OverrideStaysOwn
      <3> QED
        BY <3>1, <3>2
    <2> QED
      BY <2>1, <2>2, <2>3, <2>4
  <1> HIDE DEF Promises
  <1>2. TablesSpec => []Promises
    BY TablesStart, TablesStep, <1>1, PTL DEF TablesSpec, tablesVars
  <1> QED
    BY <1>2 DEF Promises
=============================================================================
