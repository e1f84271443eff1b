---------------------------- MODULE MCSharedTables ----------------------------
(***************************************************************************)
(* The tables that the calls of all tenants fill while others look: the    *)
(* $metadata of the services, the access token of a client, the windows of *)
(* the rate limiter and the pool of clients. They share no state, so a     *)
(* behaviour exercises one of them, the one part names.                    *)
(***************************************************************************)
EXTENDS MetadataCache, TLC

CONSTANTS Skew, Floor, Lifetime, TokenMaxTime,
          LimitedCall, Key, Mode, Window, Budget, MaxKeys, LimiterMaxTime,
          Unknown

VARIABLES oauth, used,
          key, seen, queue, allowed, cleared, late, limiterPc,
          pool, inst, override, may, client, before, part

Tokens  == INSTANCE OAuthTokens WITH MaxTime <- TokenMaxTime
Limiter == INSTANCE RateLimiter WITH Call <- LimitedCall, MaxTime <- LimiterMaxTime,
                                     pc <- limiterPc
Pool    == INSTANCE ClientPool

ASSUME TokensAssumption == Tokens!ConstantsAssumption
ASSUME LimiterAssumption == Limiter!ConstantsAssumption

MetadataOnly == <<ttl, deployed, broken, cache, want, asked, got>>
TokensOnly   == <<oauth, used>>
LimiterOnly  == <<key, seen, queue, allowed, cleared, late, limiterPc>>
PoolOnly     == <<pool, inst, override, may, client, before>>

\* The parts a behaviour does not exercise stay at one initial state.
TablesInit ==
    /\ part \in {"metadata", "tokens", "limiter", "pool"}
    /\ part # "metadata" => \E s \in Slot : ttl = 0 /\ want = [c \in Call |-> s]
    /\ part # "limiter" => key = [c \in LimitedCall |-> CHOOSE k \in Key : TRUE]
    /\ part # "pool" => override = {} /\ inst = [c \in Call |-> Unknown]
    /\ Init /\ Tokens!Init /\ Limiter!Init /\ Pool!Init

TablesNext ==
    \/ part = "metadata" /\ Next /\ UNCHANGED <<TokensOnly, LimiterOnly, PoolOnly, part>>
    \/ part = "tokens" /\ Tokens!Next /\ UNCHANGED <<MetadataOnly, LimiterOnly, PoolOnly, part>>
    \/ /\ part = "limiter" /\ Limiter!Next
       /\ UNCHANGED <<MetadataOnly, TokensOnly, PoolOnly, pc, reply, part>>
    \/ /\ part = "pool" /\ Pool!Next
       /\ UNCHANGED <<MetadataOnly, TokensOnly, LimiterOnly, now, reply, part>>

TablesSpec ==
    TablesInit /\ [][TablesNext]_<<vars, TokensOnly, LimiterOnly, PoolOnly, part>>

\* Each table is what its module says: one entry for a key, no empty window, as
\* many keys as it may have.
TablesTypeOK ==
    CASE part = "metadata" -> TypeOK
      [] part = "tokens"   -> Tokens!TypeOK
      [] part = "limiter"  -> Limiter!TypeOK
      [] part = "pool"     -> Pool!TypeOK

\* The properties of the parts (OAuthTokens, RateLimiter, ClientPool).
ServedWhileValid     == Tokens!ServedWhileValid
BudgetHolds          == Limiter!BudgetHolds
OneClientEach        == Pool!OneClientEach

\* A tick of the token's clock is 30 s: half the floor, skew and floor, more.
MCLifetime == {1, 4, 5}
MCSymmetry == Permutations(Call) \cup Permutations(Instance)
=============================================================================
