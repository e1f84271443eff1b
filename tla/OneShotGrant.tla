----------------------------- MODULE OneShotGrant -----------------------------
(***************************************************************************)
(* What an approval table promises, without clocks, locks or tokens: a     *)
(* grant is issued once for one item, may lapse at any moment, and is      *)
(* redeemed at most once, by one claim, for the item it was issued for.    *)
(***************************************************************************)
CONSTANTS Party,   \* whoever issues a grant or claims one
          Item     \* what is granted

VARIABLES issued,    \* every grant ever made
          live,      \* the grants that can still be redeemed
          redeemed   \* the redemptions so far

vars == <<issued, live, redeemed>>

Grant == [by : Party, item : Item]
Redemption == [grant : Grant, claim : Party]

Init == issued = {} /\ live = {} /\ redeemed = {}

\* A new grant may displace others.
Issue(g) ==
    /\ \A h \in issued : h.by # g.by
    /\ issued' = issued \cup {g}
    /\ g \in live'
    /\ live' \subseteq live \cup {g}
    /\ UNCHANGED redeemed

Redeem(g, k) ==
    /\ g \in live
    /\ live' = live \ {g}
    /\ redeemed' = redeemed \cup {[grant |-> g, claim |-> k]}
    /\ UNCHANGED issued

Lapse ==
    /\ live' \subseteq live
    /\ UNCHANGED <<issued, redeemed>>

Next ==
    \/ Lapse
    \/ \E g \in live, k \in Party : Redeem(g, k)
    \/ \E g \in Grant : Issue(g)

Spec == Init /\ [][Next]_vars
-----------------------------------------------------------------------------
\* No two redemptions spend the same grant, and a redeemed grant is dead.
OneShot ==
    /\ \A r \in redeemed : r.grant \in issued \ live
    /\ \A r, s \in redeemed : r.grant.by = s.grant.by => r = s
=============================================================================
