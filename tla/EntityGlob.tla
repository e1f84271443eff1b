------------------------------ MODULE EntityGlob ------------------------------
(***************************************************************************)
(* entity_allowed and glob_match of src/config.rs: which entities          *)
(* SAP_ENTITY_DENY and SAP_ENTITY_ALLOW let a call name.                   *)
(*                                                                         *)
(* A name is a sequence of letters. A pattern is the sequence of its       *)
(* parts, the literals between its stars: "a*" is <<<<a>>, <<>>>>. Empty   *)
(* patterns are dropped before they are used and are no patterns here.     *)
(***************************************************************************)
EXTENDS Integers, SequencesExt

CONSTANTS Entity,  \* the names entities may have
          Pattern  \* the patterns the two variables may hold

\* Documents assumes it: names and parts are finite, and no pattern is empty.
ConstantsAssumption ==
    /\ \A e \in Entity : e \in Seq(ToSet(e))
    /\ \A p \in Pattern : /\ p \in Seq(ToSet(p)) /\ Len(p) > 0 /\ p # <<<<>>>>
                          /\ \A part \in ToSet(p) : part \in Seq(ToSet(part))

VARIABLES deny, allow,  \* the two variables of the environment
          entity,       \* the entity a call names
          verdict       \* what entity_allowed said: none or one

vars == <<deny, allow, entity, verdict>>

-----------------------------------------------------------------------------
IsAt(s, part, i) == i + Len(part) <= Len(s) /\ SubSeq(s, i + 1, i + Len(part)) = part

\* Looked for from the left from i on, part is found at j.
FirstFrom(s, part, i, j) ==
    /\ i <= j /\ IsAt(s, part, j)
    /\ \A k \in i .. j - 1 : ~IsAt(s, part, k)

\* The loop finds the first n parts at these places: the first at the
\* beginning of the name, each other in what is left behind the one before.
Found(pat, s, n, at) ==
    /\ at[1] = 0 /\ IsAt(s, pat[1], 0)
    /\ \A k \in 1 .. n - 1 : FirstFrom(s, pat[k + 1], at[k] + Len(pat[k]), at[k + 1])

\* Wrong variant of EndsHere: the name may go on behind the last part.
EndsHereOrNot(pat, s, end) == TRUE
\* A last star takes what is left.
EndsHere(pat, s, end) == (Len(pat) > 1 /\ Last(pat) = <<>>) \/ end = Len(s)

glob_match(pat, s) ==
    \E at \in [1 .. Len(pat) -> 0 .. Len(s)] :
        Found(pat, s, Len(pat), at) /\ EndsHere(pat, s, at[Len(pat)] + Len(Last(pat)))

entity_allowed(d, a, e) ==
    /\ \A p \in d : ~glob_match(p, e)
    /\ a = {} \/ \E p \in a : glob_match(p, e)

-----------------------------------------------------------------------------
\* Each variable is unset or holds one pattern.
Lists == {{}} \cup {{p} : p \in Pattern}

Init ==
    /\ deny \in Lists /\ allow \in Lists
    /\ entity \in Entity
    /\ verdict = {}

Decide ==
    /\ verdict = {}
    /\ verdict' = {entity_allowed(deny, allow, entity)}
    /\ UNCHANGED <<deny, allow, entity>>

Spec == Init /\ [][Decide]_vars

-----------------------------------------------------------------------------
\* What a glob says: the parts stand in the name one behind another, the
\* first at its beginning and the last at its end.
Means(pat, s) ==
    \E at \in [1 .. Len(pat) -> 0 .. Len(s)] :
        /\ at[1] = 0 /\ at[Len(pat)] + Len(Last(pat)) = Len(s)
        /\ \A i \in 1 .. Len(pat) : IsAt(s, pat[i], at[i])
        /\ \A i \in 1 .. Len(pat) - 1 : at[i] + Len(pat[i]) <= at[i + 1]

\* The last part of the pattern is in the name more than once.
Repeats(pat, s) ==
    \E i, j \in 0 .. Len(s) : i # j /\ IsAt(s, Last(pat), i) /\ IsAt(s, Last(pat), j)

\* No pattern matches what it does not mean: with an allow list, a call only
\* reaches entities the list means, and none is refused for a deny pattern
\* that does not mean it.
MatchesAreMeant ==
    \A v \in verdict :
        /\ v /\ allow # {} => \E p \in allow : Means(p, entity)
        /\ ~v /\ allow = {} => \E p \in deny : Means(p, entity)

\* The verdict is the one the patterns mean, deny before allow, for every name
\* in which the last part of no pattern stands twice: the leftmost search
\* goes wrong nowhere else.
ExactUnlessRepeated ==
    \A v \in verdict :
        \/ v = /\ \A p \in deny : ~Means(p, entity)
               /\ allow = {} \/ \E p \in allow : Means(p, entity)
        \/ \E p \in deny \cup allow : Last(p) # <<>> /\ Repeats(p, entity)

\* What entity_allowed decides is what the patterns say.
DecidedAsMeant == MatchesAreMeant /\ ExactUnlessRepeated

\* "Deny wins" (entity_allowed): a denied entity is not allowed. The last part
\* of a pattern is looked for from the left and not at the end, so "*a" does
\* not deny "aba".
DenyWins == TRUE \in verdict => \A p \in deny : ~Means(p, entity)
=============================================================================
