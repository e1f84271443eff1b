------------------------------ MODULE Approvals ------------------------------
(***************************************************************************)
(* The approval table of src/gated.rs as a value: what a token is, and     *)
(* what each critical section of ApprovalStore does to the table.          *)
(*                                                                         *)
(* The HashMap<String, Entry> is a set of entries with distinct tokens.    *)
(* An entry also carries `by', the call that registered it: a history      *)
(* field, the code does not store it and no operator below reads it.       *)
(***************************************************************************)
EXTENDS Naturals

CONSTANT Ttl      \* APPROVAL_TTL_SECS, in clock ticks

ASSUME TtlAssumption == Ttl \in Nat \ {0}

\* How the integral numbers of a JSON payload are written: 3 or 3.0.
NumberForm == {"integer", "float"}

\* canonical() sorts object keys (a JSON value has no key order here) and
\* rewrites every integral float as an integer.
Canonical(p) == [p EXCEPT !.num = "integer"]

\* build_approval_token: a digest of the canonical payload. The 128 digest
\* bits are taken as collision free, so the token is the canonical payload.
TokenOf(p) == Canonical(p)

\* Wrong variant of Swept: the last tick of an entry is taken from it.
SweptEarly(table, t) == {e \in table : e.expires > t + 1}

\* sweep() with the instant t it read before it took the lock.
Swept(table, t) == {e \in table : e.expires > t}

\* Wrong variant of Inserted: the entry a token had before stays.
InsertedBeside(table, e) == table \cup {e}

\* HashMap::insert of the entry under its token.
Inserted(table, e) == {f \in table : f.token # e.token} \cup {e}

\* Wrong variants of Redeemable: the payload, the expiry is not looked at.
RedeemableByToken(table, tok, p, t) == {e \in table : e.token = tok /\ e.expires > t}
RedeemableExpired(table, tok, p, t) == {e \in table : e.token = tok /\ e.payload = p}

\* The entry that consume and is_valid accept: at most one, as tokens are
\* distinct.
Redeemable(table, tok, p, t) ==
    {e \in table : e.token = tok /\ e.expires > t /\ e.payload = p}
=============================================================================
