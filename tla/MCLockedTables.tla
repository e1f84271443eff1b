---------------------------- MODULE MCLockedTables ----------------------------
(***************************************************************************)
(* The tables whose users take their locks several times within one call:  *)
(* the approvals, and the session tables of the HTTP transport. They share *)
(* the clock and no state, so a behaviour exercises one of them, the one   *)
(* part names.                                                             *)
(***************************************************************************)
EXTENDS ApprovalStore, TLC

CONSTANTS Tenant, None, SessionTtl, Spare, MaxSessions, SessionMaxTime

VARIABLES sessions, sse, bound, stage, request, began, acts, answered, part

Http == INSTANCE HttpSessions WITH MaxTime <- SessionMaxTime,
                                   pc <- stage, job <- request, seen <- began

ASSUME SessionsAssumption == Http!ConstantsAssumption

ApprovalsOnly == <<store, pc, job, seen, spent>>
SessionsOnly  == <<sessions, sse, bound, stage, request, began, acts, answered>>

\* The operations on approvals that are not exercised stay one kind of look-up.
LockedInit ==
    /\ part \in {"approvals", "sessions"}
    /\ Init /\ Http!Init
    /\ part = "sessions" => job = [c \in Call |-> CHOOSE j \in Jobs : j.kind = "is_valid"]

LockedNext ==
    \/ part = "approvals" /\ Next /\ UNCHANGED <<SessionsOnly, part>>
    \/ part = "sessions" /\ Http!Next /\ UNCHANGED <<ApprovalsOnly, part>>

LockedSpec == LockedInit /\ [][LockedNext]_<<vars, SessionsOnly, part>>

\* The properties of the sessions (HttpSessions): one entry for an id, and what
\* it promises.
SessionsTypeOK       == Http!TypeOK
SessionsHaveChannels == Http!SessionsHaveChannels
BoundTenantHolds     == Http!BoundTenantHolds
YoungSessionsStay    == Http!YoungSessionsStay
LegacyAnswered       == Http!LegacyAnswered

\* One write written with either number form, and a second write.
MCPayload == {[write |-> "w1", num |-> "integer"],
              [write |-> "w1", num |-> "float"],
              [write |-> "w2", num |-> "integer"]}
MCSymmetry == Permutations(Call) \cup Permutations(Tenant)
=============================================================================
