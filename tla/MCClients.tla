------------------------------ MODULE MCClients ------------------------------
(***************************************************************************)
(* What connects the clients: the loop of a WebSocket or of the stdio      *)
(* transport, and a channel of the HTTP transport with its streams. They   *)
(* share no state, so a behaviour exercises one of them, the one part      *)
(* names.                                                                  *)
(***************************************************************************)
EXTENDS Connection

CONSTANTS MaxAnswers, Reader, Capacity

VARIABLES open, tail, state, from, next, got, behind, part

Stream == INSTANCE EventStream

ASSUME CapacityAssumption == Stream!ConstantsAssumption

StreamVars == <<open, tail, state, from, next, got, behind>>

ClientsInit == Init /\ Stream!Init /\ part \in {"connection", "stream"}

ConnectionOnly == UNCHANGED <<StreamVars, part>>
StreamOnly     == UNCHANGED <<vars, part>>

ClientsNext ==
    \/ part = "connection" /\ Next /\ ConnectionOnly
    \/ part = "stream" /\ Stream!Next /\ StreamOnly

clientsVars == <<vars, StreamVars, part>>

\* The fairness of the parts: a loop is polled, and so is a stream that is read.
ClientsSpec ==
    /\ ClientsInit /\ [][ClientsNext]_clientsVars
    /\ WF_clientsVars(part = "connection" /\ Loop /\ ConnectionOnly)
    /\ \A r \in Reader : WF_clientsVars(part = "stream" /\ Stream!Read(r) /\ StreamOnly)

\* The properties of the parts (Connection, EventStream).
NothingLostWithinCapacity == Stream!NothingLostWithinCapacity
StreamsAdvance            == Stream!StreamsAdvance
=============================================================================
