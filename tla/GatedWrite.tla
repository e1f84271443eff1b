------------------------------ MODULE GatedWrite ------------------------------
(***************************************************************************)
(* The gated write path of src/handler.rs: validate_write registers an     *)
(* approval, execute_approved_write or a direct create/update/delete       *)
(* spends it and sends the write to SAP.                                   *)
(*                                                                         *)
(* A handler runs without yielding between two awaits, so an action is     *)
(* what a call does from one await to the next; the calls interleave there.*)
(* The sections of the approval table inside an action are atomic here:    *)
(* ApprovalStore takes them apart. One write is one request that SAP       *)
(* applies at most once, maybe after its caller gave up: SapClient shows   *)
(* how retries and CSRF refreshes keep that true.                          *)
(***************************************************************************)
EXTENDS Approvals

CONSTANTS
    Call,             \* tool calls, each handled once
    Tenant, Instance, Entity, Field, Cred,
    FullTenant,       \* the tenants that may use every instance
    Scope,            \* the instances of each Restricted tenant
    Configured,       \* the instances of the pool
    DefaultInstance,  \* SapPool.default
    AllowedEntity,    \* SAP_ENTITY_ALLOW / SAP_ENTITY_DENY
    WritesEnabled,    \* SAP_MCP_ENABLE_WRITES
    OverrideAllowed,  \* SAP_MCP_ALLOW_AUTH_OVERRIDE
    Pooled,           \* the credentials of a call that overrides none
    Fp,               \* auth_fp of each credentials
    Omitted,          \* an absent argument
    Throttling,       \* whether the rate limiter may refuse a call
    AuditFaults,      \* whether an audit line may fail to be written
    Requests,         \* the requests explored
    Metadata,         \* what $metadata may say of an entity when it is read:
                      \* its properties and the operations its flags advertise
    MaxTime, MaxRestarts

Operation == {"create", "update", "delete"}
Payload == [inst : Instance, entity : Entity, op : Operation, num : NumberForm,
            fields : SUBSET Field, keys : {"absent", "good", "bad"}, fp : {Fp[k] : k \in Cred}]
Request == [tool : {"validate", "execute"} \cup Operation, tenant : Tenant,
            inst : Instance \cup {Omitted}, cred : Cred, entity : Entity,
            token : Payload, payload : Payload, confirm : BOOLEAN]

ASSUME ConstantsAssumption ==
    /\ FullTenant \subseteq Tenant
    /\ Scope \in [Tenant -> SUBSET Instance]
    /\ DefaultInstance \in Instance /\ Configured \subseteq Instance
    /\ Pooled \in Cred /\ AllowedEntity \subseteq Entity
    /\ Requests \subseteq Request
    /\ Metadata \subseteq [known : SUBSET Field]
    /\ {WritesEnabled, OverrideAllowed, Throttling, AuditFaults} \subseteq BOOLEAN

VARIABLES
    now,       \* the clock of the approval table
    restarts,  \* restarts so far
    store,     \* ApprovalStore
    req,       \* the request of each call
    pc,        \* the await each call is at
    result,    \* how each call ended
    spent,     \* history: the entry each call consumed
    saw,       \* history: the metadata each validation judged by
    wire,      \* the write of each call, as SAP sees it
    audited    \* the execute line each call left in the audit log

vars == <<now, restarts, store, req, pc, result, spent, saw, wire, audited>>

Entry == [token : Payload, payload : Payload, expires : Nat, by : Call]
-----------------------------------------------------------------------------
\* The map of execute_approved_write has no instance: it gets the default.
Resolved(r) ==
    IF r.tool = "execute" \/ r.inst = Omitted THEN DefaultInstance ELSE r.inst

\* Tenant::check
MayUse(t, i) == t \in FullTenant \/ i \in Scope[t]

\* What the call is about, where it goes and as whom: the payload that
\* validate_write builds from its arguments.
PayloadOf(r) == [r.payload EXCEPT !.inst = Resolved(r), !.fp = Fp[r.cred]]

\* The checks of execute_op before it dispatches, the limiter's aside; the
\* write tools are exposed, and run, only when writes are enabled.
Admitted(r) ==
    /\ MayUse(r.tenant, Resolved(r))
    /\ Resolved(r) \in Configured
    /\ r.cred # Pooled => r.tenant \in FullTenant /\ OverrideAllowed
    /\ r.tool # "execute" => r.entity \in AllowedEntity
    /\ r.tool # "validate" => WritesEnabled /\ r.confirm

\* Wrong variant of PresentsRight: any instance will do.
PresentsRightAnywhere(r) == r.payload.fp = Fp[r.cred]

\* The approval names the instance and the credentials of this call.
PresentsRight(r) == r.payload.inst = Resolved(r) /\ r.payload.fp = Fp[r.cred]

\* The checks that come after the approval has been consumed.
Executable(r) ==
    /\ r.payload.entity \in AllowedEntity
    /\ r.tool # "execute" =>
          PresentsRight(r) /\ r.entity = r.payload.entity /\ r.tool = r.payload.op

HardFail(p, md) ==
    \/ ~(p.fields \subseteq md.known)                  \* unknown_property
    \/ p.op # "create" /\ p.keys = "absent"            \* keys_required_...

\* The entry a consume by this call would accept now.
Held(r) == Redeemable(store, r.token, r.payload, now)
-----------------------------------------------------------------------------
Init ==
    /\ now = 0 /\ restarts = 0 /\ store = {}
    /\ req \in [Call -> Requests]
    /\ pc = [c \in Call |-> "idle"]
    /\ result = [c \in Call |-> "none"]
    /\ spent = [c \in Call |-> {}]
    /\ saw = [c \in Call |-> {}]
    /\ wire = [c \in Call |-> "none"]
    /\ audited = [c \in Call |-> "none"]

Goto(c, at) == pc' = [pc EXCEPT ![c] = at] /\ UNCHANGED result
End(c, how) == pc' = [pc EXCEPT ![c] = "done"] /\ result' = [result EXCEPT ![c] = how]

\* audit() is fail-open: the line may be lost, the call goes on.
Audit(c, line) ==
    \E lost \in {FALSE, AuditFaults} :
        audited' = IF lost THEN audited ELSE [audited EXCEPT ![c] = line]

Quiet == UNCHANGED <<now, restarts, req>>

\* execute_op returns early: refused at the choke point, or over budget.
Refuse(c) ==
    /\ pc[c] = "idle"
    /\ ~Admitted(req[c]) \/ Throttling
    /\ End(c, "error")
    /\ Quiet /\ UNCHANGED <<store, spent, saw, wire, audited>>

\* validate_write, up to the await of the metadata.
StartValidate(c) ==
    /\ pc[c] = "idle" /\ req[c].tool = "validate" /\ Admitted(req[c])
    /\ Goto(c, "metadata")
    /\ Quiet /\ UNCHANGED <<store, spent, saw, wire, audited>>

\* No metadata, no such entity, or values that are no object.
NotValidatable(c) ==
    /\ pc[c] = "metadata"
    /\ End(c, "error")
    /\ Quiet /\ UNCHANGED <<store, spent, saw, wire, audited>>

\* The rest of validate_write: an approval is stored unless an issue is hard;
\* an operation the entity does not advertise is an issue, not a hard one.
Judge(c, md) ==
    LET p == PayloadOf(req[c])
        e == [token |-> TokenOf(p), payload |-> p, expires |-> now + Ttl, by |-> c]
    IN  /\ pc[c] = "metadata"
        /\ saw' = [saw EXCEPT ![c] = {md}]
        /\ store' = IF HardFail(p, md) THEN store ELSE Inserted(Swept(store, now), e)
        /\ End(c, "ok")
        /\ Quiet /\ UNCHANGED <<spent, wire, audited>>

\* Wrong variant of Mismatch: the approval is consumed before it is compared.
MismatchSpending(c) ==
    /\ pc[c] = "idle" /\ req[c].tool = "execute" /\ Admitted(req[c])
    /\ ~PresentsRight(req[c])
    /\ End(c, "error") /\ Audit(c, "rejected")
    /\ store' = Swept(store, now) \ Held(req[c])
    /\ Quiet /\ UNCHANGED <<spent, saw, wire>>

\* execute_approved_write checks instance and credentials before it consumes.
Mismatch(c) ==
    /\ pc[c] = "idle" /\ req[c].tool = "execute" /\ Admitted(req[c])
    /\ ~PresentsRight(req[c])
    /\ End(c, "error") /\ Audit(c, "rejected")
    /\ Quiet /\ UNCHANGED <<store, spent, saw, wire>>

\* Wrong variant of Consumes: validity is checked, nothing is removed.
ConsumesKeeping(c) ==
    /\ pc[c] = "idle" /\ req[c].tool # "validate" /\ Admitted(req[c])
    /\ req[c].tool = "execute" => PresentsRight(req[c])
    /\ spent' = [spent EXCEPT ![c] = Held(req[c])]
    /\ store' = Swept(store, now)
    /\ Quiet /\ UNCHANGED <<saw, wire>>

\* A write call gets as far as approvals.consume.
Consumes(c) ==
    /\ pc[c] = "idle" /\ req[c].tool # "validate" /\ Admitted(req[c])
    /\ req[c].tool = "execute" => PresentsRight(req[c])
    /\ spent' = [spent EXCEPT ![c] = Held(req[c])]
    /\ store' = Swept(store, now) \ Held(req[c])
    /\ Quiet /\ UNCHANGED <<saw, wire>>

\* Nothing to consume. Only execute_approved_write logs it.
NotHeld(c) ==
    /\ Consumes(c) /\ Held(req[c]) = {}
    /\ End(c, "error")
    /\ IF req[c].tool = "execute" THEN Audit(c, "rejected") ELSE UNCHANGED audited

\* Consumed, and then refused: the approval is gone.
Burn(c) ==
    /\ Consumes(c) /\ Held(req[c]) # {} /\ ~Executable(req[c])
    /\ End(c, "error")
    /\ UNCHANGED audited

Claim(c) ==
    /\ Consumes(c) /\ Held(req[c]) # {} /\ Executable(req[c])
    /\ Goto(c, IF req[c].payload.op = "create" THEN "write" ELSE "keys")
    /\ UNCHANGED audited

\* key_for: the metadata is awaited and a failure of it ignored; keys that no
\* segment can be made of end the call.
FormKey(c) ==
    /\ pc[c] = "keys"
    /\ IF req[c].payload.keys = "good" THEN Goto(c, "write") ELSE End(c, "error")
    /\ Quiet /\ UNCHANGED <<store, spent, saw, wire, audited>>

\* No CSRF token, no connection: the write never leaves.
CannotSend(c) ==
    /\ pc[c] = "write"
    /\ End(c, "error")
    /\ Quiet /\ UNCHANGED <<store, spent, saw, wire, audited>>

Send(c) ==
    /\ pc[c] = "write"
    /\ wire' = [wire EXCEPT ![c] = "sent"]
    /\ Goto(c, "reply")
    /\ Quiet /\ UNCHANGED <<store, spent, saw, audited>>

\* SAP decides when the request reaches it, whoever is still waiting.
SapDecides(c, verdict) ==
    /\ wire[c] = "sent"
    /\ wire' = [wire EXCEPT ![c] = verdict]
    /\ Quiet /\ UNCHANGED <<store, pc, result, spent, saw, audited>>

\* Wrong variant of ReplyOk: success is reported when the request has left.
ReplyOkEarly(c) ==
    /\ pc[c] = "reply" /\ wire[c] \in {"sent", "applied"}
    /\ End(c, "ok") /\ Audit(c, "ok")
    /\ Quiet /\ UNCHANGED <<store, spent, saw, wire>>

ReplyOk(c) ==
    /\ pc[c] = "reply" /\ wire[c] = "applied"
    /\ End(c, "ok") /\ Audit(c, "ok")
    /\ Quiet /\ UNCHANGED <<store, spent, saw, wire>>

\* An error status, a lost answer or timeout_ms: `?' leaves before the audit.
ReplyErr(c) ==
    /\ pc[c] = "reply"
    /\ End(c, "error")
    /\ Quiet /\ UNCHANGED <<store, spent, saw, wire, audited>>

\* The HTTP client disconnects: the handler's future is dropped at an await.
Disconnect(c) ==
    /\ pc[c] \notin {"idle", "done"}
    /\ End(c, "dropped")
    /\ Quiet /\ UNCHANGED <<store, spent, saw, wire, audited>>

\* The process dies and comes back: the table lives in memory only.
Restart ==
    /\ restarts < MaxRestarts
    /\ restarts' = restarts + 1
    /\ store' = {}
    /\ pc' = [c \in Call |-> IF pc[c] = "idle" THEN "idle" ELSE "done"]
    /\ result' = [c \in Call |->
                    IF pc[c] \in {"idle", "done"} THEN result[c] ELSE "dropped"]
    /\ UNCHANGED <<now, req, spent, saw, wire, audited>>

Tick ==
    /\ now < MaxTime
    /\ now' = now + 1
    /\ UNCHANGED <<restarts, store, req, pc, result, spent, saw, wire, audited>>

\* What the runtime and the timeouts push a running call to.
Proceed(c) ==
    \/ NotValidatable(c) \/ (\E md \in Metadata : Judge(c, md))
    \/ FormKey(c) \/ CannotSend(c) \/ Send(c) \/ ReplyOk(c) \/ ReplyErr(c)

Arrive(c) ==
    Refuse(c) \/ StartValidate(c) \/ Mismatch(c) \/ NotHeld(c) \/ Burn(c) \/ Claim(c)

Next ==
    \/ \E c \in Call : Arrive(c) \/ Proceed(c) \/ Disconnect(c)
    \/ \E c \in Call, verdict \in {"applied", "refused"} : SapDecides(c, verdict)
    \/ Restart
    \/ Tick

Spec == Init /\ [][Next]_vars
-----------------------------------------------------------------------------
TypeOK ==
    /\ now \in Nat /\ restarts \in Nat
    /\ store \subseteq Entry
    /\ \A e, f \in store : e.token = f.token => e = f
    /\ req \in [Call -> Requests]
    /\ pc \in [Call -> {"idle", "metadata", "keys", "write", "reply", "done"}]
    /\ result \in [Call -> {"none", "ok", "error", "dropped"}]
    /\ spent \in [Call -> SUBSET Entry]
    /\ saw \in [Call -> SUBSET Metadata]
    /\ wire \in [Call -> {"none", "sent", "applied", "refused"}]
    /\ audited \in [Call -> {"none", "ok", "rejected"}]

\* One validation lets one write out, whatever is retried, dropped, restarted
\* or of unknown outcome (gated.rs:101, README.md:27 "single-use").
OneWritePerValidation ==
    \A c, d \in Call :
        wire[c] # "none" /\ wire[d] # "none" /\ c # d
        => \A e \in spent[c], f \in spent[d] : e.by # f.by

\* What goes to SAP (body, instance, credentials) is what some validation
\* found free of hard issues: nothing is swapped between the two calls.
WritesMatchValidation ==
    \A c \in Call : wire[c] # "none" =>
        \E v \in Call : \E md \in saw[v] :
            /\ req[v].tool = "validate" /\ pc[v] = "done"
            /\ ~HardFail(PayloadOf(req[v]), md)
            /\ PayloadOf(req[c]) = PayloadOf(req[v])

\* A write stays within what its own caller may do, although the instance and
\* the entity it goes to are named by the approval and not by the call.
WritesStayInScope ==
    \A c \in Call : wire[c] # "none" =>
        /\ MayUse(req[c].tenant, req[c].payload.inst)
        /\ req[c].payload.entity \in AllowedEntity
        /\ req[c].payload.op # "create" => req[c].payload.keys = "good"

\* An audit line that says "ok" stands for a write that SAP applied for the
\* validation the caller presented.
AuditTellsTruth ==
    \A c \in Call : audited[c] = "ok" => wire[c] = "applied" /\ spent[c] # {}

\* A call of the trio that is refused, for another instance, other
\* credentials or no confirmation, leaves the approval to the right caller.
RefusalKeepsApproval ==
    [][\A c \in Call :
          ( /\ pc[c] = "idle" /\ pc'[c] = "done" /\ result'[c] = "error"
            /\ req[c].tool = "execute" /\ req[c].payload.entity \in AllowedEntity )
          => \A e \in store \ store' : e.expires <= now]_vars

\* README.md:27: validate, then execute_approved_write {approval, confirm}. A
\* caller that confirms a live approval of its own, for an instance it may
\* use, with the credentials it was validated with, gets it accepted.
TrioHonoursLive ==
    [][\A c \in Call :
          ( /\ pc[c] = "idle" /\ pc'[c] # "idle" /\ req[c].tool = "execute" /\ req[c].confirm
            /\ Held(req[c]) # {} /\ req[c].payload.fp = Fp[req[c].cred]
            /\ MayUse(req[c].tenant, req[c].payload.inst) )
          => spent'[c] # {}]_vars

-----------------------------------------------------------------------------
\* The write path as a whole issues one-shot grants: a restart and the clock
\* lapse them, and a call that burns one has redeemed it too.
Registered == {c \in Call : \E md \in saw[c] : ~HardFail(PayloadOf(req[c]), md)}
AsGrant(e) == [by |-> e.by, item |-> e.payload]
Issued   == {[by |-> c, item |-> PayloadOf(req[c])] : c \in Registered}
Live     == {AsGrant(e) : e \in {f \in store : now < f.expires}}
Redeemed == UNION {{[grant |-> AsGrant(e), claim |-> c] : e \in spent[c]} : c \in Call}

Grants == INSTANCE OneShotGrant WITH
    Party <- Call, Item <- {PayloadOf(r) : r \in Requests},
    issued <- Issued, live <- Live, redeemed <- Redeemed

ImplementsGrants == Grants!Spec

\* What SAP is sent is all that happens to it: for its caller, a call that
\* writes is a RemoteWrite, which SapClient implements. A validation is none,
\* and who was dropped is told nothing.
Effects == [c \in Call |-> IF wire[c] = "applied" THEN 1 ELSE 0]
Told == [c \in Call |-> IF req[c].tool # "validate" /\ result[c] # "dropped" THEN result[c] ELSE "none"]

Remote == INSTANCE RemoteWrite WITH Task <- Call, effects <- Effects, answer <- Told

ImplementsRemoteWrite == Remote!Spec

\* A gated write keeps both promises: an approval of a validation is a grant
\* that is redeemed once, by a call that is a write of one effect and a
\* truthful answer (execute_approved_write and SapClient, handler.rs:468).
ImplementsPromises == ImplementsGrants /\ ImplementsRemoteWrite
=============================================================================
