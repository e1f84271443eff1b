----------------------------- MODULE MCGatedWrite -----------------------------
EXTENDS GatedWrite, TLC

CONSTANTS Omit

\* An admin and a tenant that may use one of the two instances; "i1" is the
\* default. The admin may override the pooled credentials.
MCTenant   == {"admin", "t2"}
MCFull     == {"admin"}
MCInstance == {"i1", "i2"}
MCScope    == [t \in MCTenant |-> IF t = "t2" THEN {"i2"} ELSE {}]
MCCred     == {"pooled", "own"}
MCFp       == [k \in MCCred |-> IF k = "pooled" THEN "none" ELSE "ovr"]
MCEntity   == {"E", "Denied"}
MCAllowed  == {"E"}

P(inst, entity, op, keys, num, fp) ==
    [inst |-> inst, entity |-> entity, op |-> op, keys |-> keys,
     fields |-> {"f"}, num |-> num, fp |-> fp]

R(tool, tenant, inst, cred, p) ==
    [tool |-> tool, tenant |-> tenant, inst |-> inst, cred |-> cred,
     entity |-> p.entity, token |-> [p EXCEPT !.num = "integer"], payload |-> p,
     confirm |-> TRUE]

Create  == P("i1", "E", "create", "absent", "float", "none")
Create2 == P("i2", "E", "create", "absent", "float", "none")
Update  == P("i1", "E", "update", "bad", "integer", "none")
Delete  == P("i1", "E", "delete", "good", "integer", "none")
Own     == P("i1", "E", "create", "absent", "float", "ovr")
Barred  == P("i1", "Denied", "create", "absent", "float", "none")

\* One validated create, spent by every kind of caller, right and wrong.
MCCreates == {
    R("validate", "admin", Omit, "pooled", Create),
    R("execute",  "admin", Omit, "pooled", Create),
    R("create",   "admin", "i1", "pooled", Create),
    R("create",   "admin", "i2", "pooled", Create),
    R("create",   "t2",    "i1", "pooled", Create),
    R("delete",   "admin", "i1", "pooled", Create),
    R("execute",  "admin", Omit, "own",    Create),
    R("validate", "admin", Omit, "own",    Create),
    R("execute",  "admin", Omit, "own",    Own)}

\* Two instances, the other operations, a denied entity, forged approvals.
MCMixed == {
    R("validate", "t2",    "i2", "pooled", Create),
    R("validate", "admin", "i1", "pooled", Create),
    R("create",   "t2",    "i2", "pooled", Create),
    R("create",   "t2",    "i2", "pooled", Create2),
    R("create",   "admin", "i2", "pooled", [Create2 EXCEPT !.num = "integer"]),
    R("execute",  "t2",    Omit, "pooled", Create2),
    R("validate", "admin", "i1", "pooled", Update),
    R("execute",  "admin", Omit, "pooled", Update),
    R("validate", "admin", "i1", "pooled", Delete),
    R("delete",   "admin", "i1", "pooled", Delete),
    R("execute",  "admin", Omit, "pooled", Barred),
    [R("create",  "t2",    "i2", "pooled", Create2) EXCEPT !.confirm = FALSE],
    [R("execute", "admin", Omit, "pooled", Create) EXCEPT !.token = Delete]}

MCAll == MCCreates \cup MCMixed

MCMetadata == {[known |-> {"f"}], [known |-> {}]}

MCSymmetry == Permutations(Call)
=============================================================================
