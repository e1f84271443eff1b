----------------------------- MODULE FieldPolicy -----------------------------
(***************************************************************************)
(* The field policy of src/field_acl.rs: which properties of an entity are *)
(* kept from the callers of an instance, and how the policy file is read.  *)
(*                                                                         *)
(* A policy is a set of rules, at most one for a pair of patterns. The     *)
(* allow list of a rule is optional: a set of at most one list.            *)
(***************************************************************************)
EXTENDS Naturals, Sequences

CONSTANTS Star, \* the pattern "*"
          Id    \* the property "id"

\* The rules for the instance or "*", and in them for the model or "*".
rules_for(policy, instance, model) ==
    {r \in policy : r.instance \in {instance, Star} /\ r.model \in {model, Star}}

\* The deny lists add up, the allow lists intersect, and id is never denied.
is_denied(policy, instance, model, field) ==
    LET rules == rules_for(policy, instance, model)
    IN  /\ field # Id
        /\ \/ \E r \in rules : field \in r.deny
           \/ \E r \in rules : \E list \in r.allow : field \notin list

\* A record is the set of the paths to its values. Keys are looked at on the
\* first level only, and a record that is no object, {<<>>}, is left alone.
redact_record(policy, instance, model, rec) ==
    {p \in rec : p = <<>> \/ ~is_denied(policy, instance, model, Head(p))}

redact_records(policy, instance, model, recs) ==
    [k \in DOMAIN recs |-> redact_record(policy, instance, model, recs[k])]
-----------------------------------------------------------------------------
(***************************************************************************)
(* A policy file: where it was found (named by SAP_MCP_FIELD_POLICY_FILE,  *)
(* by SAP_MCP_POLICY_FILE, at a default place, or nowhere), whether it can *)
(* be read and parsed, whether its rules stand under "field_acl", and the  *)
(* rules, whose lists may be something else than arrays.                   *)
(***************************************************************************)
CONSTANT NotAList

parse_rule(w) ==
    [instance |-> w.instance, model |-> w.model,
     allow |-> w.allow \ {NotAList},
     deny  |-> IF w.deny = NotAList THEN {} ELSE w.deny]

\* Only a dedicated file may hold the rules at its root.
AclOf(file) ==
    IF file.wrapped \/ file.found = "dedicated" THEN file.rules ELSE {}

\* A file that cannot be read or parsed leaves no rule, and an error that the
\* status shows.
Loaded(file) ==
    IF file.found = "nowhere" THEN [policy |-> {}, error |-> FALSE]
    ELSE IF file.text # "json" THEN [policy |-> {}, error |-> TRUE]
    ELSE [policy |-> {parse_rule(w) : w \in AclOf(file)}, error |-> FALSE]
=============================================================================
