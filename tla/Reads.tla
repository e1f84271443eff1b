-------------------------------- MODULE Reads --------------------------------
(***************************************************************************)
(* The read path of src/handler.rs behind the choke point: discover,       *)
(* entity_metadata, read, read_one and the resources, with the envelopes   *)
(* that src/sap_client.rs takes off the answers of SAP and the field       *)
(* policy that is applied to what is left.                                 *)
(*                                                                         *)
(* A record is the set of the paths to its values: <<"Price">> is its own  *)
(* property, <<"ToItems", "Price">> one of an expanded entity. Keys are    *)
(* the properties, the entities that can be expanded, and what SAP adds.   *)
(***************************************************************************)
EXTENDS FieldPolicy

CONSTANTS Instance,
          Entity,       \* entity sets, also the keys they are expanded under
          Set,          \* the entity sets of the $metadata document
          Allowed,      \* what entity_allowed lets through
          PropsOf,      \* the properties of the type behind each entity set
          Added,        \* keys that SAP adds to each object: __metadata, @odata.etag
          D,            \* the key "d" of the V2 envelope
          File,         \* policy files
          SelectOf,     \* the selections that are asked for, of each entity set
          Expand,       \* the sets of entities that a call expands
          MaxRows       \* bound on the records of an answer

\* Documents assumes it: a rule of a file is for an instance and a set or all,
\* and its lists are lists or not.
ConstantsAssumption ==
    /\ Set \subseteq Entity
    /\ \A w \in File : \A r \in w.rules :
          /\ r = [instance |-> r.instance, model |-> r.model, allow |-> r.allow, deny |-> r.deny]
          /\ r.instance \in Instance \cup {Star} /\ r.model \in Entity \cup {Star}
          /\ \A l \in r.allow : r.allow = {l}

VARIABLES file, policy, error,  \* the policy file, and what was made of it
          listed,     \* the entity sets of the last discover, if any
          announced,  \* the last entity_metadata, if any
          answer,     \* the last read or read_one, if any
          refused     \* the entities the gate has refused

vars == <<file, policy, error, listed, announced, answer, refused>>

\* Handler::new loads the policy, once.
Init ==
    /\ file \in File
    /\ LET p == Loaded(file) IN policy = p.policy /\ error = p.error
    /\ listed = {} /\ announced = {} /\ answer = {} /\ refused = {}
-----------------------------------------------------------------------------
\* discover and sap://entities, before the query of a discover is applied.
Discover ==
    /\ listed' = {Set \cap Allowed}
    /\ UNCHANGED <<file, policy, error, announced, answer, refused>>

\* The entity gate stands before the metadata and the query.
Gate(e) == e \in Allowed

Refuse(e) ==
    /\ ~Gate(e)
    /\ refused' = {e} /\ answer' = {}
    /\ UNCHANGED <<file, policy, error, listed, announced>>

\* Wrong variant of annotate_acl: the rules of all entities are left out.
annotate_acl_own(i, e) ==
    {f \in PropsOf[e] : is_denied({r \in policy : r.model = e}, i, e, f)}
\* The properties of the type that are marked as restricted.
annotate_acl(i, e) == {f \in PropsOf[e] : is_denied(policy, i, e, f)}

\* entity_metadata and sap://entity/..., of an entity the document knows.
EntityMetadata(i, e) ==
    /\ Gate(e) /\ e \in Set
    /\ announced' = {[instance |-> i, entity |-> e, restricted |-> annotate_acl(i, e)]}
    /\ UNCHANGED <<file, policy, error, listed, answer, refused>>

\* What SAP answers for an entity: the selected properties, what it adds
\* itself, and the expanded entities with all they have.
Rec(e, select, expand) ==
    {<<f>> : f \in select} \cup {<<k>> : k \in Added}
        \cup UNION {{<<n, g>> : g \in PropsOf[n]} : n \in expand}

\* The envelopes of SAP: a list (V2 d.results, V4 value, a bare array), one
\* entity as V2 or as V4 sends it, or a text that is no JSON.
Envelope == {"list", "d", "entity", "text"}

\* normalize_collection: lists are unpacked, and all else is one record: the
\* V4 entity, the V2 entity with the "d" around it, or the text.
normalize_collection(envelope, recs) ==
    IF envelope = "d"
    THEN <<{<<D>> \o p : p \in recs[1]}>>
    ELSE IF envelope = "text" THEN <<{<<>>}>> ELSE recs

\* redact_collection of what normalize_collection makes of the answer.
Answered(i, e, envelope, recs) ==
    redact_records(policy, i, e, normalize_collection(envelope, recs))

Give(i, e, envelope, recs) ==
    /\ answer' = {[instance |-> i, entity |-> e, envelope |-> envelope, sent |-> recs,
                   recs |-> Answered(i, e, envelope, recs)]}
    /\ refused' = {}
    /\ UNCHANGED <<file, policy, error, listed, announced>>

\* read: a collection, or a text where SAP answers with something else.
Read(i, e, select, expand, rows, envelope) ==
    /\ Gate(e)
    /\ envelope \in {"list", "text"}
    /\ Give(i, e, envelope, [k \in 1 .. rows |-> Rec(e, select, expand)])

\* read_one: one entity in the envelope of V2 or V4.
ReadOne(i, e, select, expand, envelope) ==
    /\ Gate(e)
    /\ envelope \in {"d", "entity", "text"}
    /\ Give(i, e, envelope, <<Rec(e, select, expand)>>)

Next ==
    \/ Discover
    \/ \E e \in Entity : Refuse(e)
    \/ \E i \in Instance, e \in Entity : EntityMetadata(i, e)
    \/ \E i \in Instance, e \in Entity, expand \in Expand, envelope \in Envelope :
          \E select \in SelectOf[e] :
              \/ ReadOne(i, e, select, expand, envelope)
              \/ \E rows \in 0 .. MaxRows : Read(i, e, select, expand, rows, envelope)

Spec == Init /\ [][Next]_vars
-----------------------------------------------------------------------------
TypeOK ==
    /\ \A r \in policy : r.instance \in Instance \cup {Star} /\ r.model \in Entity \cup {Star}
    /\ error \in BOOLEAN
    /\ \A l \in listed : l \subseteq Entity
    /\ \A a \in announced : a.restricted \subseteq PropsOf[a.entity]
    /\ \A r \in answer : r.envelope # "text" => DOMAIN r.recs = DOMAIN r.sent
    /\ refused \subseteq Entity

\* What entity_metadata marks as restricted is what a read of the same entity
\* strips, and it strips no other property (annotate_acl against
\* redact_collection), whatever the rules: for every record that is not
\* inside a V2 envelope for one entity.
StrippedAsAnnounced ==
    \A a \in announced, r \in answer :
        a.instance = r.instance /\ a.entity = r.entity /\ r.envelope \notin {"d", "text"} =>
            \A k \in DOMAIN r.recs, f \in PropsOf[r.entity] :
                <<f>> \in r.recs[k] <=> <<f>> \in r.sent[k] /\ f \notin a.restricted

\* An entity set that is listed can be read and one that is not is refused,
\* by its metadata and by its records (handler.rs:146, 311 against 287).
ListedIsReadable ==
    \A l \in listed :
        /\ l \cap refused = {}
        /\ \A x \in announced \cup answer : x.entity \in Set => x.entity \in l

\* The rules of the file are in force, or the status shows an error: unless
\* the file has its rules at the root and is not a dedicated one, or has
\* something else than an array for a list.
PolicyInForce ==
    \/ error
    \/ policy = file.rules
    \/ file.found = "nowhere"
    \/ ~file.wrapped /\ file.found # "dedicated"
    \/ \E w \in file.rules : w.allow = {NotAList} \/ w.deny = NotAList

\* A read does what the file, the list of entities and their metadata announce.
RedactedAsAnnounced == PolicyInForce /\ ListedIsReadable /\ StrippedAsAnnounced

\* "Strip ACL-denied properties from read results" (redact_collection): no
\* denied property of the entity that was read leaves. The V2 envelope of one
\* entity hides its properties from the policy.
DeniedStays ==
    \A r \in answer : \A k \in DOMAIN r.recs, f \in PropsOf[r.entity] :
        <<f>> \in r.recs[k] \/ <<D, f>> \in r.recs[k]
            => ~is_denied(policy, r.instance, r.entity, f)
=============================================================================
