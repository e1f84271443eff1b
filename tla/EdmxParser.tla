------------------------------ MODULE EdmxParser ------------------------------
(***************************************************************************)
(* parse_edmx of src/sap_client.rs, one action per XML event, and          *)
(* entity_meta of src/handler.rs, which looks an entity up in what it      *)
(* returns. The parser keeps no tree: a few variables say where it is in   *)
(* the document. The document is any well-formed $metadata of MaxEvents    *)
(* events, written as it is read; what it means is kept beside.            *)
(*                                                                         *)
(* Properties and keys are sets of names: their types, nullability and     *)
(* order, and the flags of the entity sets, are left out.                  *)
(***************************************************************************)
EXTENDS Naturals

CONSTANTS Name,      \* names of entity types and of entity sets
          Prop,      \* names of properties
          MaxEvents  \* bound on the document

VARIABLES
    cur_type, cur_props, cur_keys, cur_base, in_key, in_complex,
    types,    \* entity_types
    sets,     \* entity_sets
    ctx,      \* the element the document is in
    owner,    \* the entity type the document is in: none or one
    meant,    \* history: the entity types of the document
    listed,   \* history: the entity sets of the document
    bare,     \* history: whether a <ComplexType/> was self-closing
    events    \* events so far

parser == <<cur_type, cur_props, cur_keys, cur_base, in_key, in_complex, types, sets>>
scope == <<cur_type, cur_base, in_key, in_complex>>
vars == <<parser, ctx, owner, meant, listed, bare, events>>

Optional(S) == {{}} \cup {{x} : x \in S}
TypeOf == [props : SUBSET Prop, keys : SUBSET Prop, base : Optional(Name)]

\* A map with one more entry.
Put(f, n, t) == [m \in DOMAIN f \cup {n} |-> IF m = n THEN t ELSE f[m]]

Init ==
    /\ cur_type = {} /\ cur_props = {} /\ cur_keys = {} /\ cur_base = {}
    /\ in_key = FALSE /\ in_complex = FALSE
    /\ types = [n \in {} |-> {}] /\ sets = {}
    /\ ctx = "schema" /\ owner = {} /\ meant = types /\ listed = {}
    /\ bare = FALSE /\ events = 0

\* The next event of the document leads from one element to another.
Event(from, to) ==
    /\ events < MaxEvents /\ events' = events + 1
    /\ ctx = from /\ ctx' = to

Unwritten == UNCHANGED <<owner, meant, listed, bare>>

\* Wrong variant of Cleared: the accumulators keep what they hold.
ClearedNot == UNCHANGED <<cur_props, cur_keys>>
Cleared == cur_props' = {} /\ cur_keys' = {}

\* <EntityType Name="n" BaseType="b">
EntityType(n, b) ==
    /\ Event("schema", "entity") /\ n \notin DOMAIN meant
    /\ owner' = {n} /\ meant' = Put(meant, n, [props |-> {}, keys |-> {}, base |-> b])
    /\ cur_type' = {n} /\ cur_base' = b /\ Cleared
    /\ UNCHANGED <<in_key, in_complex, types, sets, listed, bare>>

\* Wrong variant of Finalized: it is opened like any other.
FinalizedNot(n, b) ==
    /\ cur_type' = {n} /\ cur_base' = b
    /\ UNCHANGED <<types, cur_props, cur_keys>>

\* A self-closing entity type is finalized at once.
Finalized(n, b) ==
    /\ types' = Put(types, n, [props |-> {}, keys |-> {}, base |-> b])
    /\ UNCHANGED <<cur_type, cur_props, cur_keys, cur_base>>

\* <EntityType Name="n" BaseType="b"/>
EmptyEntityType(n, b) ==
    /\ Event("schema", "schema") /\ n \notin DOMAIN meant
    /\ meant' = Put(meant, n, [props |-> {}, keys |-> {}, base |-> b])
    /\ Finalized(n, b)
    /\ UNCHANGED <<in_key, in_complex, sets, owner, listed, bare>>

\* </EntityType>
EndEntityType ==
    /\ Event("entity", "schema") /\ owner' = {}
    /\ \E n \in cur_type :
         types' = Put(types, n, [props |-> cur_props, keys |-> cur_keys, base |-> cur_base])
    /\ cur_type' = {} /\ cur_base' = {} /\ Cleared
    /\ UNCHANGED <<in_key, in_complex, sets, meant, listed, bare>>

\* <Key> and </Key>
Key ==
    /\ Event("entity", "key") /\ in_key' = TRUE /\ Unwritten
    /\ UNCHANGED <<cur_type, cur_props, cur_keys, cur_base, in_complex, types, sets>>
EndKey ==
    /\ Event("key", "entity") /\ in_key' = FALSE /\ Unwritten
    /\ UNCHANGED <<cur_type, cur_props, cur_keys, cur_base, in_complex, types, sets>>

\* <PropertyRef Name="p"/>, in a key or in the constraint of an association.
KeyRef(p) == cur_keys' = IF in_key THEN cur_keys \cup {p} ELSE cur_keys

PropertyRef(p) ==
    /\ \/ /\ Event("key", "key")
          /\ \E n \in owner : meant' = [meant EXCEPT ![n].keys = @ \cup {p}]
       \/ Event("association", "association") /\ meant' = meant
    /\ KeyRef(p)
    /\ UNCHANGED <<scope, cur_props, types, sets, owner, listed, bare>>

\* <Property Name="p"/>, of an entity type or of a complex type.
Owned(p) == cur_props' = IF cur_type # {} /\ ~in_complex THEN cur_props \cup {p} ELSE cur_props

Property(p) ==
    /\ \/ /\ Event("entity", "entity")
          /\ \E n \in owner : meant' = [meant EXCEPT ![n].props = @ \cup {p}]
       \/ Event("complex", "complex") /\ meant' = meant
    /\ Owned(p)
    /\ UNCHANGED <<scope, cur_keys, types, sets, owner, listed, bare>>

\* <ComplexType>, <ComplexType/> and </ComplexType>
Complex ==
    /\ in_complex' = TRUE
    /\ UNCHANGED <<cur_type, cur_props, cur_keys, cur_base, in_key, types, sets>>
ComplexType == Event("schema", "complex") /\ Complex /\ Unwritten
EmptyComplexType ==
    /\ Event("schema", "schema") /\ Complex
    /\ bare' = TRUE /\ UNCHANGED <<owner, meant, listed>>
EndComplexType ==
    /\ Event("complex", "schema") /\ Unwritten
    /\ in_complex' = FALSE
    /\ UNCHANGED <<cur_type, cur_props, cur_keys, cur_base, in_key, types, sets>>

\* <EntitySet Name="n" EntityType="t"/>
EntitySet(n, t) ==
    LET s == [name |-> n, type |-> t]
    IN  /\ Event("container", "container") /\ \A l \in listed : l.name # n
        /\ listed' = listed \cup {s} /\ sets' = sets \cup {s}
        /\ UNCHANGED <<scope, cur_props, cur_keys, types, owner, meant, bare>>

\* The elements around these, which the parser passes over.
Other ==
    /\ \E c \in {"association", "container"} : Event("schema", c) \/ Event(c, "schema")
    /\ Unwritten /\ UNCHANGED parser

Next ==
    \/ \E n \in Name, b \in Optional(Name) : EntityType(n, b) \/ EmptyEntityType(n, b)
    \/ EndEntityType \/ Key \/ EndKey
    \/ \E p \in Prop : PropertyRef(p) \/ Property(p)
    \/ ComplexType \/ EmptyComplexType \/ EndComplexType
    \/ \E n, t \in Name : EntitySet(n, t)
    \/ Other

Spec == Init /\ [][Next]_vars

-----------------------------------------------------------------------------
\* Wrong variant of EntityMeta: a type of that name goes before the set's.
EntityMetaByName(e) ==
    LET named == {s.type : s \in {s \in sets : s.name = e}}
        own == {e} \cap DOMAIN types
    IN {types[n] : n \in IF own = {} THEN named \cap DOMAIN types ELSE own}

\* What entity_meta returns of an entity: none or one type. The type of the
\* set of that name, else the type of that name.
EntityMeta(e) ==
    LET named == {s.type : s \in {s \in sets : s.name = e}}
        first == (IF named = {} THEN {e} ELSE named) \cap DOMAIN types
    IN {types[n] : n \in IF first = {} THEN {e} \cap DOMAIN types ELSE first}

-----------------------------------------------------------------------------
\* The parser's variables and results have their types, and it is in a key or
\* in an entity type only where the document is.
TypeOK ==
    /\ cur_type \in Optional(Name) /\ cur_base \in Optional(Name)
    /\ cur_props \subseteq Prop /\ cur_keys \subseteq Prop
    /\ cur_type = owner /\ in_key = (ctx = "key")
    /\ DOMAIN types \subseteq Name /\ \A n \in DOMAIN types : types[n] \in TypeOf
    /\ sets \subseteq [name : Name, type : Name]

\* No property or key reaches an entity type that is not its own: what the
\* accumulators cur_props and cur_keys hold when a type is finalized came
\* from that type alone, whatever complex types, associations and
\* self-closing elements stood before it.
NothingForeign ==
    \A n \in DOMAIN types :
        /\ n \in DOMAIN meant
        /\ types[n].props \subseteq meant[n].props
        /\ types[n].keys \subseteq meant[n].keys
        /\ types[n].base = meant[n].base

\* Outside entity types, a set of the document leads entity_meta to its own
\* type as the document has it, once the type was read and unless a
\* self-closing complex type was.
FoundWhole ==
    ctx \notin {"entity", "key"} /\ ~bare =>
        \A s \in listed : s.type \in DOMAIN meant =>
            EntityMeta(s.name) = {meant[s.type]}

\* validate_write judges the fields of an entity by its own properties: all of
\* them, and at no time any of another (handle_open, entity_meta).
MetaOfItsType == NothingForeign /\ FoundWhole

\* "Self-closing <EntityType/> is finalized immediately so no state leaks"
\* (handle_open), but a self-closing complex type sets in_complex and nothing
\* resets it: the properties of the types behind it are lost.
ParsedAsMeant == ctx = "schema" => types = meant
=============================================================================
