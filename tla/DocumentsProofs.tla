---------------------------- MODULE DocumentsProofs ----------------------------
(***************************************************************************)
(* What holds of every document: the $metadata of any length is parsed     *)
(* without mixing its types, any policy file is enforced as it is          *)
(* announced, and any environment shows a client what it can reach.        *)
(***************************************************************************)
EXTENDS Documents, Sequences, FiniteSetTheorems, SequenceTheorems, WellFoundedInduction, TLAPS

\* The parser: what the document means, so far.
MeantTypes ==
    /\ meant \in [DOMAIN meant -> TypeOf] /\ DOMAIN meant \subseteq Name
    /\ types \in [DOMAIN types -> TypeOf]

\* The accumulators hold what the document gave the type it is in, which is
\* not finalized yet, and nothing else.
OwnerOpen ==
    /\ owner # {} <=> ctx \in {"entity", "key"}
    /\ \A n \in owner :
          /\ owner = {n} /\ n \in DOMAIN meant \ DOMAIN types
          /\ cur_base = meant[n].base
          /\ cur_props \subseteq meant[n].props /\ cur_keys \subseteq meant[n].keys

\* Unless a complex type was self-closing they hold all of it, and so does
\* what was finalized.
NothingMissing ==
    ~bare => /\ in_complex = (ctx = "complex")
             /\ DOMAIN meant \subseteq DOMAIN types \cup owner
             /\ \A n \in owner : cur_props = meant[n].props /\ cur_keys = meant[n].keys
             /\ \A n \in DOMAIN types : types[n] = meant[n]

SetsAsListed == sets = listed /\ \A k, l \in listed : k.name = l.name => k = l

ParserIInv ==
    /\ TypeOK /\ MeantTypes /\ OwnerOpen /\ NothingForeign /\ NothingMissing /\ SetsAsListed
-----------------------------------------------------------------------------
\* The parser begins outside any type.
LEMMA ParserInit == Init => ParserIInv
  <1> SUFFICES ASSUME Init PROVE ParserIInv
    OBVIOUS
  <1>1. DOMAIN types = {} /\ DOMAIN meant = {} /\ owner = {} /\ listed = {} /\ sets = {}
    BY DEF Init
  <1>2. TypeOK
    BY <1>1 DEF Init, TypeOK, Optional
  <1>3. MeantTypes
    BY <1>1 DEF Init, MeantTypes
  <1> QED
    BY <1>1, <1>2, <1>3
       DEF Init, ParserIInv, OwnerOpen, NothingForeign, NothingMissing, SetsAsListed

\* A type that the document has not had yet begins.
LEMMA ParserOpens ==
  ASSUME ParserIInv, NEW n \in Name, NEW b \in Optional(Name), EntityType(n, b)
  PROVE  ParserIInv'
  <1> DEFINE t == [props |-> {}, keys |-> {}, base |-> b]
  <1>1. /\ UNCHANGED <<in_key, in_complex, types, sets, listed, bare>>
        /\ ctx = "schema" /\ ctx' = "entity" /\ n \notin DOMAIN meant
        /\ owner' = {n} /\ cur_type' = {n} /\ cur_base' = b /\ cur_props' = {} /\ cur_keys' = {}
        /\ meant' = [m \in DOMAIN meant \cup {n} |-> IF m = n THEN t ELSE meant[m]]
    BY DEF EntityType, Event, Cleared, Put
  <1>2. t \in TypeOf /\ t.props = {} /\ t.keys = {} /\ t.base = b
    BY DEF TypeOf
  <1> HIDE DEF t
  <1>3. /\ DOMAIN meant' = DOMAIN meant \cup {n} /\ meant'[n] = t
        /\ \A m \in DOMAIN meant : meant'[m] = meant[m]
    BY <1>1
  <1>4. TypeOK'
    BY <1>1 DEF ParserIInv, TypeOK, Optional
  <1>5. MeantTypes'
    BY <1>1, <1>2 DEF ParserIInv, MeantTypes
  <1>6. n \notin DOMAIN types
    BY <1>1 DEF ParserIInv, NothingForeign
  <1>7. OwnerOpen'
    BY <1>1, <1>2, <1>3, <1>6 DEF OwnerOpen
  <1>8. NothingForeign'
    BY <1>1, <1>3 DEF ParserIInv, NothingForeign
  <1>9. NothingMissing'
    <2> SUFFICES ASSUME ~bare PROVE NothingMissing'
      BY <1>1 DEF NothingMissing
    <2>1. owner = {}
      BY <1>1 DEF ParserIInv, OwnerOpen
    <2>2. in_complex' = (ctx' = "complex") /\ DOMAIN meant' \subseteq DOMAIN types' \cup owner'
      BY <1>1, <1>3, <2>1 DEF ParserIInv, NothingMissing
    <2>3. \A m \in DOMAIN types' : types'[m] = meant'[m]
      BY <1>1, <1>3 DEF ParserIInv, NothingMissing, NothingForeign
    <2>4. \A m \in owner' : cur_props' = meant'[m].props /\ cur_keys' = meant'[m].keys
      BY <1>1, <1>2, <1>3
    <2> QED
      BY <2>2, <2>3, <2>4 DEF NothingMissing
  <1>10. SetsAsListed'
    BY <1>1 DEF ParserIInv, SetsAsListed
  <1> QED
    BY <1>4, <1>5, <1>7, <1>8, <1>9, <1>10 DEF ParserIInv

\* A self-closing type is open at no time.
LEMMA ParserPasses ==
  ASSUME ParserIInv, NEW n \in Name, NEW b \in Optional(Name), EmptyEntityType(n, b)
  PROVE  ParserIInv'
  <1> DEFINE t == [props |-> {}, keys |-> {}, base |-> b]
  <1>1. /\ UNCHANGED <<cur_type, cur_props, cur_keys, cur_base, in_key, in_complex, sets>>
        /\ UNCHANGED <<owner, listed, bare>>
        /\ ctx = "schema" /\ ctx' = "schema" /\ n \notin DOMAIN meant
        /\ meant' = [m \in DOMAIN meant \cup {n} |-> IF m = n THEN t ELSE meant[m]]
        /\ types' = [m \in DOMAIN types \cup {n} |-> IF m = n THEN t ELSE types[m]]
    BY DEF EmptyEntityType, Event, Finalized, Put
  <1>2. t \in TypeOf
    BY DEF TypeOf
  <1> HIDE DEF t
  <1>3. /\ DOMAIN meant' = DOMAIN meant \cup {n} /\ meant'[n] = t
        /\ \A m \in DOMAIN meant : meant'[m] = meant[m]
        /\ DOMAIN types' = DOMAIN types \cup {n} /\ types'[n] = t
        /\ n \notin DOMAIN types /\ \A m \in DOMAIN types : types'[m] = types[m]
    BY <1>1 DEF ParserIInv, NothingForeign
  <1>4. TypeOK'
    BY <1>1, <1>2, <1>3 DEF ParserIInv, TypeOK
  <1>5. MeantTypes'
    BY <1>1, <1>2 DEF ParserIInv, MeantTypes
  <1>6. owner = {} /\ OwnerOpen'
    BY <1>1 DEF ParserIInv, OwnerOpen
  <1>7. NothingForeign'
    BY <1>3 DEF ParserIInv, NothingForeign
  <1>8. NothingMissing'
    BY <1>1, <1>3, <1>6 DEF ParserIInv, NothingMissing, NothingForeign
  <1>9. SetsAsListed'
    BY <1>1 DEF ParserIInv, SetsAsListed
  <1> QED
    BY <1>4, <1>5, <1>6, <1>7, <1>8, <1>9 DEF ParserIInv

\* What the accumulators hold becomes the type.
LEMMA ParserCloses == ParserIInv /\ EndEntityType => ParserIInv'
  <1> SUFFICES ASSUME ParserIInv, EndEntityType PROVE ParserIInv'
    OBVIOUS
  <1>1. /\ UNCHANGED <<in_key, in_complex, sets, meant, listed, bare>>
        /\ ctx = "entity" /\ ctx' = "schema" /\ owner' = {}
        /\ cur_type' = {} /\ cur_base' = {} /\ cur_props' = {} /\ cur_keys' = {}
    BY DEF EndEntityType, Event, Cleared
  <1>2. PICK n \in cur_type :
           types' = Put(types, n, [props |-> cur_props, keys |-> cur_keys, base |-> cur_base])
    BY DEF EndEntityType
  <1> DEFINE t == [props |-> cur_props, keys |-> cur_keys, base |-> cur_base]
  <1>3. /\ t \in TypeOf /\ t.props = cur_props /\ t.keys = cur_keys /\ t.base = cur_base
        /\ n \in Name
    BY <1>2 DEF TypeOf, ParserIInv, TypeOK, Optional
  <1>4. types' = [m \in DOMAIN types \cup {n} |-> IF m = n THEN t ELSE types[m]]
    BY <1>2 DEF Put
  <1> HIDE DEF t
  <1>5. /\ owner = {n} /\ n \in DOMAIN meant \ DOMAIN types /\ cur_base = meant[n].base
        /\ cur_props \subseteq meant[n].props /\ cur_keys \subseteq meant[n].keys
    BY <1>2 DEF ParserIInv, TypeOK, OwnerOpen
  <1>6. /\ DOMAIN types' = DOMAIN types \cup {n} /\ types'[n] = t
        /\ \A m \in DOMAIN types : types'[m] = types[m]
    BY <1>4, <1>5
  <1>7. TypeOK'
    BY <1>1, <1>3, <1>6 DEF ParserIInv, TypeOK, Optional
  <1>8. MeantTypes' /\ OwnerOpen'
    BY <1>1, <1>3, <1>4 DEF ParserIInv, MeantTypes, OwnerOpen
  <1>9. NothingForeign'
    BY <1>1, <1>3, <1>5, <1>6 DEF ParserIInv, NothingForeign
  <1>10. NothingMissing'
    <2> SUFFICES ASSUME ~bare PROVE NothingMissing'
      BY <1>1 DEF NothingMissing
    <2>1. t = meant[n]
      <3>1. meant[n] \in TypeOf
        BY <1>5 DEF ParserIInv, MeantTypes
      <3>2. cur_props = meant[n].props /\ cur_keys = meant[n].keys /\ cur_base = meant[n].base
        BY <1>5 DEF ParserIInv, NothingMissing
      <3> QED
        BY <3>1, <3>2 DEF t, TypeOf
    <2> QED
      BY <1>1, <1>5, <1>6, <2>1 DEF ParserIInv, NothingMissing
  <1>11. SetsAsListed'
    BY <1>1 DEF ParserIInv, SetsAsListed
  <1> QED
    BY <1>7, <1>8, <1>9, <1>10, <1>11 DEF ParserIInv

\* Both accumulators grow by what the document gives the open type: a property
\* or a key, elsewhere than in a complex type or an association.
LEMMA ParserGathers ==
  ASSUME ParserIInv, NEW n \in owner, NEW P \in SUBSET Prop, NEW K \in SUBSET Prop,
         UNCHANGED <<scope, types, sets, owner, listed, bare, ctx>>,
         NEW t \in TypeOf, t.props = meant[n].props \cup P, t.keys = meant[n].keys \cup K,
         t.base = meant[n].base, meant' = [meant EXCEPT ![n] = t],
         cur_props' \in {cur_props, cur_props \cup P}, cur_keys' = cur_keys \cup K,
         ~bare => cur_props' = cur_props \cup P
  PROVE  ParserIInv'
  <1>1. n \in DOMAIN meant \ DOMAIN types /\ owner = {n}
    BY DEF ParserIInv, OwnerOpen
  <1>2. /\ DOMAIN meant' = DOMAIN meant /\ meant'[n] = t
        /\ \A m \in DOMAIN meant : m # n => meant'[m] = meant[m]
    BY <1>1 DEF ParserIInv, MeantTypes
  <1>3. TypeOK'
    BY DEF ParserIInv, TypeOK, scope
  <1>4. MeantTypes'
    BY <1>1 DEF ParserIInv, MeantTypes
  <1>5. OwnerOpen'
    <2>1. cur_base = meant[n].base /\ cur_props \subseteq meant[n].props
            /\ cur_keys \subseteq meant[n].keys
      BY DEF ParserIInv, OwnerOpen
    <2> QED
      BY <1>1, <1>2, <2>1 DEF ParserIInv, OwnerOpen, scope
  <1>6. NothingForeign'
    BY <1>1, <1>2 DEF ParserIInv, NothingForeign
  <1>7. NothingMissing'
    <2> SUFFICES ASSUME ~bare PROVE NothingMissing'
      BY DEF NothingMissing
    <2>1. cur_props = meant[n].props /\ cur_keys = meant[n].keys
      BY DEF ParserIInv, NothingMissing
    <2>2. \A m \in owner' : cur_props' = meant'[m].props /\ cur_keys' = meant'[m].keys
      BY <1>1, <1>2, <2>1
    <2>3. \A m \in DOMAIN types' : types'[m] = meant'[m]
      BY <1>1, <1>2 DEF ParserIInv, NothingMissing, NothingForeign
    <2> QED
      BY <1>2, <2>2, <2>3 DEF ParserIInv, NothingMissing, scope
  <1>8. SetsAsListed'
    BY DEF ParserIInv, SetsAsListed
  <1> QED
    BY <1>3, <1>4, <1>5, <1>6, <1>7, <1>8 DEF ParserIInv

\* In the constraint of an association no key is open, in a complex type no
\* type is: what stands there is nobody's.
LEMMA ParserRefers == ASSUME ParserIInv, NEW p \in Prop, PropertyRef(p) PROVE ParserIInv'
  <1>1. /\ cur_keys' = IF in_key THEN cur_keys \cup {p} ELSE cur_keys
        /\ UNCHANGED <<scope, cur_props, types, sets, owner, listed, bare>>
    BY DEF PropertyRef, KeyRef
  <1>2. CASE ctx = "key"
    <2>1. PICK n \in owner : meant' = [meant EXCEPT ![n].keys = @ \cup {p}]
      BY <1>2 DEF PropertyRef, Event
    <2>2. ctx' = ctx /\ cur_keys' = cur_keys \cup {p}
      BY <1>1, <1>2 DEF PropertyRef, Event, ParserIInv, TypeOK
    <2>3. meant[n] \in TypeOf
      BY DEF ParserIInv, OwnerOpen, MeantTypes
    <2>4. PICK t : t = [meant[n] EXCEPT !.keys = @ \cup {p}]
      OBVIOUS
    <2>5. meant' = [meant EXCEPT ![n] = t]
      BY <2>1, <2>4
    <2>6. /\ t \in TypeOf /\ t.props = meant[n].props \cup {}
          /\ t.keys = meant[n].keys \cup {p} /\ t.base = meant[n].base
      BY <2>3, <2>4 DEF TypeOf
    <2>7. cur_props' = cur_props \cup {}
      BY <1>1
    <2> QED
      BY <1>1, <2>2, <2>5, <2>6, <2>7, ParserGathers
  <1>3. CASE ctx # "key"
    <2>1. ctx = "association" /\ ctx' = ctx /\ meant' = meant /\ cur_keys' = cur_keys
      BY <1>1, <1>3 DEF PropertyRef, Event, ParserIInv, TypeOK
    <2> QED
      BY <1>1, <2>1 DEF scope, ParserIInv, TypeOK, MeantTypes, OwnerOpen, NothingForeign,
         NothingMissing, SetsAsListed
  <1> QED
    BY <1>2, <1>3

\* A property of a complex type is nobody's, one of an entity type its owner's.
LEMMA ParserOwns == ASSUME ParserIInv, NEW p \in Prop, Property(p) PROVE ParserIInv'
  <1>1. /\ cur_props' = IF cur_type # {} /\ ~in_complex THEN cur_props \cup {p} ELSE cur_props
        /\ UNCHANGED <<scope, cur_keys, types, sets, owner, listed, bare>>
    BY DEF Property, Owned
  <1>2. CASE ctx = "entity"
    <2>1. PICK n \in owner : meant' = [meant EXCEPT ![n].props = @ \cup {p}]
      BY <1>2 DEF Property, Event
    <2>2. ctx' = ctx
      BY <1>2 DEF Property, Event
    <2>3. meant[n] \in TypeOf
      BY DEF ParserIInv, OwnerOpen, MeantTypes
    <2>4. PICK t : t = [meant[n] EXCEPT !.props = @ \cup {p}]
      OBVIOUS
    <2>5. meant' = [meant EXCEPT ![n] = t]
      BY <2>1, <2>4
    <2>6. /\ t \in TypeOf /\ t.props = meant[n].props \cup {p}
          /\ t.keys = meant[n].keys \cup {} /\ t.base = meant[n].base
      BY <2>3, <2>4 DEF TypeOf
    <2>7. cur_keys' = cur_keys \cup {} /\ cur_props' \in {cur_props, cur_props \cup {p}}
      BY <1>1
    <2>8. ~bare => cur_props' = cur_props \cup {p}
      BY <1>1, <1>2 DEF ParserIInv, TypeOK, NothingMissing
    <2> QED
      BY <1>1, <2>2, <2>5, <2>6, <2>7, <2>8, ParserGathers
  <1>3. CASE ctx # "entity"
    <2>1. ctx = "complex" /\ ctx' = ctx /\ meant' = meant
      BY <1>3 DEF Property, Event
    <2>2. cur_type = {}
      BY <2>1 DEF ParserIInv, TypeOK, OwnerOpen
    <2> QED
      BY <1>1, <2>1, <2>2 DEF scope, ParserIInv, TypeOK, MeantTypes, OwnerOpen, NothingForeign,
         NothingMissing, SetsAsListed
  <1> QED
    BY <1>2, <1>3

\* No event of a document breaks the bookkeeping of the parser.
LEMMA ParserStep == ParserIInv /\ [Next]_vars => ParserIInv'
  <1> SUFFICES ASSUME ParserIInv, [Next]_vars PROVE ParserIInv'
    OBVIOUS
  <1> USE DEF ParserIInv, TypeOK, MeantTypes, OwnerOpen, NothingForeign, NothingMissing,
              SetsAsListed
  <1>1. CASE UNCHANGED vars
    BY <1>1 DEF vars, parser
  <1>2. CASE Key \/ EndKey
    BY <1>2 DEF Key, EndKey, Event, Unwritten
  <1>3. CASE ComplexType \/ EmptyComplexType \/ EndComplexType
    BY <1>3 DEF ComplexType, EmptyComplexType, EndComplexType, Complex, Event, Unwritten
  <1>4. ASSUME NEW n \in Name, NEW t \in Name, EntitySet(n, t) PROVE ParserIInv'
    <2>1. /\ UNCHANGED <<scope, cur_props, cur_keys, types, owner, meant, bare>>
          /\ ctx = "container" /\ ctx' = "container"
          /\ sets' = sets \cup {[name |-> n, type |-> t]}
          /\ listed' = listed \cup {[name |-> n, type |-> t]} /\ \A l \in listed : l.name # n
      BY <1>4 DEF EntitySet, Event
    <2>2. SetsAsListed'
      BY <2>1
    <2>3. sets' \subseteq [name : Name, type : Name]
      BY <2>1
    <2> QED
      BY <2>1, <2>2, <2>3 DEF scope
  <1>5. CASE Other
    <2>1. /\ UNCHANGED <<parser, owner, meant, listed, bare>>
          /\ ctx \in {"schema", "association", "container"}
          /\ ctx' \in {"schema", "association", "container"}
      BY <1>5 DEF Other, Event, Unwritten
    <2> QED
      BY <2>1 DEF parser
  <1> QED
    BY <1>1, <1>2, <1>3, <1>4, <1>5, ParserOpens, ParserPasses, ParserCloses, ParserRefers,
       ParserOwns DEF Next

\* What was finalized is what the document has (EdmxParser).
LEMMA ParserPromise == ParserIInv => MetaOfItsType
  <1> SUFFICES ASSUME ParserIInv, ctx \notin {"entity", "key"}, ~bare,
                      NEW s \in listed, s.type \in DOMAIN meant
               PROVE  EntityMeta(s.name) = {meant[s.type]}
    BY DEF MetaOfItsType, FoundWhole, ParserIInv
  <1>1. s.type \in DOMAIN types /\ types[s.type] = meant[s.type]
    BY DEF ParserIInv, OwnerOpen, NothingMissing
  <1>2. {l.type : l \in {l \in sets : l.name = s.name}} = {s.type}
    BY DEF ParserIInv, SetsAsListed
  <1>3. {s.type} \cap DOMAIN types = {s.type}
    BY <1>1
  <1> QED
    BY <1>1, <1>2, <1>3 DEF EntityMeta

\* However long a document is, no property or key of it reaches another type
\* than its own, and unless a complex type was self-closing, entity_meta finds
\* for every set of the document all that its type has there.
THEOREM MetaTheorem == Spec => []MetaOfItsType
  BY ParserInit, ParserStep, ParserPromise, PTL DEF Spec
-----------------------------------------------------------------------------
\* The reads: what was shown, refused and answered last is what the policy of
\* the file and the gate make of it.
ReadsIInv ==
    /\ file \in File /\ policy = R!Loaded(file).policy /\ error = R!Loaded(file).error
    /\ \A l \in entities : l = Set \cap Allowed
    /\ \A x \in announced :
          /\ x.entity \in Allowed /\ x.restricted = R!annotate_acl(x.instance, x.entity)
    /\ \A x \in answer :
          /\ x.entity \in Allowed
          /\ x.envelope = "d" => DOMAIN x.sent = {1}
          /\ x.recs = R!Answered(x.instance, x.entity, x.envelope, x.sent)
    /\ refused \subseteq Entity \ Allowed

\* A policy is what its file loads as.
LEMMA ReadsInit == R!Init => ReadsIInv
  BY DEF R!Init, ReadsIInv

\* What is given with a read is redacted by the policy that is in force.
LEMMA ReadsGive ==
  ASSUME ReadsIInv, NEW i, NEW y \in Allowed, NEW envelope, NEW recs,
         envelope = "d" => DOMAIN recs = {1}, R!Give(i, y, envelope, recs)
  PROVE  ReadsIInv'
  <1>1. UNCHANGED <<file, policy, error, entities, announced>> /\ refused' = {}
    BY DEF R!Give
  <1>2. answer' = {[instance |-> i, entity |-> y, envelope |-> envelope, sent |-> recs,
                    recs |-> R!Answered(i, y, envelope, recs)]}
    BY DEF R!Give
  <1>3. \A x \in announced : R!annotate_acl(x.instance, x.entity)'
                                = R!annotate_acl(x.instance, x.entity)
    BY <1>1 DEF R!annotate_acl
  <1>4. R!Answered(i, y, envelope, recs)' = R!Answered(i, y, envelope, recs)
    BY <1>1 DEF R!Answered
  <1> QED
    BY <1>1, <1>2, <1>3, <1>4 DEF ReadsIInv, R!annotate_acl, R!Answered

\* No operation changes the policy, and each shows what follows from it.
LEMMA ReadsStep == ReadsIInv /\ [R!Next]_(R!vars) => ReadsIInv'
  <1> SUFFICES ASSUME ReadsIInv, [R!Next]_(R!vars) PROVE ReadsIInv'
    OBVIOUS
  <1> USE DEF R!annotate_acl, R!Answered
  <1>1. CASE UNCHANGED R!vars
    BY <1>1 DEF R!vars, ReadsIInv
  <1>2. CASE R!Discover
    BY <1>2 DEF R!Discover, ReadsIInv
  <1>3. ASSUME NEW y \in Entity, R!Refuse(y) PROVE ReadsIInv'
    BY <1>3 DEF R!Refuse, R!Gate, ReadsIInv
  <1>4. ASSUME NEW i \in Instance, NEW y \in Entity, R!EntityMetadata(i, y) PROVE ReadsIInv'
    BY <1>4 DEF R!EntityMetadata, R!Gate, ReadsIInv
  <1>5. ASSUME NEW i, NEW y, NEW expand, NEW envelope, NEW select,
               R!ReadOne(i, y, select, expand, envelope)
        PROVE  ReadsIInv'
    <2>1. DOMAIN <<R!Rec(y, select, expand)>> = {1}
      OBVIOUS
    <2> QED
      BY <1>5, <2>1, ReadsGive DEF R!ReadOne, R!Gate
  <1>6. ASSUME NEW i, NEW y, NEW expand, NEW envelope, NEW select, NEW rows,
               R!Read(i, y, select, expand, rows, envelope)
        PROVE  ReadsIInv'
    BY <1>6, ReadsGive DEF R!Read, R!Gate
  <1> QED
    BY <1>1, <1>2, <1>3, <1>4, <1>5, <1>6 DEF R!Next

\* A file without broken lists is parsed to the rules that it has.
LEMMA RulesKept ==
  ASSUME NEW w \in File, \A r \in w.rules : r.allow # {NotAList} /\ r.deny # NotAList
  PROVE  {R!parse_rule(r) : r \in w.rules} = w.rules
  <1>1. ASSUME NEW r \in w.rules PROVE R!parse_rule(r) = r
    <2>1. /\ r = [instance |-> r.instance, model |-> r.model, allow |-> r.allow, deny |-> r.deny]
          /\ \A l \in r.allow : r.allow = {l}
      BY ReadsAssumption DEF R!ConstantsAssumption
    <2>2. r.allow \ {NotAList} = r.allow /\ r.deny # NotAList
      BY <1>1, <2>1
    <2> QED
      BY <2>1, <2>2 DEF R!parse_rule
  <1> QED
    BY <1>1

\* A read strips what the metadata announced, by the same rules (Reads).
LEMMA ReadsPromise == ReadsIInv => RedactedAsAnnounced
  <1> SUFFICES ASSUME ReadsIInv
               PROVE  R!PolicyInForce /\ R!ListedIsReadable /\ R!StrippedAsAnnounced
    BY DEF RedactedAsAnnounced, R!RedactedAsAnnounced
  <1>1. R!PolicyInForce
    <2> SUFFICES ASSUME ~error, file.found # "nowhere", file.wrapped \/ file.found = "dedicated",
                        \A w \in file.rules : w.allow # {NotAList} /\ w.deny # NotAList
                 PROVE  policy = file.rules
      BY DEF R!PolicyInForce
    <2>1. policy = {R!parse_rule(w) : w \in R!AclOf(file)} /\ file \in File
      BY DEF ReadsIInv, R!Loaded
    <2>2. R!AclOf(file) = file.rules
      BY DEF R!AclOf
    <2> QED
      BY <2>1, <2>2, RulesKept
  <1>2. R!ListedIsReadable
    BY DEF ReadsIInv, R!ListedIsReadable
  <1>3. R!StrippedAsAnnounced
    <2> SUFFICES ASSUME NEW x \in announced, NEW r \in answer,
                        x.instance = r.instance, x.entity = r.entity,
                        r.envelope \notin {"d", "text"},
                        NEW k \in DOMAIN r.recs, NEW prop \in PropsOf[r.entity]
                 PROVE  <<prop>> \in r.recs[k] <=> <<prop>> \in r.sent[k] /\ prop \notin x.restricted
      BY DEF R!StrippedAsAnnounced
    <2>1. r.recs = R!redact_records(policy, r.instance, r.entity, r.sent)
      BY DEF ReadsIInv, R!Answered, R!normalize_collection
    <2>2. r.recs[k] = R!redact_record(policy, r.instance, r.entity, r.sent[k])
      BY <2>1 DEF R!redact_records
    <2>3. <<prop>> # <<>> /\ Head(<<prop>>) = prop
      OBVIOUS
    <2>4. prop \in x.restricted <=> R!is_denied(policy, r.instance, r.entity, prop)
      BY DEF ReadsIInv, R!annotate_acl
    <2> QED
      BY <2>2, <2>3, <2>4 DEF R!redact_record
  <1> QED
    BY <1>1, <1>2, <1>3

\* Whatever the policy file says, it is in force or the status shows an error,
\* the gate of the lists is the gate of the reads, and a read strips what
\* entity_metadata announced, except in the V2 envelope of one entity.
THEOREM RedactedTheorem == R!Spec => []RedactedAsAnnounced
  BY ReadsInit, ReadsStep, ReadsPromise, PTL DEF R!Spec

\* Well-formed: what is announced, listed and answered is of its entity.
LEMMA ReadsTyped == ReadsIInv => R!TypeOK
  <1> SUFFICES ASSUME ReadsIInv PROVE R!TypeOK
    OBVIOUS
  <1>1. \A r \in policy : r.instance \in Instance \cup {Star} /\ r.model \in Entity \cup {Star}
    <2> SUFFICES ASSUME NEW w \in file.rules
                 PROVE  /\ R!parse_rule(w).instance \in Instance \cup {Star}
                        /\ R!parse_rule(w).model \in Entity \cup {Star}
      BY DEF ReadsIInv, R!Loaded, R!AclOf
    <2> QED
      BY ReadsAssumption DEF ReadsIInv, R!ConstantsAssumption, R!parse_rule
  <1>2. error \in BOOLEAN
    BY DEF ReadsIInv, R!Loaded
  <1>3. \A l \in entities : l \subseteq Entity
    BY ReadsAssumption DEF ReadsIInv, R!ConstantsAssumption
  <1>4. \A x \in announced : x.restricted \subseteq PropsOf[x.entity]
    BY DEF ReadsIInv, R!annotate_acl
  <1>5. \A r \in answer : r.envelope # "text" => DOMAIN r.recs = DOMAIN r.sent
    <2> SUFFICES ASSUME NEW r \in answer, r.envelope # "text"
                 PROVE  DOMAIN R!normalize_collection(r.envelope, r.sent) = DOMAIN r.sent
      BY DEF ReadsIInv, R!Answered, R!redact_records
    <2>1. CASE r.envelope = "d"
      <3>1. \A S : DOMAIN <<S>> = {1}
        OBVIOUS
      <3>2. DOMAIN r.sent = {1}
        BY <2>1 DEF ReadsIInv
      <3> QED
        BY <2>1, <3>1, <3>2 DEF R!normalize_collection
    <2>2. CASE r.envelope # "d"
      BY <2>2 DEF R!normalize_collection
    <2> QED
      BY <2>1, <2>2
  <1> QED
    BY <1>1, <1>2, <1>3, <1>4, <1>5 DEF ReadsIInv, R!TypeOK
-----------------------------------------------------------------------------
\* The tenants: the server is up with the pool that its source makes, the
\* tenant is the one its token resolves to, and what it was shown and told
\* last follows from both.
TenantIInv ==
    /\ source \in Source
    /\ phase \in {"new", "up", "failed"} /\ (phase = "up" <=> pool # {})
    /\ \A p \in pool : pool = {p} /\ p \in Who!Loaded(source)
    /\ pool = {} => caller = {}
    /\ caller = {} => tenant = {}
    /\ \A c \in caller : c \in Who!Caller /\ caller = {c}
    /\ \A c \in caller, p \in pool : tenant = Who!TenantOf(c, p)
    /\ tenant = {} => shown = {} /\ tooled = {} /\ called = {} /\ resource = {}
    /\ tooled # {} => tooled = {Who!list_tools}
    /\ \A w \in tenant, p \in pool :
          /\ shown # {} => shown = {Who!filter(w, DOMAIN p.tokens)}
          /\ \A k \in called : k.verdict = Who!Verdict(w, p, k.tool, k.named)
          /\ resource # {} => resource = {Who!resource_default(w, p) \subseteq DOMAIN p.tokens}
    /\ \A k \in called :
          /\ k.named = {} \/ \E i \in Who!Known : k.named = {i}
          /\ \E j \in DOMAIN Tools : k.tool = Tools[j].name

\* Before the server starts there is nobody.
LEMMA TenantInit == Who!Init => TenantIInv
  BY DEF Who!Init, TenantIInv

\* A token resolves to one tenant at most, whose instances are of the pool.
LEMMA TenantOne ==
  ASSUME NEW c, NEW p, NEW w \in Who!TenantOf(c, p)
  PROVE  /\ Who!TenantOf(c, p) = {w}
         /\ w.full \in BOOLEAN
         /\ ~w.full => w.instances # {} /\ w.instances \subseteq DOMAIN p.tokens
  <1> DEFINE own == {i \in DOMAIN p.tokens : Who!Presented(c) \cap p.tokens[i] # {}}
             restricted == [full |-> FALSE, instances |-> own]
  <1>1. CASE Who!TenantOf(c, p) = {Who!Full}
    <2>1. w = Who!Full
      BY <1>1
    <2> QED
      BY <1>1, <2>1 DEF Who!Full
  <1>2. CASE own # {} /\ Who!TenantOf(c, p) = {restricted}
    <2>1. w = restricted
      BY <1>2
    <2>2. w.full = FALSE /\ w.instances = own
      BY <2>1
    <2> HIDE DEF restricted
    <2> QED
      BY <1>2, <2>1, <2>2
  <1>3. \/ Who!TenantOf(c, p) = {Who!Full}
        \/ own # {} /\ Who!TenantOf(c, p) = {restricted}
        \/ Who!TenantOf(c, p) = {}
    BY DEF Who!TenantOf, Who!resolve_tenant
  <1> QED
    BY <1>1, <1>2, <1>3

\* A document names finitely many instances.
LEMMA InstancesFinite ==
  ASSUME NEW s \in Source
  PROVE  /\ IsFiniteSet(DOMAIN s.tokens)
         /\ Who!Cardinality(DOMAIN s.tokens) = Cardinality(DOMAIN s.tokens)
  <1>1. Who!Known = {InstanceNames[k] : k \in DOMAIN InstanceNames}
    BY DEF Who!Known, Who!ToSet
  <1>2. PICK n \in Nat : DOMAIN InstanceNames = 1 .. n
    BY TenancyAssumption DEF Who!ConstantsAssumption
  <1> DEFINE nth == [k \in 1 .. n |-> InstanceNames[k]]
  <1>3. nth \in Surjection(1 .. n, Who!Known)
    BY <1>1, <1>2 DEF Surjection
  <1>4. IsFiniteSet(1 .. n)
    BY FS_Interval
  <1> HIDE DEF nth
  <1>5. IsFiniteSet(Who!Known)
    BY <1>3, <1>4, FS_Surjection
  <1>6. DOMAIN s.tokens \subseteq Who!Known
    BY TenancyAssumption DEF Who!ConstantsAssumption
  <1>7. IsFiniteSet(DOMAIN s.tokens)
    BY <1>5, <1>6, FS_Subset
  <1> QED
    BY <1>7 DEF Who!Cardinality, Cardinality

\* The pool a source makes has its instances and, but for a document that
\* leaves it open or states another, a default among them.
LEMMA PoolOne ==
  ASSUME NEW s \in Source, NEW p \in Who!Loaded(s)
  PROVE  /\ Who!Loaded(s) = {p} /\ p.tokens = s.tokens /\ DOMAIN p.tokens # {}
         /\ \/ p.default \in DOMAIN p.tokens
            \/ s.shape = "instances" /\ (s.stated # {} \/ Who!Cardinality(DOMAIN s.tokens) > 1)
  <1> DEFINE dom == DOMAIN s.tokens
             defaults == CASE s.shape = "instances" -> Who!WrappedDefault(s)
                           [] s.shape = "bare"      -> Who!BareDefault(s)
                           [] s.shape = "env"       -> {Default}
  <1>1. dom # {} /\ s.valid
    BY DEF Who!Loaded
  <1>2. Who!Loaded(s) = {[default |-> d, tokens |-> s.tokens] : d \in defaults}
    BY <1>1 DEF Who!Loaded
  <1>3. Who!Cardinality(dom) = 1 => \A c, d \in dom : c = d
    <2>1. Cardinality(dom) = 1 => \E x : dom = {x}
      BY InstancesFinite, FS_Singleton
    <2> QED
      BY <2>1, InstancesFinite
  <1>4. Who!Cardinality(dom) = 1 \/ Who!Cardinality(dom) > 1
    <2>1. Cardinality(dom) \in Nat /\ Cardinality(dom) # 0
      BY <1>1, InstancesFinite, FS_CardinalityType, FS_EmptySet
    <2> QED
      BY <2>1, InstancesFinite
  <1>5. s.shape \in {"instances", "bare", "env"} /\ \A c, d \in s.stated : c = d
    BY TenancyAssumption DEF Who!ConstantsAssumption
  <1>6. \A c, d \in defaults : c = d
    BY <1>3, <1>5 DEF Who!WrappedDefault, Who!BareDefault
  <1>7. ASSUME NEW d \in defaults
        PROVE  \/ d \in dom
               \/ s.shape = "instances" /\ (s.stated # {} \/ Who!Cardinality(dom) > 1)
    <2>1. CASE s.shape = "instances"
      BY <1>4, <1>7, <2>1 DEF Who!WrappedDefault
    <2>2. CASE s.shape = "bare"
      BY <1>7, <2>2 DEF Who!BareDefault
    <2>3. CASE s.shape = "env"
      BY <1>7, <2>3, TenancyAssumption DEF Who!ConstantsAssumption
    <2> QED
      BY <1>5, <2>1, <2>2, <2>3
  <1> HIDE DEF defaults
  <1>8. PICK d \in defaults : p = [default |-> d, tokens |-> s.tokens]
    BY <1>2
  <1>9. p.tokens = s.tokens /\ p.default = d
    BY <1>8
  <1>10. Who!Loaded(s) = {p}
    BY <1>2, <1>6, <1>8
  <1> QED
    BY <1>1, <1>7, <1>9, <1>10

\* What a tenant is depends on the configuration and the pool alone.
LEMMA ConfigKept ==
  ASSUME UNCHANGED Who!config
  PROVE  /\ Who!list_tools' = Who!list_tools
         /\ \A c, p : Who!TenantOf(c, p)' = Who!TenantOf(c, p)
         /\ \A w, p, name, named : Who!Verdict(w, p, name, named)' = Who!Verdict(w, p, name, named)
  <1>1. auth' = auth /\ admin' = admin /\ exposition' = exposition /\ writes' = writes
    BY DEF Who!config
  <1>2. \A tool : Who!Exposed(tool)' = Who!Exposed(tool)
    BY <1>1 DEF Who!Exposed, Who!exposition_allows
  <1>3. Who!list_tools' = Who!list_tools
    BY <1>2 DEF Who!list_tools
  <1>4. \A c, p : Who!TenantOf(c, p)' = Who!TenantOf(c, p)
    BY <1>1 DEF Who!TenantOf, Who!resolve_tenant, Who!Presented, Who!bearer_from
  <1>5. \A name : Who!get_tool(name)' = Who!get_tool(name)
    BY <1>2 DEF Who!get_tool, Who!SelectInSeq
  <1>6. \A w, p, name, named : Who!Verdict(w, p, name, named)' = Who!Verdict(w, p, name, named)
    BY <1>5, Zenon DEF Who!Verdict, Who!check
  <1> QED
    BY <1>3, <1>4, <1>6

\* The lists and calls of a tenant leave it as it is, and show what it is.
LEMMA TenantStep == TenantIInv /\ [Who!Next]_Who!vars => TenantIInv'
  <1> SUFFICES ASSUME TenantIInv, [Who!Next]_Who!vars PROVE TenantIInv'
    OBVIOUS
  <1> USE DEF Who!config, Who!shown
  <1>0. UNCHANGED Who!config
    BY DEF Who!Next, Who!Start, Who!Connect, Who!ListInstances, Who!ListTools,
           Who!ReadResource, Who!CallTool, Who!vars
  <1>k. /\ Who!list_tools' = Who!list_tools
        /\ \A c, p : Who!TenantOf(c, p)' = Who!TenantOf(c, p)
        /\ \A w, p, name, named : Who!Verdict(w, p, name, named)' = Who!Verdict(w, p, name, named)
    BY <1>0, ConfigKept
  <1>1. CASE Who!Start
    <2>1. /\ pool = {} /\ caller = {} /\ tenant = {}
          /\ shown = {} /\ tooled = {} /\ called = {} /\ resource = {}
      BY <1>1 DEF Who!Start, TenantIInv
    <2>2. /\ pool' = Who!Loaded(source) /\ phase' = (IF pool' = {} THEN "failed" ELSE "up")
          /\ UNCHANGED <<source, caller, tenant, shown, tooled, called, resource>>
      BY <1>1 DEF Who!Start
    <2>3. Who!Loaded(source)' = Who!Loaded(source)
      BY <2>2 DEF Who!Loaded, Who!WrappedDefault, Who!BareDefault
    <2>4. \A p \in pool' : pool' = {p} /\ p \in Who!Loaded(source)'
      BY <2>2, <2>3, PoolOne DEF TenantIInv
    <2> QED
      BY <2>1, <2>2, <2>4 DEF TenantIInv
  <1>2. ASSUME NEW c \in Who!Caller, Who!Connect(c) PROVE TenantIInv'
    <2>1. /\ caller = {} /\ tenant = {}
          /\ shown = {} /\ tooled = {} /\ called = {} /\ resource = {}
      BY <1>2 DEF Who!Connect, TenantIInv
    <2>2. /\ caller' = {c} /\ \E p \in pool : tenant' = Who!TenantOf(c, p)
          /\ UNCHANGED <<source, phase, pool, shown, tooled, called, resource>>
      BY <1>2 DEF Who!Connect
    <2>3. \A d \in caller', p \in pool' : tenant' = Who!TenantOf(d, p)
      BY <2>2 DEF TenantIInv
    <2> QED
      BY <2>1, <2>2, <2>3, <1>k DEF TenantIInv
  <1>t. \A w, x \in tenant : w = x
    <2> SUFFICES ASSUME tenant # {} PROVE \A w, x \in tenant : w = x
      OBVIOUS
    <2>1. PICK c \in caller, p \in pool : tenant = Who!TenantOf(c, p)
      BY DEF TenantIInv
    <2> QED
      BY <2>1, TenantOne
  <1>p. \A p, q \in pool : p = q
    BY DEF TenantIInv
  <1>3. CASE Who!ListInstances
    <2>1. PICK w \in tenant, p \in pool : shown' = {Who!filter(w, DOMAIN p.tokens)}
      BY <1>3 DEF Who!ListInstances
    <2>2. UNCHANGED <<source, phase, pool, caller, tenant, tooled, called, resource>>
      BY <1>3 DEF Who!ListInstances
    <2> QED
      BY <1>k, <1>t, <1>p, <2>1, <2>2 DEF TenantIInv
  <1>4. CASE Who!ListTools
    <2>1. tenant # {} /\ tooled' = {Who!list_tools}
      BY <1>4 DEF Who!ListTools
    <2>2. UNCHANGED <<source, phase, pool, caller, tenant, shown, called, resource>>
      BY <1>4 DEF Who!ListTools
    <2> QED
      BY <1>k, <2>1, <2>2 DEF TenantIInv
  <1>5. CASE Who!ReadResource
    <2>1. PICK w \in tenant, p \in pool : resource' = {Who!resource_default(w, p) \subseteq DOMAIN p.tokens}
      BY <1>5 DEF Who!ReadResource
    <2>2. called' = {} /\ UNCHANGED <<source, phase, pool, caller, tenant, shown, tooled>>
      BY <1>5 DEF Who!ReadResource
    <2> QED
      BY <1>k, <1>t, <1>p, <2>1, <2>2 DEF TenantIInv
  <1>6. ASSUME NEW tool \in Who!ToSet(Tools), NEW named \in {{}} \cup {{i} : i \in Who!Known},
               Who!CallTool(tool.name, named)
        PROVE  TenantIInv'
    <2>1. PICK w \in tenant, p \in pool :
             called' = {[tool |-> tool.name, named |-> named,
                         verdict |-> Who!Verdict(w, p, tool.name, named)]}
      BY <1>6 DEF Who!CallTool
    <2>2. resource' = {} /\ UNCHANGED <<source, phase, pool, caller, tenant, shown, tooled>>
      BY <1>6 DEF Who!CallTool
    <2>3. named = {} \/ \E i \in Who!Known : named = {i}
      BY <1>6
    <2>4. \E j \in DOMAIN Tools : tool.name = Tools[j].name
      BY <1>6 DEF Who!ToSet
    <2>5. \A k \in called' : /\ k.verdict = Who!Verdict(w, p, k.tool, k.named)
                             /\ k.tool = tool.name /\ k.named = named
      BY <2>1
    <2> QED
      BY <1>k, <1>t, <1>p, <2>1, <2>2, <2>3, <2>4, <2>5 DEF TenantIInv
  <1>7. CASE UNCHANGED Who!vars
    BY <1>7, <1>k DEF Who!vars, TenantIInv
  <1> QED
    BY <1>1, <1>2, <1>3, <1>4, <1>5, <1>6, <1>7 DEF Who!Next

\* A set of numbers has a least one.
LEMMA Least ==
  ASSUME NEW I \in SUBSET Nat, I # {}
  PROVE  \E n \in I : \A m \in I : n <= m
  <1>1. PICK n \in I : \A m \in I : ~(<<m, n>> \in OpToRel(<, Nat))
    BY NatLessThanWellFounded, WFMin
  <1>2. \A m \in I : ~(m < n) /\ m \in Nat /\ n \in Nat
    BY <1>1 DEF OpToRel
  <1> QED
    BY <1>2

\* Min is it.
LEMMA LeastIn ==
  ASSUME NEW I \in SUBSET Nat, I # {}
  PROVE  Who!Min(I) \in I /\ \A m \in I : Who!Min(I) <= m
  BY Least DEF Who!Min

\* A call finds exactly the tools of the list: no name has two definitions, of
\* which one is exposed and the other comes first.
LEMMA FoundAsListed ==
  ASSUME NEW name
  PROVE  Who!get_tool(name) # {} <=> name \in Who!list_tools
  <1> DEFINE I == {k \in 1 .. Len(Tools) : Tools[k].name = name}
             first == IF I # {} THEN Who!Min(I) ELSE 0
  <1>1. Who!get_tool(name) = {Tools[k] : k \in {k \in {first} : k > 0 /\ Who!Exposed(Tools[k])}}
    BY DEF Who!get_tool, Who!SelectInSeq
  <1>2. DOMAIN Tools = 1 .. Len(Tools)
    BY TenancyAssumption DEF Who!ConstantsAssumption
  <1>3. name \in Who!list_tools <=> \E k \in I : Who!Exposed(Tools[k])
    BY <1>2 DEF Who!list_tools
  <1>4. \A j, k \in I : j = k
    BY <1>2, TenancyAssumption DEF Who!ConstantsAssumption
  <1>5. CASE I = {}
    <2>1. first = 0
      BY <1>5
    <2>2. ~(0 > 0)
      OBVIOUS
    <2> HIDE DEF I, first
    <2> QED
      BY <1>1, <1>3, <1>5, <2>1, <2>2
  <1>6. CASE I # {}
    <2>1. I \in SUBSET Nat /\ \A k \in I : k > 0
      OBVIOUS
    <2> HIDE DEF I
    <2>2. first \in I /\ first > 0
      BY <1>6, <2>1, LeastIn
    <2> HIDE DEF first
    <2> QED
      BY <1>1, <1>3, <1>4, <2>2
  <1> QED
    BY <1>5, <1>6

\* The resources are those of an instance there is, but for full access to a
\* pool without its default.
LEMMA ResourceOf ==
  ASSUME NEW p, DOMAIN p.tokens \subseteq Who!Known,
         NEW w, ~w.full => w.instances # {} /\ w.instances \subseteq DOMAIN p.tokens
  PROVE  \/ Who!resource_default(w, p) \subseteq DOMAIN p.tokens
         \/ w.full /\ p.default \notin DOMAIN p.tokens
  <1>1. CASE w.full
    BY <1>1 DEF Who!resource_default
  <1>2. CASE ~w.full /\ p.default \in w.instances
    BY <1>2 DEF Who!resource_default
  <1>3. CASE ~w.full /\ p.default \notin w.instances
    <2> DEFINE I == {k \in 1 .. Len(InstanceNames) : InstanceNames[k] \in w.instances}
    <2>1. I # {} /\ I \in SUBSET Nat
      <3>1. PICK i \in w.instances : i \in Who!Known
        BY <1>3
      <3>2. PICK k \in DOMAIN InstanceNames : InstanceNames[k] = i
        BY <3>1 DEF Who!Known, Who!ToSet
      <3>3. DOMAIN InstanceNames = 1 .. Len(InstanceNames)
        BY TenancyAssumption DEF Who!ConstantsAssumption
      <3> QED
        BY <3>2, <3>3
    <2>2. Who!resource_default(w, p) = {InstanceNames[IF I # {} THEN Who!Min(I) ELSE 0]}
      BY <1>3 DEF Who!resource_default, Who!SelectInSeq
    <2>3. \A k \in I : InstanceNames[k] \in w.instances
      OBVIOUS
    <2> HIDE DEF I
    <2>4. Who!Min(I) \in I
      BY <2>1, LeastIn
    <2> QED
      BY <1>3, <2>1, <2>2, <2>3, <2>4
  <1> QED
    BY <1>1, <1>2, <1>3

\* The pool is the one of its source, and its tenant one that it makes.
LEMMA TenantOfPool ==
  ASSUME TenantIInv, NEW p \in pool
  PROVE  /\ p \in Who!Loaded(source) /\ source \in Source
         /\ DOMAIN p.tokens \subseteq Who!Known
         /\ \A w \in tenant : /\ w.full \in BOOLEAN
                              /\ ~w.full => w.instances # {} /\ w.instances \subseteq DOMAIN p.tokens
  <1>1. p \in Who!Loaded(source) /\ source \in Source
    BY DEF TenantIInv
  <1>2. DOMAIN p.tokens \subseteq Who!Known
    BY <1>1, PoolOne, TenancyAssumption DEF Who!ConstantsAssumption
  <1>3. ASSUME NEW w \in tenant
        PROVE  /\ w.full \in BOOLEAN
               /\ ~w.full => w.instances # {} /\ w.instances \subseteq DOMAIN p.tokens
    <2>1. PICK c \in caller : tenant = Who!TenantOf(c, p)
      BY <1>3 DEF TenantIInv
    <2> QED
      BY <1>3, <2>1, TenantOne
  <1> QED
    BY <1>1, <1>2, <1>3

\* A call that gets through has found its tool and its instance, which its
\* tenant may use.
LEMMA VerdictOk ==
  ASSUME NEW w, NEW p, NEW name, NEW named, NEW i,
         i = (IF named = {} THEN p.default ELSE CHOOSE n \in named : TRUE)
  PROVE  Who!Verdict(w, p, name, named) = "ok" <=>
             /\ name \in Who!list_tools
             /\ w.full \/ i \in w.instances
             /\ i \in DOMAIN p.tokens
  BY FoundAsListed, Zenon DEF Who!Verdict, Who!check

\* The lists and the checks of one tenant in one pool agree (Tenancy).
LEMMA ReachablePromise == TenantIInv => ListedIsReachable
  <1> SUFFICES ASSUME TenantIInv PROVE ListedIsReachable
    OBVIOUS
  <1>1. Who!CalledAsListed
    <2> SUFFICES ASSUME NEW l \in shown, NEW ts \in tooled, NEW k \in called, NEW p \in pool
                 PROVE  k.verdict = "ok" <=>
                            /\ k.tool \in ts
                            /\ (IF k.named = {} THEN {p.default} ELSE k.named) \subseteq l
      BY DEF Who!CalledAsListed
    <2>1. PICK w \in tenant : TRUE
      BY DEF TenantIInv
    <2>2. /\ k.verdict = Who!Verdict(w, p, k.tool, k.named)
          /\ l = Who!filter(w, DOMAIN p.tokens) /\ ts = Who!list_tools
      BY <2>1 DEF TenantIInv
    <2> DEFINE i == IF k.named = {} THEN p.default ELSE CHOOSE n \in k.named : TRUE
    <2>3. (IF k.named = {} THEN {p.default} ELSE k.named) = {i}
      <3>1. k.named = {} \/ \E n \in Who!Known : k.named = {n}
        BY DEF TenantIInv
      <3> QED
        BY <3>1
    <2>4. i \in l <=> i \in DOMAIN p.tokens /\ (w.full \/ i \in w.instances)
      BY <2>1, <2>2, TenantOfPool DEF Who!filter
    <2> HIDE DEF i
    <2>5. k.verdict = "ok" <=> /\ k.tool \in ts
                               /\ w.full \/ i \in w.instances
                               /\ i \in DOMAIN p.tokens
      BY <2>2, VerdictOk DEF i
    <2> QED
      BY <2>3, <2>4, <2>5
  <1>2. Who!ResourceServed
    <2> SUFFICES ASSUME NEW r \in resource, NEW l \in shown, NEW w \in tenant, NEW p \in pool
                 PROVE  l # {} => r \/ (w.full /\ p.default \notin l)
      BY DEF Who!ResourceServed
    <2>1. /\ r = (Who!resource_default(w, p) \subseteq DOMAIN p.tokens)
          /\ l = Who!filter(w, DOMAIN p.tokens)
      BY DEF TenantIInv
    <2>2. \/ Who!resource_default(w, p) \subseteq DOMAIN p.tokens
          \/ w.full /\ p.default \notin DOMAIN p.tokens
      BY TenantOfPool, ResourceOf
    <2>3. w.full => l = DOMAIN p.tokens
      BY <2>1 DEF Who!filter
    <2> QED
      BY <2>1, <2>2, <2>3
  <1>3. Who!StartedIsUsable
    <2> SUFFICES ASSUME NEW p \in pool
                 PROVE  \/ p.default \in DOMAIN p.tokens
                        \/ /\ source.shape = "instances"
                           /\ source.stated # {} \/ Who!Cardinality(DOMAIN source.tokens) > 1
      BY DEF Who!StartedIsUsable
    <2> QED
      BY TenantOfPool, PoolOne
  <1> QED
    BY <1>1, <1>2, <1>3 DEF ListedIsReachable, Who!ListedIsReachable

\* A token that is listed resolves to the instances that list it (Tenancy).
LEMMA RestrictsPromise == TenantIInv => ListedTokenRestricts
  <1> SUFFICES ASSUME TenantIInv, NEW c \in caller, NEW p \in pool, NEW k \in called,
                      \E i \in DOMAIN p.tokens : Who!Offered(c) \cap p.tokens[i] # {},
                      ~Who!QueryOnly(c), k.verdict = "ok"
               PROVE  (IF k.named = {} THEN {p.default} ELSE k.named)
                          \subseteq {i \in DOMAIN p.tokens : Who!Offered(c) \cap p.tokens[i] # {}}
    BY DEF ListedTokenRestricts, Who!ListedTokenRestricts
  <1> DEFINE own == {i \in DOMAIN p.tokens : Who!Offered(c) \cap p.tokens[i] # {}}
             bound == [full |-> FALSE, instances |-> own]
             i == IF k.named = {} THEN p.default ELSE CHOOSE n \in k.named : TRUE
  <1>1. c.transport # "stdio" /\ Who!Presented(c) = Who!Offered(c)
    <2>1. /\ c.transport \in {"http", "ws", "stdio"}
          /\ c.transport = "stdio" => c.header = {} /\ c.query = {}
      BY DEF TenantIInv, Who!Caller
    <2>2. Who!Offered(c) # {}
      OBVIOUS
    <2> QED
      BY <2>1, <2>2 DEF Who!Presented, Who!bearer_from, Who!Offered, Who!QueryOnly
  <1>2. own # {}
    OBVIOUS
  <1>3. Who!TenantOf(c, p) = {bound}
    BY <1>1, <1>2 DEF Who!TenantOf, Who!resolve_tenant
  <1>4. bound.full = FALSE /\ bound.instances = own
    OBVIOUS
  <1>5. (IF k.named = {} THEN {p.default} ELSE k.named) = {i}
    <2>1. k.named = {} \/ \E n \in Who!Known : k.named = {n}
      BY DEF TenantIInv
    <2> QED
      BY <2>1
  <1> HIDE DEF own, bound, i
  <1>6. Who!Verdict(bound, p, k.tool, k.named) = "ok"
    BY <1>3 DEF TenantIInv
  <1>7. i \in own
    BY <1>4, <1>6, VerdictOk DEF i
  <1> QED
    BY <1>5, <1>7 DEF own

\* Whatever the environment says, what a caller is shown is what it can use,
\* and a server that starts has something to show.
THEOREM ReachableTheorem == Who!Spec => []ListedIsReachable
  BY TenantInit, TenantStep, ReachablePromise, PTL DEF Who!Spec

\* A token that an instance lists restricts its bearer to the instances that
\* list it, unless it comes in the query of an HTTP request.
THEOREM RestrictsTheorem == Who!Spec => []ListedTokenRestricts
  BY TenantInit, TenantStep, RestrictsPromise, PTL DEF Who!Spec

\* Well-formed: verdicts, lists and resources are of their kinds.
LEMMA TenantTyped == TenantIInv => Who!TypeOK
  <1> SUFFICES ASSUME TenantIInv PROVE Who!TypeOK
    OBVIOUS
  <1>1. \A p \in pool : DOMAIN p.tokens \subseteq Who!Known
    BY TenantOfPool
  <1>2. tenant # {} => \E p : p \in pool
    BY DEF TenantIInv
  <1>3. \A w \in tenant : w.full \/ w.instances # {}
    BY <1>2, TenantOfPool
  <1>4. \A l \in shown : l \subseteq Who!Known
    <2> SUFFICES ASSUME NEW l \in shown PROVE l \subseteq Who!Known
      OBVIOUS
    <2>1. PICK w \in tenant, p \in pool : l = Who!filter(w, DOMAIN p.tokens)
      BY <1>2 DEF TenantIInv
    <2> QED
      BY <1>1, <2>1 DEF Who!filter
  <1>5. \A k \in called : k.verdict \in {"ok", "unknown tool", "no access", "unknown instance"}
    <2> DEFINE Verdicts == {"ok", "unknown tool", "no access", "unknown instance"}
    <2>1. \A w, p, name, named : Who!Verdict(w, p, name, named) \in Verdicts
      BY Zenon DEF Who!Verdict
    <2> HIDE DEF Verdicts
    <2>2. SUFFICES ASSUME NEW k \in called PROVE k.verdict \in Verdicts
      BY Zenon DEF Verdicts
    <2>3. PICK w \in tenant, p \in pool : k.verdict = Who!Verdict(w, p, k.tool, k.named)
      BY <1>2 DEF TenantIInv
    <2> QED
      BY <2>1, <2>3
  <1>6. resource \subseteq BOOLEAN
    <2> SUFFICES ASSUME NEW r \in resource PROVE r \in BOOLEAN
      OBVIOUS
    <2>1. PICK w \in tenant, p \in pool : r = (Who!resource_default(w, p) \subseteq DOMAIN p.tokens)
      BY <1>2 DEF TenantIInv
    <2> QED
      BY <2>1, Zenon
  <1>7. phase \in {"new", "up", "failed"} /\ (phase = "up" <=> pool # {})
    BY DEF TenantIInv
  <1> QED
    BY <1>1, <1>3, <1>4, <1>5, <1>6, <1>7, Zenon DEF Who!TypeOK
-----------------------------------------------------------------------------
\* The globs: a verdict is what entity_allowed says of the three texts.
GlobIInv ==
    /\ deny \in Glob!Lists /\ allow \in Glob!Lists /\ entity \in EntityName
    /\ \A v \in verdict : v = Glob!entity_allowed(deny, allow, entity)

\* No verdict yet.
LEMMA GlobInit == Glob!Init => GlobIInv
  BY DEF Glob!Init, GlobIInv

\* The verdict follows from the two variables and the name.
LEMMA GlobStep == GlobIInv /\ [Glob!Decide]_(Glob!vars) => GlobIInv'
  <1> SUFFICES ASSUME GlobIInv, [Glob!Decide]_(Glob!vars) PROVE GlobIInv'
    OBVIOUS
  <1>1. UNCHANGED <<deny, allow, entity>>
    BY DEF Glob!Decide, Glob!vars
  <1>2. Glob!entity_allowed(deny, allow, entity)' = Glob!entity_allowed(deny, allow, entity)
    BY <1>1 DEF Glob!entity_allowed
  <1>3. verdict' = verdict \/ verdict' = {Glob!entity_allowed(deny, allow, entity)}
    BY DEF Glob!Decide, Glob!vars
  <1> QED
    BY <1>1, <1>2, <1>3 DEF GlobIInv, Glob!Lists

\* Names, patterns and their parts are sequences.
LEMMA GlobShape ==
  ASSUME NEW pat \in Pattern, NEW s \in EntityName
  PROVE  /\ Len(s) \in Nat /\ Len(pat) \in Nat /\ Len(pat) > 0
         /\ \A k \in 1 .. Len(pat) : Len(pat[k]) \in Nat
         /\ Glob!Last(pat) = pat[Len(pat)]
         /\ Glob!Last(pat) = <<>> => Len(pat) > 1
         /\ Glob!IsAt(s, <<>>, Len(s))
  <1>1. s \in Seq(Glob!ToSet(s)) /\ pat \in Seq(Glob!ToSet(pat)) /\ Len(pat) > 0 /\ pat # <<<<>>>>
    BY GlobAssumption DEF Glob!ConstantsAssumption
  <1>2. \A k \in 1 .. Len(pat) : Len(pat[k]) \in Nat
    <2> SUFFICES ASSUME NEW k \in 1 .. Len(pat) PROVE Len(pat[k]) \in Nat
      OBVIOUS
    <2>1. pat[k] \in Glob!ToSet(pat)
      BY <1>1 DEF Glob!ToSet
    <2>2. pat[k] \in Seq(Glob!ToSet(pat[k]))
      BY <2>1, GlobAssumption DEF Glob!ConstantsAssumption
    <2> QED
      BY <2>2
  <1>3. Glob!Last(pat) = pat[Len(pat)]
    BY DEF Glob!Last
  <1>4. Len(pat) = 1 => pat[Len(pat)] # <<>>
    <2> SUFFICES ASSUME Len(pat) = 1, pat[1] = <<>> PROVE FALSE
      OBVIOUS
    <2>1. pat = <<pat[1]>>
      BY <1>1
    <2> QED
      BY <1>1, <2>1
  <1>5. Glob!IsAt(s, <<>>, Len(s))
    <2>1. SubSeq(s, Len(s) + 1, Len(s) + Len(<<>>)) = <<>>
      BY <1>1
    <2> QED
      BY <1>1, <2>1 DEF Glob!IsAt
  <1>6. Len(s) \in Nat /\ Len(pat) \in Nat /\ Len(pat) > 0
    BY <1>1
  <1>7. Glob!Last(pat) = <<>> => Len(pat) > 1
    <2>1. Glob!Last(pat) = <<>> => Len(pat) # 1
      BY <1>3, <1>4, Zenon
    <2>2. Len(pat) # 1 => Len(pat) > 1
      BY <1>6
    <2> QED
      BY <2>1, <2>2
  <1> QED
    BY <1>1, <1>2, <1>3, <1>5, <1>6, <1>7

\* Where the leftmost search finds its parts they stand one behind another.
LEMMA GlobSound ==
  ASSUME NEW pat \in Pattern, NEW s \in EntityName, Glob!glob_match(pat, s)
  PROVE  Glob!Means(pat, s)
  <1> DEFINE n == Len(pat)
  <1>1. PICK at \in [1 .. n -> 0 .. Len(s)] :
           Glob!Found(pat, s, n, at) /\ Glob!EndsHere(pat, s, at[n] + Len(Glob!Last(pat)))
    BY DEF Glob!glob_match
  <1>2. /\ Len(s) \in Nat /\ n \in Nat /\ n > 0 /\ Glob!Last(pat) = pat[n]
        /\ \A k \in 1 .. n : Len(pat[k]) \in Nat
    BY GlobShape
  <1> HIDE DEF n
  <1>3. \A k \in 1 .. n - 1 : at[k] + Len(pat[k]) <= at[k + 1] /\ Glob!IsAt(s, pat[k + 1], at[k + 1])
    BY <1>1 DEF Glob!Found, Glob!FirstFrom
  <1>4. at[1] = 0 /\ Glob!IsAt(s, pat[1], 0)
    BY <1>1 DEF Glob!Found
  <1>5. \A k \in 1 .. n : Glob!IsAt(s, pat[k], at[k])
    <2> SUFFICES ASSUME NEW k \in 1 .. n, k # 1 PROVE Glob!IsAt(s, pat[k], at[k])
      BY <1>4
    <2>1. k - 1 \in 1 .. n - 1 /\ (k - 1) + 1 = k
      BY <1>2
    <2> QED
      BY <1>3, <2>1
  <1>6. CASE at[n] + Len(Glob!Last(pat)) = Len(s)
    BY <1>3, <1>4, <1>5, <1>6 DEF Glob!Means, n
  <1>7. CASE n > 1 /\ Glob!Last(pat) = <<>>
    <2> DEFINE to == [k \in 1 .. n |-> IF k = n THEN Len(s) ELSE at[k]]
    <2>1. to \in [1 .. n -> 0 .. Len(s)]
      BY <1>2
    <2>2. to[1] = 0 /\ to[n] = Len(s) /\ to[n] + Len(Glob!Last(pat)) = Len(s)
      BY <1>2, <1>4, <1>7
    <2>3. \A k \in 1 .. n : Glob!IsAt(s, pat[k], to[k])
      BY <1>2, <1>5, <1>7, GlobShape
    <2>4. \A k \in 1 .. n - 1 : to[k] + Len(pat[k]) <= to[k + 1]
      <3> SUFFICES ASSUME NEW k \in 1 .. n - 1 PROVE to[k] + Len(pat[k]) <= to[k + 1]
        OBVIOUS
      <3>1. /\ k \in 1 .. n /\ k + 1 \in 1 .. n /\ k # n /\ Len(pat[k]) \in Nat
            /\ at[k] \in 0 .. Len(s) /\ at[k + 1] \in 0 .. Len(s)
        BY <1>2
      <3>2. to[k] = at[k] /\ to[k + 1] \in {at[k + 1], Len(s)}
        BY <3>1
      <3>3. at[k] + Len(pat[k]) <= at[k + 1]
        BY <1>3
      <3> QED
        BY <1>2, <3>1, <3>2, <3>3
    <2> HIDE DEF to
    <2> QED
      BY <2>1, <2>2, <2>3, <2>4 DEF Glob!Means, n
  <1> QED
    BY <1>1, <1>6, <1>7 DEF Glob!EndsHere, n

\* However the parts stand one behind another in a name, the leftmost search
\* finds each of them, and no later. By the least number of parts that it did
\* not find.
LEMMA GlobFinds ==
  ASSUME NEW pat \in Pattern, NEW s \in EntityName,
         NEW m \in [1 .. Len(pat) -> 0 .. Len(s)], m[1] = 0,
         \A k \in 1 .. Len(pat) : Glob!IsAt(s, pat[k], m[k]),
         \A k \in 1 .. Len(pat) - 1 : m[k] + Len(pat[k]) <= m[k + 1]
  PROVE  \A n \in 1 .. Len(pat) : \E at \in [1 .. n -> 0 .. Len(s)] :
             Glob!Found(pat, s, n, at) /\ at[n] <= m[n]
  <1> DEFINE Good(n) == \E at \in [1 .. n -> 0 .. Len(s)] :
                            Glob!Found(pat, s, n, at) /\ at[n] <= m[n]
             Bad == {n \in 1 .. Len(pat) : ~Good(n)}
  <1>1. /\ Len(s) \in Nat /\ Len(pat) \in Nat /\ Len(pat) > 0
        /\ \A k \in 1 .. Len(pat) : Len(pat[k]) \in Nat
    BY GlobShape
  <1>2. SUFFICES ASSUME Bad # {} PROVE FALSE
    BY <1>2
  <1>3. Bad \in SUBSET Nat
    BY <1>1
  <1>4. PICK b \in Bad : \A n \in Bad : b <= n
    <2> HIDE DEF Bad
    <2> QED
      BY <1>2, <1>3, LeastIn
  <1>5. b \in 1 .. Len(pat) /\ ~Good(b)
    BY <1>4
  <1>6. b # 1
    <2> SUFFICES ASSUME b = 1 PROVE FALSE
      OBVIOUS
    <2> DEFINE at == [k \in 1 .. 1 |-> 0]
    <2>1. at \in [1 .. 1 -> 0 .. Len(s)] /\ at[1] = 0
      BY <1>1
    <2>2. Glob!IsAt(s, pat[1], 0) /\ 1 .. 1 - 1 = {} /\ m[1] = 0
      BY <1>1
    <2> HIDE DEF at
    <2>3. Glob!Found(pat, s, 1, at)
      BY <2>1, <2>2 DEF Glob!Found
    <2> QED
      BY <1>5, <2>1, <2>2, <2>3
  <1> DEFINE a == b - 1
  <1>7. a \in 1 .. Len(pat) /\ a + 1 = b /\ a < b /\ a \in 1 .. Len(pat) - 1 /\ b \in Nat /\ a \in Nat
    BY <1>1, <1>5, <1>6
  <1> HIDE DEF a
  <1>8. Good(a)
    BY <1>4, <1>7
  <1>9. PICK at \in [1 .. a -> 0 .. Len(s)] : Glob!Found(pat, s, a, at) /\ at[a] <= m[a]
    BY <1>8
  <1> HIDE DEF Good, Bad
  <1> DEFINE from == at[a] + Len(pat[a])
             I == {i \in Nat : from <= i /\ Glob!IsAt(s, pat[b], i)}
  <1>10. /\ at[a] \in 0 .. Len(s) /\ m[a] \in 0 .. Len(s) /\ m[b] \in 0 .. Len(s)
         /\ Len(pat[a]) \in Nat
    <2>1. a \in 1 .. a
      BY <1>7
    <2>2. at[a] \in 0 .. Len(s)
      BY <1>9, <2>1
    <2>3. m[a] \in 0 .. Len(s) /\ m[b] \in 0 .. Len(s)
      BY <1>5, <1>7
    <2> QED
      BY <1>1, <1>7, <2>2, <2>3
  <1>11. from \in Nat /\ from <= m[b] /\ m[b] \in I
    <2>1. m[a] + Len(pat[a]) <= m[b] /\ Glob!IsAt(s, pat[b], m[b])
      BY <1>5, <1>7
    <2>2. from \in Nat /\ from <= m[b] /\ m[b] \in Nat
      BY <1>1, <1>9, <1>10, <2>1
    <2> QED
      BY <2>1, <2>2
  <1>12. PICK j \in I : \A i \in I : j <= i
    <2>1. I \in SUBSET Nat
      OBVIOUS
    <2> HIDE DEF I
    <2> QED
      BY <1>11, <2>1, LeastIn
  <1>13. j \in Nat /\ j <= m[b] /\ j \in 0 .. Len(s) /\ Glob!FirstFrom(s, pat[b], from, j)
    <2>1. j \in Nat /\ j <= m[b] /\ j \in 0 .. Len(s)
      BY <1>1, <1>10, <1>11, <1>12
    <2>2. \A k \in from .. j - 1 : ~Glob!IsAt(s, pat[b], k)
      <3> SUFFICES ASSUME NEW k \in from .. j - 1, Glob!IsAt(s, pat[b], k) PROVE FALSE
        OBVIOUS
      <3>1. k \in Nat /\ from <= k /\ ~(j <= k)
        BY <1>11, <2>1
      <3> QED
        BY <1>12, <3>1
    <2> QED
      BY <1>12, <2>1, <2>2 DEF Glob!FirstFrom
  <1> HIDE DEF I
  <1> DEFINE to == [k \in 1 .. b |-> IF k = b THEN j ELSE at[k]]
  <1>14. /\ to \in [1 .. b -> 0 .. Len(s)] /\ to[b] = j
         /\ \A k \in 1 .. a : to[k] = at[k]
    <2>1. \A k \in 1 .. b : k = b \/ k \in 1 .. a
      BY <1>7
    <2>2. \A k \in 1 .. a : k \in 1 .. b /\ k # b
      BY <1>7
    <2>3. b \in 1 .. b
      BY <1>5, <1>7
    <2> QED
      BY <1>13, <2>1, <2>2, <2>3
  <1> HIDE DEF to
  <1>15. Glob!Found(pat, s, b, to)
    <2>1. to[1] = 0 /\ Glob!IsAt(s, pat[1], 0)
      <3>1. 1 \in 1 .. a
        BY <1>7
      <3> QED
        BY <1>9, <1>14, <3>1 DEF Glob!Found
    <2>2. ASSUME NEW k \in 1 .. b - 1
          PROVE  Glob!FirstFrom(s, pat[k + 1], to[k] + Len(pat[k]), to[k + 1])
      <3>1. CASE k = a
        BY <1>7, <1>10, <1>13, <1>14, <3>1
      <3>2. CASE k # a
        <4>1. k \in 1 .. a - 1 /\ k \in 1 .. a /\ k + 1 \in 1 .. a
          BY <1>7, <2>2, <3>2
        <4> QED
          BY <1>9, <1>14, <4>1 DEF Glob!Found
      <3> QED
        BY <3>1, <3>2
    <2> QED
      BY <2>1, <2>2 DEF Glob!Found
  <1> QED
    BY <1>5, <1>13, <1>14, <1>15 DEF Good

\* A pattern matches what it means, unless its last part stands twice.
LEMMA GlobExact ==
  ASSUME NEW pat \in Pattern, NEW s \in EntityName,
         Glob!Last(pat) = <<>> \/ ~Glob!Repeats(pat, s)
  PROVE  Glob!glob_match(pat, s) <=> Glob!Means(pat, s)
  <1> SUFFICES ASSUME Glob!Means(pat, s) PROVE Glob!glob_match(pat, s)
    BY GlobSound
  <1> DEFINE n == Len(pat)
  <1>1. /\ Len(s) \in Nat /\ n \in Nat /\ n > 0 /\ n \in 1 .. n /\ Glob!Last(pat) = pat[n]
        /\ \A k \in 1 .. n : Len(pat[k]) \in Nat
        /\ Glob!Last(pat) = <<>> => n > 1
    BY GlobShape
  <1>2. PICK m \in [1 .. n -> 0 .. Len(s)] :
           /\ m[1] = 0 /\ m[n] + Len(Glob!Last(pat)) = Len(s)
           /\ \A k \in 1 .. n : Glob!IsAt(s, pat[k], m[k])
           /\ \A k \in 1 .. n - 1 : m[k] + Len(pat[k]) <= m[k + 1]
    BY DEF Glob!Means
  <1>3. PICK at \in [1 .. n -> 0 .. Len(s)] : Glob!Found(pat, s, n, at)
    BY <1>1, <1>2, GlobFinds
  <1>4. Glob!IsAt(s, pat[n], at[n])
    <2>1. CASE n = 1
      <3>1. at[1] = 0 /\ Glob!IsAt(s, pat[1], 0)
        BY <1>3 DEF Glob!Found
      <3> QED
        BY <2>1, <3>1, Zenon
    <2>2. CASE n # 1
      <3>1. n - 1 \in 1 .. n - 1 /\ (n - 1) + 1 = n
        <4>1. n \in Nat /\ n > 0
          BY <1>1
        <4> HIDE DEF n
        <4> QED
          BY <2>2, <4>1
      <3>2. Glob!FirstFrom(s, pat[(n - 1) + 1], at[n - 1] + Len(pat[n - 1]), at[(n - 1) + 1])
        BY <1>3, <3>1 DEF Glob!Found
      <3> QED
        BY <3>1, <3>2 DEF Glob!FirstFrom
    <2> QED
      BY <2>1, <2>2
  <1>5. CASE Glob!Last(pat) = <<>>
    BY <1>1, <1>3, <1>5 DEF Glob!glob_match, Glob!EndsHere
  <1>6. CASE ~Glob!Repeats(pat, s)
    <2>1. at[n] \in 0 .. Len(s) /\ m[n] \in 0 .. Len(s)
      BY <1>1
    <2>2. at[n] = m[n]
      BY <1>1, <1>2, <1>4, <1>6, <2>1 DEF Glob!Repeats
    <2> QED
      BY <1>2, <1>3, <2>2 DEF Glob!glob_match, Glob!EndsHere
  <1> QED
    BY <1>5, <1>6

\* Sound for every name, exact unless a last part repeats (EntityGlob).
LEMMA GlobPromise == GlobIInv => DecidedAsMeant
  <1> SUFFICES ASSUME GlobIInv PROVE Glob!MatchesAreMeant /\ Glob!ExactUnlessRepeated
    BY DEF DecidedAsMeant, Glob!DecidedAsMeant
  <1>1. entity \in EntityName /\ deny \subseteq Pattern /\ allow \subseteq Pattern
    BY DEF GlobIInv, Glob!Lists
  <1>2. \A v \in verdict : v <=> /\ \A p \in deny : ~Glob!glob_match(p, entity)
                                 /\ allow = {} \/ \E p \in allow : Glob!glob_match(p, entity)
    BY DEF GlobIInv, Glob!entity_allowed
  <1>3. Glob!MatchesAreMeant
    BY <1>1, <1>2, GlobSound DEF Glob!MatchesAreMeant
  <1>4. Glob!ExactUnlessRepeated
    <2> SUFFICES ASSUME NEW v \in verdict,
                        \A p \in deny \cup allow : Glob!Last(p) = <<>> \/ ~Glob!Repeats(p, entity)
                 PROVE  v = /\ \A p \in deny : ~Glob!Means(p, entity)
                            /\ allow = {} \/ \E p \in allow : Glob!Means(p, entity)
      BY DEF Glob!ExactUnlessRepeated
    <2>1. \A p \in deny \cup allow : Glob!glob_match(p, entity) <=> Glob!Means(p, entity)
      BY <1>1, GlobExact
    <2>2. v = Glob!entity_allowed(deny, allow, entity)
      BY DEF GlobIInv
    <2>3. Glob!entity_allowed(deny, allow, entity)
              <=> /\ \A p \in deny : ~Glob!Means(p, entity)
                  /\ allow = {} \/ \E p \in allow : Glob!Means(p, entity)
      BY <2>1 DEF Glob!entity_allowed
    <2> QED
      BY <2>2, <2>3, Zenon DEF Glob!entity_allowed
  <1> QED
    BY <1>3, <1>4

\* The verdict on an entity is the one the patterns mean, for names and
\* patterns of any length, unless the last part of one stands in the name twice.
THEOREM DecidedTheorem == Glob!Spec => []DecidedAsMeant
  BY GlobInit, GlobStep, GlobPromise, PTL DEF Glob!Spec
-----------------------------------------------------------------------------
\* The sequences that a concatenation of the first of seqs goes through.
Runs(f, seqs) == f = [i \in 1 .. Len(seqs) |-> IF i = 1 THEN seqs[i] ELSE f[i - 1] \o seqs[i]]

\* FlattenSeq chooses such a way; if there is only one, it ends where that ends.
LEMMA FlattenIsLastRun ==
  ASSUME NEW S, NEW seqs \in Seq(Seq(S)), seqs # <<>>, NEW f, Runs(f, seqs),
         \A g : Runs(g, seqs) => g = f
  PROVE  Keys!FlattenSeq(seqs) = f[Len(seqs)]
  <1>1. Len(seqs) \in Nat \ {0}
    OBVIOUS
  <1>2. Keys!FlattenSeq(seqs) = (CHOOSE g : Runs(g, seqs))[Len(seqs)]
    BY <1>1, Zenon DEF Keys!FlattenSeq, Runs
  <1>3. Runs(CHOOSE g : Runs(g, seqs), seqs)
    BY Zenon
  <1> QED
    BY <1>2, <1>3

\* There is one way through a concatenation: at the least place where two
\* differ, they agreed just before.
LEMMA RunsAlike ==
  ASSUME NEW S, NEW seqs \in Seq(Seq(S)), NEW f, NEW g, Runs(f, seqs), Runs(g, seqs)
  PROVE  f = g
  <1> DEFINE n == Len(seqs)
             I == {i \in 1 .. n : f[i] # g[i]}
  <1>1. n \in Nat
    OBVIOUS
  <1>2. ASSUME NEW h, Runs(h, seqs), NEW i \in 1 .. n
        PROVE  h[i] = IF i = 1 THEN seqs[i] ELSE h[i - 1] \o seqs[i]
    <2> DEFINE hh == [k \in 1 .. n |-> IF k = 1 THEN seqs[k] ELSE h[k - 1] \o seqs[k]]
    <2>1. hh[i] = IF i = 1 THEN seqs[i] ELSE h[i - 1] \o seqs[i]
      OBVIOUS
    <2>2. h = hh
      BY <1>2, Zenon DEF Runs
    <2> QED
      BY <2>1, <2>2, Zenon
  <1>3. I = {}
    <2> SUFFICES ASSUME I # {} PROVE FALSE
      OBVIOUS
    <2>1. PICK i \in I : \A m \in I : i <= m
      <3>1. I \in SUBSET Nat
        BY <1>1
      <3> QED
        BY <3>1, Least
    <2>2. i # 1 => i - 1 \in 1 .. n /\ i - 1 \notin I
      BY <1>1, <2>1
    <2>3. i = 1 \/ f[i - 1] = g[i - 1]
      BY <2>2
    <2>4. f[i] = g[i]
      BY <1>2, <2>1, <2>3
    <2> QED
      BY <2>1, <2>4
  <1>4. f = [i \in 1 .. n |-> f[i]] /\ g = [i \in 1 .. n |-> g[i]]
    BY DEF Runs
  <1> QED
    BY <1>3, <1>4

\* A way through a concatenation goes on to one more sequence.
LEMMA RunsGoOn ==
  ASSUME NEW S, NEW seqs \in Seq(Seq(S)), NEW t \in Seq(S), NEW f, Runs(f, seqs)
  PROVE  LET n == Len(seqs)
         IN  Runs([i \in 1 .. n + 1 |-> IF i <= n THEN f[i] ELSE IF n = 0 THEN t ELSE f[n] \o t],
                  Append(seqs, t))
  <1> DEFINE n == Len(seqs)
             g == [i \in 1 .. n + 1 |-> IF i <= n THEN f[i] ELSE IF n = 0 THEN t ELSE f[n] \o t]
             more == Append(seqs, t)
  <1>1. /\ n \in Nat /\ Len(more) = n + 1 /\ more[n + 1] = t
        /\ \A i \in 1 .. n : more[i] = seqs[i]
    OBVIOUS
  <1>2. ASSUME NEW i \in 1 .. n
        PROVE  f[i] = IF i = 1 THEN seqs[i] ELSE f[i - 1] \o seqs[i]
    <2> DEFINE ff == [k \in 1 .. n |-> IF k = 1 THEN seqs[k] ELSE f[k - 1] \o seqs[k]]
    <2>1. ff[i] = IF i = 1 THEN seqs[i] ELSE f[i - 1] \o seqs[i]
      OBVIOUS
    <2>2. f = ff
      BY Zenon DEF Runs
    <2> QED
      BY <2>1, <2>2, Zenon
  <1>3. ASSUME NEW i \in 1 .. n + 1
        PROVE  g[i] = IF i = 1 THEN more[i] ELSE g[i - 1] \o more[i]
    <2>1. CASE i \in 1 .. n
      <3>1. g[i] = f[i] /\ more[i] = seqs[i] /\ (i # 1 => g[i - 1] = f[i - 1])
        BY <1>1, <2>1
      <3> QED
        BY <1>2, <2>1, <3>1
    <2>2. CASE i = n + 1
      <3>1. g[i] = (IF n = 0 THEN t ELSE f[n] \o t) /\ more[i] = t
        BY <1>1, <2>2
      <3>2. n # 0 => g[i - 1] = f[n] /\ i # 1
        BY <1>1, <2>2
      <3> QED
        BY <1>1, <2>2, <3>1, <3>2
    <2> QED
      BY <1>1, <2>1, <2>2
  <1>4. g = [i \in 1 .. Len(more) |-> IF i = 1 THEN more[i] ELSE g[i - 1] \o more[i]]
    BY <1>1, <1>3
  <1> QED
    BY <1>4 DEF Runs

\* There is a way through every concatenation.
LEMMA RunsExist ==
  ASSUME NEW S, NEW seqs \in Seq(Seq(S))
  PROVE  \E f : Runs(f, seqs)
  <1> DEFINE Stuck(n) == \E ss \in Seq(Seq(S)) : Len(ss) = n /\ ~\E f : Runs(f, ss)
             I == {n \in Nat : Stuck(n)}
  <1> SUFFICES ASSUME I # {} PROVE FALSE
    <2>1. Len(seqs) \in Nat
      OBVIOUS
    <2> QED
      BY <2>1
  <1>1. PICK n \in I : \A m \in I : n <= m
    BY Least
  <1>2. PICK ss \in Seq(Seq(S)) : Len(ss) = n /\ ~\E f : Runs(f, ss)
    BY <1>1
  <1>3. CASE ss = <<>>
    <2>1. Runs([i \in 1 .. 0 |-> <<>>], ss)
      BY <1>3 DEF Runs
    <2> QED
      BY <1>2, <2>1
  <1>4. CASE ss # <<>>
    <2>1. PICK front \in Seq(Seq(S)), t \in Seq(S) : ss = Append(front, t)
      BY <1>4, SequenceEmptyOrAppend
    <2>2. Len(front) \in Nat /\ Len(front) < n
      BY <1>2, <2>1
    <2>3. Len(front) \notin I
      BY <1>1, <2>2
    <2>4. PICK f : Runs(f, front)
      BY <2>2, <2>3
    <2> QED
      BY <1>2, <2>1, <2>4, RunsGoOn
  <1> QED
    BY <1>3, <1>4

\* What FlattenSeq does of one sequence more (SequencesExt).
LEMMA FlattenAppend ==
  ASSUME NEW S, NEW seqs \in Seq(Seq(S)), NEW t \in Seq(S)
  PROVE  Keys!FlattenSeq(Append(seqs, t)) = Keys!FlattenSeq(seqs) \o t
  <1> DEFINE n == Len(seqs)
             more == Append(seqs, t)
  <1>1. PICK f : Runs(f, seqs)
    BY RunsExist
  <1> DEFINE g == [i \in 1 .. n + 1 |-> IF i <= n THEN f[i] ELSE IF n = 0 THEN t ELSE f[n] \o t]
  <1>2. Runs(g, more)
    BY <1>1, RunsGoOn
  <1>3. more \in Seq(Seq(S)) /\ more # <<>> /\ Len(more) = n + 1 /\ n \in Nat
    BY AppendProperties
  <1>4. Keys!FlattenSeq(more) = g[n + 1]
    <2> HIDE DEF g, more, n
    <2> QED
      BY <1>2, <1>3, RunsAlike, FlattenIsLastRun
  <1>5. g[n + 1] = IF n = 0 THEN t ELSE f[n] \o t
    BY <1>3
  <1>6. CASE n = 0
    <2>1. Keys!FlattenSeq(seqs) = <<>>
      BY <1>6 DEF Keys!FlattenSeq
    <2> QED
      BY <1>4, <1>5, <1>6, <2>1
  <1>7. CASE n # 0
    <2>1. Keys!FlattenSeq(seqs) = f[n]
      BY <1>1, <1>3, <1>7, RunsAlike, FlattenIsLastRun
    <2> QED
      BY <1>4, <1>5, <1>7, <2>1
  <1> QED
    BY <1>6, <1>7

\* Nothing makes nothing.
LEMMA FlattenEmpty == Keys!FlattenSeq(<<>>) = <<>>
  BY DEF Keys!FlattenSeq

\* KeySegment counts as FiniteSets does.
LEMMA KeysCount == \A S : Keys!Cardinality(S) = Cardinality(S)
  BY DEF Keys!Cardinality, Cardinality

\* A quote turns inside into outside and back.
LEMMA InsideStep ==
  ASSUME NEW s, NEW k \in Nat \ {0}
  PROVE  ~Keys!Inside(s, 1) /\ (Keys!Inside(s, k + 1) <=> ~(Keys!Inside(s, k) <=> s[k] = Keys!Quote))
  <1> DEFINE Before(n) == {l \in 1 .. n - 1 : s[l] = Keys!Quote}
  <1>1. \A n \in Nat \ {0} : IsFiniteSet(Before(n)) /\ Cardinality(Before(n)) \in Nat
    <2> SUFFICES ASSUME NEW n \in Nat \ {0}
                 PROVE  IsFiniteSet(Before(n)) /\ Cardinality(Before(n)) \in Nat
      OBVIOUS
    <2>1. IsFiniteSet(1 .. n - 1) /\ Before(n) \in SUBSET (1 .. n - 1)
      BY FS_Interval
    <2> QED
      BY <2>1, FS_Subset, FS_CardinalityType
  <1>2. \A n \in Nat \ {0} : Keys!Inside(s, n) <=> Cardinality(Before(n)) % 2 = 1
    BY KeysCount DEF Keys!Inside
  <1>3. ~Keys!Inside(s, 1)
    <2>1. Before(1) = {}
      OBVIOUS
    <2>2. Cardinality(Before(1)) = 0
      BY <2>1, FS_EmptySet
    <2> QED
      BY <1>2, <2>2
  <1>4. Cardinality(Before(k + 1)) = IF s[k] = Keys!Quote THEN Cardinality(Before(k)) + 1 ELSE Cardinality(Before(k))
    <2>1. CASE s[k] = Keys!Quote
      <3>1. Before(k + 1) = Before(k) \cup {k} /\ k \notin Before(k)
        BY <2>1
      <3> QED
        BY <1>1, <2>1, <3>1, FS_AddElement
    <2>2. CASE s[k] # Keys!Quote
      <3>1. Before(k + 1) = Before(k)
        BY <2>2
      <3> QED
        BY <2>2, <3>1
    <2> QED
      BY <2>1, <2>2
  <1>5. Cardinality(Before(k)) \in Nat
    BY <1>1
  <1> HIDE DEF Before
  <1>6. \A c \in Nat : (c + 1) % 2 = 1 <=> ~(c % 2 = 1)
    OBVIOUS
  <1> QED
    BY <1>2, <1>3, <1>4, <1>5, <1>6

\* What follows a text does not count in it, and what it leaves open counts in
\* what follows.
LEMMA InsideOfConcat ==
  ASSUME NEW S, NEW s \in Seq(S), NEW t \in Seq(S)
  PROVE  /\ \A k \in 1 .. Len(s) + 1 : Keys!Inside(s \o t, k) <=> Keys!Inside(s, k)
         /\ \A k \in 1 .. Len(t) + 1 :
                Keys!Inside(s \o t, Len(s) + k) <=> ~(Keys!Inside(s, Len(s) + 1) <=> Keys!Inside(t, k))
  <1>1. /\ Len(s) \in Nat /\ Len(t) \in Nat
        /\ \A k \in 1 .. Len(s) : (s \o t)[k] = s[k]
        /\ \A k \in 1 .. Len(t) : (s \o t)[Len(s) + k] = t[k]
    OBVIOUS
  <1>2. ASSUME NEW k \in 1 .. Len(s) + 1
        PROVE  Keys!Inside(s \o t, k) <=> Keys!Inside(s, k)
    <2>1. {l \in 1 .. k - 1 : (s \o t)[l] = Keys!Quote} = {l \in 1 .. k - 1 : s[l] = Keys!Quote}
      BY <1>1
    <2> QED
      BY <2>1 DEF Keys!Inside
  <1> DEFINE Fits(k) == Keys!Inside(s \o t, Len(s) + k)
                          <=> ~(Keys!Inside(s, Len(s) + 1) <=> Keys!Inside(t, k))
             I == {k \in 1 .. Len(t) + 1 : ~Fits(k)}
  <1>3. Fits(1)
    BY <1>1, <1>2, InsideStep
  <1>4. ASSUME NEW k \in 1 .. Len(t), Fits(k) PROVE Fits(k + 1)
    <2>1. /\ Keys!Inside(t, k + 1) <=> ~(Keys!Inside(t, k) <=> t[k] = Keys!Quote)
          /\ Keys!Inside(s \o t, (Len(s) + k) + 1)
                <=> ~(Keys!Inside(s \o t, Len(s) + k) <=> (s \o t)[Len(s) + k] = Keys!Quote)
      <3>1. k \in Nat \ {0} /\ Len(s) + k \in Nat \ {0}
        BY <1>1
      <3> QED
        BY <3>1, InsideStep
    <2>2. (Len(s) + k) + 1 = Len(s) + (k + 1) /\ (s \o t)[Len(s) + k] = t[k]
      BY <1>1
    <2> QED
      BY <1>4, <2>1, <2>2
  <1>5. I = {}
    <2> SUFFICES ASSUME I # {} PROVE FALSE
      OBVIOUS
    <2>1. I \in SUBSET Nat
      BY <1>1
    <2>2. PICK k \in I : \A m \in I : k <= m
      BY <2>1, Least
    <2>3. k # 1 /\ k \in 1 .. Len(t) + 1
      BY <1>3, <2>2
    <2>4. k - 1 \in 1 .. Len(t) /\ ~(k <= k - 1) /\ (k - 1) + 1 = k
      BY <1>1, <2>3
    <2>5. k - 1 \notin I
      BY <2>2, <2>4
    <2>6. Fits(k - 1)
      BY <1>1, <2>4, <2>5
    <2>7. Fits((k - 1) + 1)
      BY <1>4, <2>4, <2>6
    <2> QED
      BY <2>2, <2>4, <2>7
  <1> QED
    BY <1>2, <1>5

\* A text that leaves no quotes open, and one without separators as well.
Even(s) == ~Keys!Inside(s, Len(s) + 1)
Whole(s) == Even(s) /\ \A k \in 1 .. Len(s) : s[k] = Keys!Comma => Keys!Inside(s, k)

\* A text without quotes and commas.
LEMMA PlainIsWhole ==
  ASSUME NEW S, NEW s \in Seq(S), \A k \in 1 .. Len(s) : s[k] \notin {Keys!Quote, Keys!Comma}
  PROVE  Whole(s)
  <1>1. {l \in 1 .. (Len(s) + 1) - 1 : s[l] = Keys!Quote} = {}
    <2>1. (Len(s) + 1) - 1 = Len(s)
      OBVIOUS
    <2> QED
      BY <2>1
  <1>2. Even(s)
    <2>1. Cardinality({}) % 2 # 1
      BY FS_EmptySet
    <2> QED
      BY <1>1, <2>1, KeysCount DEF Even, Keys!Inside
  <1> QED
    BY <1>2 DEF Whole

\* Whole texts make whole texts.
LEMMA WholeOfConcat ==
  ASSUME NEW S, NEW s \in Seq(S), NEW t \in Seq(S), Even(s), Even(t)
  PROVE  Even(s \o t) /\ (Whole(s) /\ Whole(t) => Whole(s \o t))
  <1>1. /\ Len(s) \in Nat /\ Len(t) \in Nat /\ Len(s \o t) = Len(s) + Len(t)
        /\ \A k \in 1 .. Len(s) : (s \o t)[k] = s[k]
        /\ \A k \in 1 .. Len(t) : (s \o t)[Len(s) + k] = t[k]
    OBVIOUS
  <1>2. /\ \A k \in 1 .. Len(s) + 1 : Keys!Inside(s \o t, k) <=> Keys!Inside(s, k)
        /\ \A k \in 1 .. Len(t) + 1 : Keys!Inside(s \o t, Len(s) + k) <=> Keys!Inside(t, k)
    BY InsideOfConcat DEF Even
  <1>3. Even(s \o t)
    <2>1. Len(t) + 1 \in 1 .. Len(t) + 1 /\ Len(s \o t) + 1 = Len(s) + (Len(t) + 1)
      BY <1>1
    <2> QED
      BY <1>2, <2>1 DEF Even
  <1>4. ASSUME Whole(s), Whole(t), NEW k \in 1 .. Len(s \o t), (s \o t)[k] = Keys!Comma
        PROVE  Keys!Inside(s \o t, k)
    <2>1. CASE k \in 1 .. Len(s)
      <3>1. k \in 1 .. Len(s) + 1 /\ s[k] = Keys!Comma
        BY <1>1, <1>4, <2>1
      <3>2. Keys!Inside(s, k)
        BY <1>4, <2>1, <3>1 DEF Whole
      <3> QED
        BY <1>2, <3>1, <3>2
    <2>2. CASE k \notin 1 .. Len(s)
      <3>1. k - Len(s) \in 1 .. Len(t) /\ k = Len(s) + (k - Len(s))
        BY <1>1, <2>2
      <3>2. t[k - Len(s)] = Keys!Comma /\ k - Len(s) \in 1 .. Len(t) + 1
        BY <1>1, <1>4, <3>1
      <3>3. Keys!Inside(t, k - Len(s))
        BY <1>4, <3>1, <3>2 DEF Whole
      <3> QED
        BY <1>2, <3>1, <3>2, <3>3
    <2> QED
      BY <2>1, <2>2
  <1> QED
    BY <1>3, <1>4 DEF Whole

\* A pair is what stands between two cuts of which one follows the other.
LEMMA CutIsConsecutive ==
  ASSUME NEW seg, NEW p \in Keys!Pairs(seg)
  PROVE  \E l, r \in Keys!Cuts(seg) :
            /\ l < r /\ (\A d \in Keys!Cuts(seg) : ~(l < d /\ d < r))
            /\ p = SubSeq(seg, l + 1, r - 1)
  BY DEF Keys!Pairs

\* And what stands between two such cuts is a pair.
LEMMA ConsecutiveIsCut ==
  ASSUME NEW seg, NEW l \in Keys!Cuts(seg), NEW r \in Keys!Cuts(seg),
         l < r, \A d \in Keys!Cuts(seg) : ~(l < d /\ d < r)
  PROVE  SubSeq(seg, l + 1, r - 1) \in Keys!Pairs(seg)
  <1> DEFINE c == <<l, r>>
  <1>1. c \in Keys!Cuts(seg) \X Keys!Cuts(seg) /\ c[1] = l /\ c[2] = r
    OBVIOUS
  <1> HIDE DEF c
  <1> QED
    BY <1>1 DEF Keys!Pairs

\* A text without separators is one pair.
LEMMA OnePair ==
  ASSUME NEW S, NEW t \in Seq(S), Whole(t)
  PROVE  Keys!Pairs(t) = {t}
  <1>1. Len(t) \in Nat /\ Keys!Cuts(t) = {0, Len(t) + 1}
    BY DEF Whole, Keys!Cuts
  <1>2. SubSeq(t, 0 + 1, (Len(t) + 1) - 1) = t
    <2>1. 0 + 1 = 1 /\ (Len(t) + 1) - 1 = Len(t)
      BY <1>1
    <2> QED
      BY <2>1, SubSeqFull
  <1>3. t \in Keys!Pairs(t)
    <2>1. /\ 0 \in Keys!Cuts(t) /\ Len(t) + 1 \in Keys!Cuts(t) /\ 0 < Len(t) + 1
          /\ \A d \in Keys!Cuts(t) : ~(0 < d /\ d < Len(t) + 1)
      BY <1>1
    <2> QED
      BY <1>2, <2>1, ConsecutiveIsCut
  <1>4. ASSUME NEW p \in Keys!Pairs(t) PROVE p = t
    <2>1. PICK l, r \in Keys!Cuts(t) : l < r /\ p = SubSeq(t, l + 1, r - 1)
      BY CutIsConsecutive
    <2>2. l = 0 /\ r = Len(t) + 1
      BY <1>1, <2>1
    <2> QED
      BY <1>2, <2>1, <2>2
  <1> QED
    BY <1>3, <1>4

\* A comma after a text that leaves no quotes open begins another pair.
LEMMA OnePairMore ==
  ASSUME NEW S, NEW s \in Seq(S), NEW t \in Seq(S), Keys!Comma \in S, Even(s), Whole(t)
  PROVE  LET u == s \o <<Keys!Comma>> \o t
         IN  Even(u) /\ Keys!Pairs(u) = Keys!Pairs(s) \cup {t}
  <1> DEFINE v == s \o <<Keys!Comma>>
             u == v \o t
             n == Len(s)
             m == Len(t)
  <1>1. /\ n \in Nat /\ m \in Nat /\ v \in Seq(S) /\ u \in Seq(S)
        /\ Len(v) = n + 1 /\ Len(u) = n + 1 + m
        /\ \A k \in 1 .. n : v[k] = s[k]
        /\ v[n + 1] = Keys!Comma
        /\ \A k \in 1 .. n + 1 : u[k] = v[k]
        /\ \A k \in 1 .. m : u[n + 1 + k] = t[k]
    OBVIOUS
  <1>2. Even(v)
    <2>1. <<Keys!Comma>> \in Seq(S) /\ Len(<<Keys!Comma>>) = 1 /\ <<Keys!Comma>>[1] # Keys!Quote
      BY DEF Keys!Comma, Keys!Quote
    <2>2. Even(<<Keys!Comma>>)
      BY <2>1, InsideStep DEF Even
    <2> QED
      BY <2>1, <2>2, WholeOfConcat
  <1> HIDE DEF v, u
  <1>3. Even(u)
    BY <1>1, <1>2, WholeOfConcat DEF u, Whole
  <1>4. \A k \in 1 .. n + 1 : Keys!Inside(u, k) <=> Keys!Inside(s, k)
    <2>1. \A k \in 1 .. n + 1 : Keys!Inside(v, k) <=> Keys!Inside(s, k)
      <3>1. <<Keys!Comma>> \in Seq(S)
        OBVIOUS
      <3> QED
        BY <3>1, InsideOfConcat DEF v
    <2>2. \A k \in 1 .. n + 1 : Keys!Inside(u, k) <=> Keys!Inside(v, k)
      <3>1. \A k \in 1 .. Len(v) + 1 : Keys!Inside(u, k) <=> Keys!Inside(v, k)
        BY <1>1, InsideOfConcat DEF u
      <3> QED
        BY <1>1, <3>1
    <2> QED
      BY <2>1, <2>2
  <1>5. \A k \in 1 .. m + 1 : Keys!Inside(u, n + 1 + k) <=> Keys!Inside(t, k)
    <2>1. \A k \in 1 .. m + 1 : Keys!Inside(u, Len(v) + k) <=> Keys!Inside(t, k)
      BY <1>1, <1>2, InsideOfConcat DEF u, Even
    <2> QED
      BY <1>1, <2>1
  <1>6. Keys!Cuts(u) = Keys!Cuts(s) \cup {n + m + 2}
    <2>1. ASSUME NEW k \in 1 .. n + 1 + m
          PROVE  (u[k] = Keys!Comma /\ ~Keys!Inside(u, k))
                   <=> (k = n + 1 \/ (k \in 1 .. n /\ s[k] = Keys!Comma /\ ~Keys!Inside(s, k)))
      <3>1. CASE k \in 1 .. n
        BY <1>1, <1>4, <3>1
      <3>2. CASE k = n + 1
        BY <1>1, <1>4, <3>2 DEF Even
      <3>3. CASE k > n + 1
        <4>1. k - (n + 1) \in 1 .. m /\ k = n + 1 + (k - (n + 1))
          BY <1>1, <3>3
        <4>2. u[k] = t[k - (n + 1)] /\ (Keys!Inside(u, k) <=> Keys!Inside(t, k - (n + 1)))
          <5> DEFINE j == k - (n + 1)
          <5>1. j \in 1 .. m /\ j \in 1 .. m + 1 /\ k = n + 1 + j
            BY <1>1, <4>1
          <5> HIDE DEF j
          <5>2. u[n + 1 + j] = t[j]
            BY <1>1, <5>1
          <5>3. Keys!Inside(u, n + 1 + j) <=> Keys!Inside(t, j)
            BY <1>5, <5>1
          <5>4. u[k] = t[j] /\ (Keys!Inside(u, k) <=> Keys!Inside(t, j))
            BY <5>1, <5>2, <5>3
          <5> QED
            BY <5>4 DEF j
        <4> QED
          BY <1>1, <3>3, <4>1, <4>2 DEF Whole
      <3> QED
        BY <1>1, <3>1, <3>2, <3>3
    <2>2. /\ DOMAIN u = 1 .. n + 1 + m /\ DOMAIN s = 1 .. n
          /\ Len(u) + 1 = n + m + 2 /\ n + 1 \in 1 .. n + 1 + m
      BY <1>1
    <2> QED
      BY <1>1, <2>1, <2>2 DEF Keys!Cuts
  <1>7. Keys!Cuts(s) \subseteq 0 .. n + 1 /\ n + 1 \in Keys!Cuts(s)
    BY <1>1 DEF Keys!Cuts
  <1>8. ASSUME NEW l \in Keys!Cuts(s), NEW r \in Keys!Cuts(s), l < r
        PROVE  SubSeq(u, l + 1, r - 1) = SubSeq(s, l + 1, r - 1)
    <2>1. l \in Nat /\ r \in Nat /\ r <= n + 1
      BY <1>1, <1>7
    <2>2. ASSUME NEW k \in l + 1 .. r - 1 PROVE k \in 1 .. n /\ u[k] = s[k]
      <3>1. k \in 1 .. n /\ k \in 1 .. n + 1
        BY <1>1, <2>1
      <3> QED
        BY <1>1, <3>1
    <2>3. \A k \in l + 1 .. r - 1 : u[k] \in S /\ s[k] \in S
      <3>1. \A k \in 1 .. n : s[k] \in S
        BY <1>1
      <3> QED
        BY <2>2, <3>1
    <2> DEFINE a == SubSeq(u, l + 1, r - 1)
               b == SubSeq(s, l + 1, r - 1)
               d == (r - 1) - (l + 1) + 1
    <2>4. /\ a \in Seq(S) /\ b \in Seq(S)
          /\ Len(a) = Len(b) /\ Len(a) = IF l + 1 <= r - 1 THEN d ELSE 0
          /\ \A i \in 1 .. d : a[i] = u[(l + 1) + i - 1] /\ b[i] = s[(l + 1) + i - 1]
      <3>1. l + 1 \in Int /\ r - 1 \in Int
        BY <2>1
      <3> QED
        BY <2>3, <3>1, SubSeqProperties
    <2>5. \A i \in 1 .. Len(a) : a[i] = b[i]
      <3>1. SUFFICES ASSUME NEW i \in 1 .. Len(a) PROVE a[i] = b[i]
        OBVIOUS
      <3>2. i \in 1 .. d /\ (l + 1) + i - 1 \in l + 1 .. r - 1
        BY <2>1, <2>4
      <3> QED
        BY <2>2, <2>4, <3>2
    <2> QED
      BY <2>4, <2>5, SeqEqual
  <1>9. SubSeq(u, (n + 1) + 1, (n + m + 2) - 1) = t
    <2>1. (n + 1) + 1 = n + 2 /\ (n + m + 2) - 1 = n + m + 1
      BY <1>1
    <2>2. /\ SubSeq(u, n + 2, n + m + 1) \in Seq(S)
          /\ Len(SubSeq(u, n + 2, n + m + 1)) = m
          /\ \A i \in 1 .. m : SubSeq(u, n + 2, n + m + 1)[i] = t[i]
      BY <1>1
    <2> QED
      BY <2>1, <2>2, SeqEqual
  <1>10. Keys!Pairs(s) \cup {t} \subseteq Keys!Pairs(u)
    <2>1. t \in Keys!Pairs(u)
      <3>1. /\ n + 1 \in Keys!Cuts(u) /\ n + m + 2 \in Keys!Cuts(u) /\ n + 1 < n + m + 2
            /\ \A d \in Keys!Cuts(u) : ~(n + 1 < d /\ d < n + m + 2)
        BY <1>1, <1>6, <1>7
      <3> QED
        BY <1>9, <3>1, ConsecutiveIsCut
    <2>2. ASSUME NEW p \in Keys!Pairs(s) PROVE p \in Keys!Pairs(u)
      <3>1. PICK l, r \in Keys!Cuts(s) :
               /\ l < r /\ (\A d \in Keys!Cuts(s) : ~(l < d /\ d < r))
               /\ p = SubSeq(s, l + 1, r - 1)
        BY CutIsConsecutive
      <3>2. \A d \in Keys!Cuts(u) : ~(l < d /\ d < r)
        BY <1>1, <1>6, <1>7, <3>1
      <3> QED
        BY <1>6, <1>8, <3>1, <3>2, ConsecutiveIsCut
    <2> QED
      BY <2>1, <2>2
  <1>11. ASSUME NEW p \in Keys!Pairs(u) PROVE p \in Keys!Pairs(s) \cup {t}
    <2>1. PICK l, r \in Keys!Cuts(u) :
             /\ l < r /\ (\A d \in Keys!Cuts(u) : ~(l < d /\ d < r))
             /\ p = SubSeq(u, l + 1, r - 1)
      BY CutIsConsecutive
    <2>2. CASE r = n + m + 2
      <3>1. l = n + 1
        <4>1. l \in Keys!Cuts(s) /\ l \in 0 .. n + 1
          BY <1>1, <1>6, <1>7, <2>1, <2>2
        <4>2. ~(l < n + 1 /\ n + 1 < r)
          BY <1>6, <1>7, <2>1
        <4> QED
          BY <1>1, <2>2, <4>1, <4>2
      <3> QED
        BY <1>9, <2>1, <2>2, <3>1
    <2>3. CASE r # n + m + 2
      <3>1. r \in Keys!Cuts(s) /\ l \in Keys!Cuts(s)
        BY <1>1, <1>6, <1>7, <2>1, <2>3
      <3> QED
        BY <1>6, <1>8, <2>1, <3>1, ConsecutiveIsCut
    <2> QED
      BY <2>2, <2>3
  <1> QED
    BY <1>3, <1>10, <1>11 DEF u, v

\* What Doubled does of one character more.
OneDoubled(c) == IF c = Keys!Quote THEN <<Keys!Quote, Keys!Quote>> ELSE <<c>>

\* Doubling goes on character by character.
LEMMA DoubledAppend ==
  ASSUME NEW S, NEW s \in Seq(S), NEW c \in S
  PROVE  Keys!Doubled(Append(s, c)) = Keys!Doubled(s) \o OneDoubled(c)
  <1> DEFINE each(x) == [k \in DOMAIN x |-> OneDoubled(x[k])]
             more == Append(s, c)
  <1>1. /\ Len(s) \in Nat /\ DOMAIN s = 1 .. Len(s) /\ DOMAIN more = 1 .. Len(s) + 1
        /\ \A k \in 1 .. Len(s) : more[k] = s[k] /\ s[k] \in S
        /\ more[Len(s) + 1] = c
    BY AppendProperties
  <1>2. \A x \in S : OneDoubled(x) \in Seq(S)
    BY DEF OneDoubled
  <1> HIDE DEF more
  <1>3. each(s) \in Seq(Seq(S)) /\ Len(each(s)) = Len(s)
    BY <1>1, <1>2
  <1>4. each(more) = Append(each(s), OneDoubled(c))
    <2>1. /\ DOMAIN each(more) = 1 .. Len(s) + 1
          /\ DOMAIN Append(each(s), OneDoubled(c)) = 1 .. Len(s) + 1
          /\ \A k \in 1 .. Len(s) : Append(each(s), OneDoubled(c))[k] = OneDoubled(s[k])
          /\ Append(each(s), OneDoubled(c))[Len(s) + 1] = OneDoubled(c)
      BY <1>1, <1>2, <1>3, AppendProperties
    <2>2. ASSUME NEW k \in 1 .. Len(s) + 1
          PROVE  OneDoubled(more[k]) = Append(each(s), OneDoubled(c))[k] /\ OneDoubled(more[k]) \in Seq(S)
      <3>1. k \in 1 .. Len(s) \/ k = Len(s) + 1
        BY <1>1
      <3> HIDE DEF each
      <3> QED
        BY <1>1, <1>2, <2>1, <3>1
    <2>3. each(more) \in Seq(Seq(S)) /\ Len(each(more)) = Len(s) + 1
      BY <1>1, <2>2
    <2>4. \A k \in 1 .. Len(s) + 1 : each(more)[k] = Append(each(s), OneDoubled(c))[k]
      BY <1>1, <2>2
    <2>5. /\ Append(each(s), OneDoubled(c)) \in Seq(Seq(S))
          /\ Len(Append(each(s), OneDoubled(c))) = Len(s) + 1
      BY <1>2, <1>3, AppendProperties
    <2> HIDE DEF each
    <2> QED
      BY <2>3, <2>4, <2>5, SeqEqual
  <1>5. Keys!Doubled(s) = Keys!FlattenSeq(each(s)) /\ Keys!Doubled(more) = Keys!FlattenSeq(each(more))
    BY DEF Keys!Doubled, OneDoubled
  <1>6. OneDoubled(c) \in Seq(S)
    BY <1>2
  <1> HIDE DEF each
  <1> QED
    BY <1>3, <1>4, <1>5, <1>6, FlattenAppend DEF more

\* What is to be shown of a doubled text: it leaves no quotes open, other
\* characters stand where none are open, and it says what it was made of.
SaysIt(S, s) ==
    LET b == Keys!Doubled(s)
    IN  /\ b \in Seq(S) /\ Even(b)
        /\ \A k \in 1 .. Len(b) : b[k] # Keys!Quote => ~Keys!Inside(b, k)
        /\ Keys!Says(b, s)

\* The characters of one more are read back after what was read before.
LEMMA SaysMore ==
  ASSUME NEW S, Keys!Quote \in S, NEW s \in Seq(S), NEW c \in S, SaysIt(S, s)
  PROVE  SaysIt(S, Append(s, c))
  <1> DEFINE b == Keys!Doubled(s)
             d == OneDoubled(c)
             e == b \o d
             t == Append(s, c)
             n == Len(b)
             p == n + Len(d)
             first(x) == {k \in DOMAIN x : x[k] = Keys!Quote /\ ~Keys!Inside(x, k)}
  <1>1. Keys!Doubled(t) = e
    BY DoubledAppend
  <1>2. /\ b \in Seq(S) /\ Even(b)
        /\ \A k \in 1 .. n : b[k] # Keys!Quote => ~Keys!Inside(b, k)
        /\ Keys!Says(b, s)
    BY DEF SaysIt
  <1>3. d \in Seq(S) /\ Len(d) = (IF c = Keys!Quote THEN 2 ELSE 1) /\ d[Len(d)] = c /\ d[1] = c
    BY DEF OneDoubled
  <1>4. /\ ~Keys!Inside(d, 1)
        /\ c = Keys!Quote => Keys!Inside(d, 2)
        /\ Even(d)
    <2>1. ~Keys!Inside(d, 1) /\ (Keys!Inside(d, 2) <=> c = Keys!Quote)
      <3>1. 1 + 1 = 2
        OBVIOUS
      <3> QED
        BY <1>3, <3>1, InsideStep
    <2>2. CASE c = Keys!Quote
      <3>1. d[2] = Keys!Quote /\ Len(d) + 1 = 2 + 1
        BY <1>3, <2>2
      <3> QED
        BY <2>1, <2>2, <3>1, InsideStep DEF Even
    <2>3. CASE c # Keys!Quote
      <3>1. Len(d) + 1 = 2
        BY <1>3, <2>3
      <3> QED
        BY <2>1, <2>3, <3>1 DEF Even
    <2> QED
      BY <2>2, <2>3
  <1>5. /\ n \in Nat /\ p \in Nat /\ p = n + Len(d) /\ p > n /\ p \in n + 1 .. n + 2
        /\ e \in Seq(S) /\ Len(e) = p /\ DOMAIN e = 1 .. p /\ DOMAIN b = 1 .. n
        /\ \A k \in 1 .. n : e[k] = b[k]
        /\ \A k \in 1 .. Len(d) : e[n + k] = d[k]
    <2>1. n \in Nat /\ Len(d) \in 1 .. 2
      BY <1>2, <1>3
    <2>2. /\ e \in Seq(S) /\ Len(e) = Len(b) + Len(d)
          /\ \A k \in 1 .. Len(b) + Len(d) : e[k] = IF k <= Len(b) THEN b[k] ELSE d[k - Len(b)]
      BY <1>2, <1>3, ConcatProperties
    <2>3. p \in Nat /\ p = n + Len(d) /\ p > n /\ p \in n + 1 .. n + 2 /\ Len(e) = p
      <3>1. Len(e) = p /\ p = n + Len(d)
        BY <2>2
      <3>2. n \in Nat /\ (Len(d) = 1 \/ Len(d) = 2)
        BY <2>1
      <3> HIDE DEF p, n, d, e
      <3>3. p = n + 1 \/ p = n + 2
        BY <3>1, <3>2
      <3> QED
        BY <3>1, <3>2, <3>3
    <2>4. DOMAIN e = 1 .. p /\ DOMAIN b = 1 .. n
      BY <1>2, <2>2, <2>3
    <2>5. \A k \in 1 .. n : e[k] = b[k]
      BY <2>1, <2>2
    <2>6. \A k \in 1 .. Len(d) : e[n + k] = d[k]
      BY <2>1, <2>2
    <2> QED
      BY <2>1, <2>2, <2>3, <2>4, <2>5, <2>6
  <1>6. /\ \A k \in 1 .. n + 1 : Keys!Inside(e, k) <=> Keys!Inside(b, k)
        /\ \A k \in 1 .. Len(d) + 1 : Keys!Inside(e, n + k) <=> Keys!Inside(d, k)
    BY <1>2, <1>3, InsideOfConcat DEF Even
  <1> HIDE DEF b, d, e, t, n, p
  <1>7. Even(e)
    BY <1>2, <1>3, <1>4, WholeOfConcat DEF e
  <1>8. e[n + 1] = c /\ ~Keys!Inside(e, n + 1)
    BY <1>3, <1>4, <1>5, <1>6
  <1>9. e[p] = c
    BY <1>3, <1>5
  <1>10. c = Keys!Quote => p = n + 2 /\ Keys!Inside(e, p)
    BY <1>3, <1>4, <1>5, <1>6
  <1>11. c # Keys!Quote => p = n + 1
    BY <1>3, <1>5
  <1>12. \A k \in 1 .. p : e[k] # Keys!Quote => ~Keys!Inside(e, k)
    <2> SUFFICES ASSUME NEW k \in 1 .. p, e[k] # Keys!Quote PROVE ~Keys!Inside(e, k)
      OBVIOUS
    <2>1. CASE k \in 1 .. n
      <3>1. b[k] # Keys!Quote /\ k \in 1 .. n + 1
        BY <1>5, <2>1
      <3> QED
        BY <1>2, <1>6, <2>1, <3>1
    <2>2. CASE k \notin 1 .. n
      <3>1. k = n + 1 \/ k = n + 2
        BY <1>5, <2>2
      <3> QED
        BY <1>5, <1>8, <1>9, <1>10, <1>11, <3>1
    <2> QED
      BY <2>1, <2>2
  \* What a reader leaves out, and what it keeps.
  <1>13. first(e) = IF c = Keys!Quote THEN first(b) \cup {n + 1} ELSE first(b)
    <2>1. \A k \in 1 .. n : k \in first(e) <=> k \in first(b)
      BY <1>5, <1>6
    <2>2. n + 1 \in first(e) <=> c = Keys!Quote
      BY <1>5, <1>8
    <2>3. c = Keys!Quote => p \notin first(e)
      BY <1>10
    <2>4. first(e) \subseteq 1 .. p /\ first(b) \subseteq 1 .. n
      BY <1>5
    <2>5. \A k \in 1 .. p : k \in 1 .. n \/ k = n + 1 \/ k = p
      BY <1>5
    <2> HIDE DEF first
    <2>6. n + 1 \notin first(b)
      BY <1>5, <2>4
    <2>7. CASE c = Keys!Quote
      <3>1. \A k \in 1 .. p : k \in first(e) <=> k \in first(b) \cup {n + 1}
        <4>1. p \notin first(b) /\ p # n + 1 /\ p \notin first(e)
          BY <1>5, <1>10, <2>3, <2>4, <2>7
        <4>2. \A k \in 1 .. n : k # n + 1
          BY <1>5
        <4> QED
          BY <2>1, <2>2, <2>5, <2>6, <2>7, <4>1, <4>2
      <3>2. first(b) \cup {n + 1} \subseteq 1 .. p
        BY <1>5, <2>4
      <3>3. first(e) = first(b) \cup {n + 1}
        BY <2>4, <3>1, <3>2
      <3> QED
        BY <2>7, <3>3
    <2>8. CASE c # Keys!Quote
      <3>1. \A k \in 1 .. p : k \in first(e) <=> k \in first(b)
        BY <1>11, <2>1, <2>2, <2>5, <2>6, <2>8
      <3>2. first(b) \subseteq 1 .. p
        BY <1>5, <2>4
      <3>3. first(e) = first(b)
        BY <2>4, <3>1, <3>2
      <3> QED
        BY <2>8, <3>3
    <2> QED
      BY <2>7, <2>8
  <1>14. \A k \in first(e) : k < p /\ e[k + 1] = Keys!Quote
    <2>1. \A k \in first(b) : k \in 1 .. n /\ k < n /\ b[k + 1] = Keys!Quote
      BY <1>2, <1>5 DEF Keys!Says
    <2>2. \A k \in first(b) : k < p /\ e[k + 1] = Keys!Quote
      <3> SUFFICES ASSUME NEW k \in first(b) PROVE k < p /\ e[k + 1] = Keys!Quote
        OBVIOUS
      <3>1. k \in 1 .. n /\ k + 1 \in 1 .. n
        BY <1>5, <2>1
      <3> QED
        BY <1>5, <2>1, <3>1
    <2>3. c = Keys!Quote => n + 1 < p /\ e[(n + 1) + 1] = Keys!Quote
      BY <1>5, <1>9, <1>10
    <2> HIDE DEF first
    <2> QED
      BY <1>13, <2>2, <2>3
  <1>15. DOMAIN e \ first(e) = (DOMAIN b \ first(b)) \cup {p} /\ p \notin first(e)
    <2>1. first(b) \subseteq 1 .. n
      BY <1>5
    <2>2. 1 .. p = IF c = Keys!Quote THEN (1 .. n) \cup {n + 1, p} ELSE (1 .. n) \cup {p}
      <3>1. CASE c = Keys!Quote
        <4>1. 1 .. p = (1 .. n) \cup {n + 1, p}
          BY <1>5, <1>10, <3>1
        <4> QED
          BY <3>1, <4>1
      <3>2. CASE c # Keys!Quote
        <4>1. 1 .. p = (1 .. n) \cup {p}
          BY <1>5, <1>11, <3>2
        <4> QED
          BY <3>2, <4>1
      <3> QED
        BY <3>1, <3>2
    <2>3. p \notin 1 .. n /\ n + 1 \notin 1 .. n /\ (c = Keys!Quote => n + 1 # p)
      BY <1>5, <1>10
    <2> HIDE DEF first
    <2> QED
      BY <1>5, <1>13, <2>1, <2>2, <2>3
  <1>16. PICK at \in [DOMAIN s -> DOMAIN b \ first(b)] :
            /\ \A k, l \in DOMAIN s : k < l => at[k] < at[l]
            /\ \A i \in DOMAIN b \ first(b) : \E k \in DOMAIN s : at[k] = i
            /\ \A k \in DOMAIN s : s[k] = b[at[k]]
    BY <1>2 DEF Keys!Says
  <1>17. /\ Len(s) \in Nat /\ DOMAIN s = 1 .. Len(s) /\ DOMAIN t = 1 .. Len(s) + 1
         /\ \A k \in 1 .. Len(s) : t[k] = s[k]
         /\ t[Len(s) + 1] = c
    BY AppendProperties DEF t
  <1> DEFINE more == [k \in 1 .. Len(s) + 1 |-> IF k = Len(s) + 1 THEN p ELSE at[k]]
  <1>18. /\ \A k \in 1 .. Len(s) : more[k] = at[k] /\ at[k] \in 1 .. n /\ at[k] \in DOMAIN b \ first(b)
         /\ more[Len(s) + 1] = p
         /\ DOMAIN more = 1 .. Len(s) + 1 /\ Len(s) + 1 \in 1 .. Len(s) + 1
         /\ \A k \in 1 .. Len(s) : k \in 1 .. Len(s) + 1
         /\ \A k \in 1 .. Len(s) + 1 : k \in 1 .. Len(s) \/ k = Len(s) + 1
    <2>1. /\ DOMAIN more = 1 .. Len(s) + 1 /\ Len(s) + 1 \in 1 .. Len(s) + 1
          /\ \A k \in 1 .. Len(s) : k \in 1 .. Len(s) + 1 /\ k # Len(s) + 1
          /\ \A k \in 1 .. Len(s) + 1 : k \in 1 .. Len(s) \/ k = Len(s) + 1
      BY <1>17
    <2>2. more[Len(s) + 1] = p /\ \A k \in 1 .. Len(s) : more[k] = at[k]
      BY <2>1
    <2>3. \A k \in 1 .. Len(s) : at[k] \in DOMAIN b \ first(b)
      BY <1>16, <1>17
    <2>4. \A k \in 1 .. Len(s) : at[k] \in 1 .. n
      BY <1>5, <2>3
    <2> HIDE DEF more, first
    <2> QED
      BY <2>1, <2>2, <2>3, <2>4
  <1>19. more \in [DOMAIN t -> DOMAIN e \ first(e)]
    <2> DEFINE kept == DOMAIN e \ first(e)
    <2>1. \A k \in 1 .. Len(s) + 1 : more[k] \in kept
      BY <1>15, <1>18
    <2>2. more = [k \in 1 .. Len(s) + 1 |-> more[k]]
      OBVIOUS
    <2> HIDE DEF kept, more
    <2>3. more \in [1 .. Len(s) + 1 -> kept]
      BY <2>1, <2>2
    <2> QED
      BY <1>17, <2>3 DEF kept
  <1> HIDE DEF more, first
  <1>20. \A k, l \in DOMAIN t : k < l => more[k] < more[l]
    <2> SUFFICES ASSUME NEW k \in 1 .. Len(s) + 1, NEW l \in 1 .. Len(s) + 1, k < l
                 PROVE  more[k] < more[l]
      BY <1>17
    <2>1. k \in 1 .. Len(s)
      BY <1>17
    <2>2. CASE l \in 1 .. Len(s)
      BY <1>16, <1>17, <1>18, <2>1, <2>2
    <2>3. CASE l = Len(s) + 1
      BY <1>5, <1>18, <2>1, <2>3
    <2> QED
      BY <1>18, <2>2, <2>3
  <1>21. \A i \in DOMAIN e \ first(e) : \E k \in DOMAIN t : more[k] = i
    BY <1>15, <1>16, <1>17, <1>18
  <1>22. \A k \in DOMAIN t : t[k] = e[more[k]]
    <2>1. ASSUME NEW k \in 1 .. Len(s) PROVE t[k] = e[more[k]]
      BY <1>5, <1>16, <1>17, <1>18, <2>1
    <2>2. t[Len(s) + 1] = e[more[Len(s) + 1]]
      BY <1>9, <1>17, <1>18
    <2> QED
      BY <1>17, <1>18, <2>1, <2>2
  <1>23. Keys!Says(e, t)
    <2>1. \A k \in first(e) : k < Len(e) /\ e[k + 1] = Keys!Quote
      BY <1>5, <1>14
    <2> QED
      BY <1>19, <1>20, <1>21, <1>22, <2>1 DEF first, Keys!Says
  <1> QED
    BY <1>1, <1>5, <1>7, <1>12, <1>23 DEF SaysIt, t

\* Nothing says nothing.
LEMMA SaysNothing ==
  ASSUME NEW S
  PROVE  SaysIt(S, <<>>)
  <1>1. Keys!Doubled(<<>>) = <<>>
    <2>1. [k \in DOMAIN <<>> |-> OneDoubled((<<>>)[k])] = <<>>
      OBVIOUS
    <2> QED
      BY <2>1, FlattenEmpty DEF Keys!Doubled, OneDoubled
  <1>2. Even(<<>>)
    <2>1. Len(<<>>) + 1 = 1
      OBVIOUS
    <2> QED
      BY <2>1, InsideStep DEF Even
  <1>3. Keys!Says(<<>>, <<>>)
    <2>1. <<>> \in [{} -> {}] /\ DOMAIN <<>> = {}
      OBVIOUS
    <2> QED
      BY <2>1 DEF Keys!Says
  <1> QED
    <2>1. <<>> \in Seq(S) /\ 1 .. Len(<<>>) = {}
      OBVIOUS
    <2> QED
      BY <1>1, <1>2, <1>3, <2>1 DEF SaysIt

\* Of every text, by the length of the shortest of which it is not so.
LEMMA SaysEach ==
  ASSUME NEW S, Keys!Quote \in S, NEW s \in Seq(S)
  PROVE  SaysIt(S, s)
  <1> DEFINE I == {n \in Nat : \E x \in Seq(S) : Len(x) = n /\ ~SaysIt(S, x)}
  <1> SUFFICES ASSUME I # {} PROVE FALSE
    <2>1. Len(s) \in Nat
      OBVIOUS
    <2> QED
      BY <2>1
  <1>1. PICK n \in I : \A m \in I : n <= m
    BY Least
  <1>2. PICK x \in Seq(S) : Len(x) = n /\ ~SaysIt(S, x)
    BY <1>1
  <1>3. x # <<>>
    BY <1>2, SaysNothing
  <1>4. PICK y \in Seq(S), c \in S : x = Append(y, c)
    BY <1>3, SequenceEmptyOrAppend
  <1>5. Len(y) \in Nat /\ Len(y) < n
    BY <1>2, <1>4
  <1>6. SaysIt(S, y)
    BY <1>1, <1>5
  <1> QED
    BY <1>2, <1>4, <1>6, SaysMore

Char == {Keys!Letter, Keys!Digit, Keys!Word, Keys!Quote, Keys!Comma, Keys!Reserved}
Plain == {Keys!Letter, Keys!Digit, Keys!Word}
Symbol == Char \cup Keys!Escape \cup {Keys!Equals, "M", "d"} \cup Keys!ToSet(Names)

\* Reading what was percent-encoded, one character and a text.
DecodedOne(c) ==
    IF c \in Keys!Escape THEN CHOOSE d \in DOMAIN Keys!Escaped : Keys!Escaped[d] = c ELSE c

\* What is encoded is read back, and nothing else is changed.
LEMMA DecodedChars ==
  /\ \A c \in Symbol : DecodedOne(c) \in Symbol
  /\ \A c \in Char \cup {Keys!Equals, "M", "d"} : c \notin Keys!Escape /\ DecodedOne(c) = c
  /\ \A c \in DOMAIN Keys!Escaped : Keys!Escaped[c] \in Symbol /\ DecodedOne(Keys!Escaped[c]) = c
  /\ DOMAIN Keys!Escaped = {Keys!Reserved, Keys!Comma}
  /\ Keys!Reserved \notin Keys!Escape
  <1>1. /\ DOMAIN Keys!Escaped = {Keys!Reserved, Keys!Comma}
        /\ Keys!Escaped[Keys!Reserved] = "escaped_reserved" /\ Keys!Escaped[Keys!Comma] = "escaped_comma"
    BY DEF Keys!Escaped, Keys!Reserved, Keys!Comma
  <1>2. Keys!Escape = {"escaped_reserved", "escaped_comma"}
    BY <1>1 DEF Keys!Escape
  <1>3. DecodedOne("escaped_reserved") = Keys!Reserved /\ DecodedOne("escaped_comma") = Keys!Comma
    BY <1>1, <1>2 DEF DecodedOne
  <1>4. \A c : c \notin Keys!Escape => DecodedOne(c) = c
    BY DEF DecodedOne
  <1>5. \A c \in Char \cup {Keys!Equals, "M", "d"} : c \notin Keys!Escape
    BY <1>2 DEF Char, Keys!Letter, Keys!Digit, Keys!Word, Keys!Quote, Keys!Reserved, Keys!Comma,
           Keys!Equals
  <1>6. \A c \in Symbol : DecodedOne(c) \in Symbol
    <2>1. Keys!Reserved \in Symbol /\ Keys!Comma \in Symbol
      BY DEF Symbol, Char
    <2> QED
      BY <1>2, <1>3, <1>4, <2>1
  <1>7. \A c \in DOMAIN Keys!Escaped : Keys!Escaped[c] \in Symbol /\ DecodedOne(Keys!Escaped[c]) = c
    <2>1. Keys!Escape \subseteq Symbol
      BY DEF Symbol
    <2> QED
      BY <1>1, <1>2, <1>3, <2>1
  <1>8. Keys!Reserved \notin Keys!Escape
    BY <1>5 DEF Char
  <1> QED
    BY <1>1, <1>4, <1>5, <1>6, <1>7, <1>8

\* A text is read character by character.
LEMMA DecodedOfConcat ==
  ASSUME NEW s \in Seq(Symbol), NEW t \in Seq(Symbol)
  PROVE  /\ Keys!Decoded(s) \in Seq(Symbol) /\ Len(Keys!Decoded(s)) = Len(s)
         /\ Keys!Decoded(s \o t) = Keys!Decoded(s) \o Keys!Decoded(t)
  <1>1. \A x : Keys!Decoded(x) = [k \in DOMAIN x |-> DecodedOne(x[k])]
    BY DEF Keys!Decoded, DecodedOne
  <1>2. ASSUME NEW x \in Seq(Symbol)
        PROVE  /\ Keys!Decoded(x) \in Seq(Symbol) /\ Len(Keys!Decoded(x)) = Len(x)
               /\ \A k \in 1 .. Len(x) : Keys!Decoded(x)[k] = DecodedOne(x[k])
    <2>1. Len(x) \in Nat /\ DOMAIN x = 1 .. Len(x) /\ \A k \in 1 .. Len(x) : x[k] \in Symbol
      OBVIOUS
    <2>2. \A k \in 1 .. Len(x) : DecodedOne(x[k]) \in Symbol
      BY <2>1, DecodedChars
    <2>3. Keys!Decoded(x) = [k \in 1 .. Len(x) |-> DecodedOne(x[k])]
      <3>1. Keys!Decoded(x) = [k \in DOMAIN x |-> DecodedOne(x[k])]
        BY <1>1
      <3> QED
        BY <2>1, <3>1
    <2> QED
      BY <2>1, <2>2, <2>3
  <1> DEFINE u == s \o t
             a == Keys!Decoded(s)
             b == Keys!Decoded(t)
  <1>3. /\ u \in Seq(Symbol) /\ Len(u) = Len(s) + Len(t) /\ Len(s) \in Nat /\ Len(t) \in Nat
        /\ \A i \in 1 .. Len(s) + Len(t) : u[i] = IF i <= Len(s) THEN s[i] ELSE t[i - Len(s)]
    BY ConcatProperties
  <1>4. /\ a \in Seq(Symbol) /\ b \in Seq(Symbol) /\ Len(a) = Len(s) /\ Len(b) = Len(t)
        /\ Keys!Decoded(u) \in Seq(Symbol) /\ Len(Keys!Decoded(u)) = Len(u)
    BY <1>2, <1>3
  <1>5. /\ a \o b \in Seq(Symbol) /\ Len(a \o b) = Len(a) + Len(b)
        /\ \A i \in 1 .. Len(a) + Len(b) : (a \o b)[i] = IF i <= Len(a) THEN a[i] ELSE b[i - Len(a)]
    BY <1>4, ConcatProperties
  <1>6. \A i \in 1 .. Len(u) : Keys!Decoded(u)[i] = (a \o b)[i]
    <2> SUFFICES ASSUME NEW i \in 1 .. Len(u) PROVE Keys!Decoded(u)[i] = (a \o b)[i]
      OBVIOUS
    <2>0. i \in 1 .. Len(s) + Len(t) /\ Keys!Decoded(u)[i] = DecodedOne(u[i])
      BY <1>2, <1>3
    <2> HIDE DEF u, a, b
    <2>1. CASE i <= Len(s)
      <3>1. i \in 1 .. Len(s) /\ (a \o b)[i] = a[i] /\ u[i] = s[i]
        BY <1>3, <1>4, <1>5, <2>0, <2>1
      <3> QED
        BY <1>2, <2>0, <3>1 DEF a
    <2>2. CASE ~(i <= Len(s))
      <3>1. i - Len(s) \in 1 .. Len(t) /\ (a \o b)[i] = b[i - Len(s)] /\ u[i] = t[i - Len(s)]
        BY <1>3, <1>4, <1>5, <2>0, <2>2
      <3> QED
        BY <1>2, <2>0, <3>1 DEF b
    <2> QED
      BY <2>1, <2>2
  <1> HIDE DEF u, a, b
  <1>7. Keys!Decoded(u) = a \o b
    BY <1>3, <1>4, <1>5, <1>6, SeqEqual
  <1> QED
    BY <1>4, <1>7 DEF u, a, b

\* What has nothing encoded is read as it is.
LEMMA DecodedPlain ==
  ASSUME NEW s \in Seq(Symbol), \A k \in 1 .. Len(s) : DecodedOne(s[k]) = s[k]
  PROVE  Keys!Decoded(s) = s
  <1>1. DOMAIN s = 1 .. Len(s) /\ s = [k \in 1 .. Len(s) |-> s[k]]
    OBVIOUS
  <1> QED
    BY <1>1 DEF Keys!Decoded, DecodedOne

\* The encoding of a text is read as the text, and has nothing reserved.
LEMMA DecodedEncoded ==
  ASSUME NEW s \in Seq(Char)
  PROVE  LET e == Keys!odata_path_encode(s)
         IN  /\ e \in Seq(Symbol) /\ Keys!Decoded(e) = s
             /\ \A k \in 1 .. Len(e) : e[k] # Keys!Reserved
  <1> DEFINE e == Keys!odata_path_encode(s)
             one(c) == IF c \in DOMAIN Keys!Escaped THEN Keys!Escaped[c] ELSE c
  <1>1. Len(s) \in Nat /\ DOMAIN s = 1 .. Len(s) /\ \A k \in 1 .. Len(s) : s[k] \in Char
    OBVIOUS
  <1>2. Char \subseteq Symbol
    BY DEF Symbol
  <1>3. ASSUME NEW c \in Char
        PROVE  one(c) \in Symbol /\ DecodedOne(one(c)) = c /\ one(c) # Keys!Reserved
    <2>1. CASE c \in DOMAIN Keys!Escaped
      <3>1. one(c) \in Keys!Escape
        BY <2>1 DEF Keys!Escape
      <3> QED
        BY <2>1, <3>1, DecodedChars
    <2>2. CASE c \notin DOMAIN Keys!Escaped
      BY <1>2, <2>2, DecodedChars
    <2> QED
      BY <2>1, <2>2
  <1>4. e = [k \in 1 .. Len(s) |-> one(s[k])]
    BY <1>1 DEF Keys!odata_path_encode
  <1> HIDE DEF one
  <1>5. e \in Seq(Symbol) /\ Len(e) = Len(s) /\ \A k \in 1 .. Len(s) : e[k] = one(s[k])
    <2>1. \A k \in 1 .. Len(s) : one(s[k]) \in Symbol
      BY <1>1, <1>3
    <2> QED
      BY <1>1, <1>4, <2>1
  <1> HIDE DEF e
  <1>6. Keys!Decoded(e) = s
    <2>1. DOMAIN e = 1 .. Len(s)
      BY <1>5
    <2>2. Keys!Decoded(e) = [k \in 1 .. Len(s) |-> DecodedOne(e[k])]
      BY <2>1 DEF Keys!Decoded, DecodedOne
    <2>3. \A k \in 1 .. Len(s) : DecodedOne(e[k]) = s[k]
      BY <1>1, <1>3, <1>5
    <2>4. s = [k \in 1 .. Len(s) |-> s[k]]
      BY <1>1
    <2> QED
      BY <2>2, <2>3, <2>4
  <1>7. \A k \in 1 .. Len(e) : e[k] # Keys!Reserved
    BY <1>1, <1>3, <1>5
  <1> QED
    BY <1>5, <1>6, <1>7 DEF e

\* A literal is read as one whole text that denotes its value.
ReadsAs(l, text) ==
    /\ l \in Seq(Symbol) /\ \A k \in 1 .. Len(l) : l[k] # Keys!Reserved
    /\ Whole(Keys!Decoded(l)) /\ Keys!Denotes(Keys!Decoded(l), text)

\* The characters between two quotes.
LEMMA QuotedIsWhole ==
  ASSUME NEW b \in Seq(Char), Even(b),
         \A k \in 1 .. Len(b) : b[k] # Keys!Quote => ~Keys!Inside(b, k)
  PROVE  LET lit == <<Keys!Quote>> \o b \o <<Keys!Quote>>
         IN  /\ Whole(lit) /\ lit[1] = Keys!Quote /\ Len(lit) > 1 /\ lit[Len(lit)] = Keys!Quote
             /\ lit # <<>> /\ SubSeq(lit, 2, Len(lit) - 1) = b
  <1> DEFINE q == <<Keys!Quote>>
             w == q \o b
             lit == w \o q
             n == Len(b)
  <1>1. q \in Seq(Char) /\ Len(q) = 1 /\ q[1] = Keys!Quote /\ n \in Nat
    BY DEF Char
  <1>2. /\ w \in Seq(Char) /\ Len(w) = n + 1 /\ w[1] = Keys!Quote
        /\ \A k \in 1 .. n : w[1 + k] = b[k]
    BY <1>1
  <1> HIDE DEF q, w
  <1>3. /\ lit \in Seq(Char) /\ Len(lit) = n + 2 /\ lit[n + 2] = Keys!Quote
        /\ \A k \in 1 .. n + 1 : lit[k] = w[k]
    <2>1. /\ lit \in Seq(Char) /\ Len(lit) = (n + 1) + 1
          /\ \A k \in 1 .. (n + 1) + 1 : lit[k] = IF k <= n + 1 THEN w[k] ELSE q[k - (n + 1)]
      <3>1. Len(w) = n + 1 /\ Len(q) = 1 /\ w \in Seq(Char) /\ q \in Seq(Char)
        BY <1>1, <1>2
      <3>2. /\ lit \in Seq(Char) /\ Len(lit) = Len(w) + Len(q)
            /\ \A k \in 1 .. Len(w) + Len(q) : lit[k] = IF k <= Len(w) THEN w[k] ELSE q[k - Len(w)]
        BY <3>1, ConcatProperties, Zenon
      <3> HIDE DEF lit, n
      <3> QED
        BY <3>1, <3>2
    <2>2. (n + 1) + 1 = n + 2 /\ (n + 2) - (n + 1) = 1 /\ ~(n + 2 <= n + 1)
      BY <1>1
    <2>3. \A k \in 1 .. n + 1 : k <= n + 1 /\ k \in 1 .. n + 2
      BY <1>1
    <2>4. n + 2 \in 1 .. n + 2
      BY <1>1
    <2> HIDE DEF lit, n
    <2>5. lit[n + 2] = q[1]
      BY <2>1, <2>2, <2>4
    <2> QED
      BY <1>1, <2>1, <2>2, <2>3, <2>5
  <1>4. ~Keys!Inside(q, 1) /\ Keys!Inside(q, 1 + 1)
    BY <1>1, InsideStep
  <1>5. \A k \in 1 .. n + 1 : Keys!Inside(w, 1 + k) <=> ~Keys!Inside(b, k)
    BY <1>1, <1>4, InsideOfConcat DEF w
  <1>6. /\ \A k \in 1 .. n + 2 : Keys!Inside(lit, k) <=> Keys!Inside(w, k)
        /\ \A k \in 1 .. 2 : Keys!Inside(lit, (n + 1) + k)
                               <=> ~(Keys!Inside(w, (n + 1) + 1) <=> Keys!Inside(q, k))
    <2>1. /\ \A k \in 1 .. Len(w) + 1 : Keys!Inside(lit, k) <=> Keys!Inside(w, k)
          /\ \A k \in 1 .. Len(q) + 1 :
                 Keys!Inside(lit, Len(w) + k) <=> ~(Keys!Inside(w, Len(w) + 1) <=> Keys!Inside(q, k))
      BY <1>1, <1>2, InsideOfConcat
    <2>2. Len(w) = n + 1 /\ Len(w) + 1 = n + 2 /\ Len(q) + 1 = 2
      BY <1>1, <1>2
    <2> HIDE DEF lit, n
    <2> QED
      BY <2>1, <2>2
  <1> HIDE DEF lit
  <1>7. Even(lit)
    <2>1. Keys!Inside(w, (n + 1) + 1)
      <3>1. n + 1 \in 1 .. n + 1 /\ 1 + (n + 1) = (n + 1) + 1
        BY <1>1
      <3> QED
        BY <1>5, <3>1 DEF Even
    <2>2. ~Keys!Inside(lit, (n + 1) + 2)
      BY <1>4, <1>6, <2>1
    <2>3. (n + 1) + 2 = Len(lit) + 1
      BY <1>1, <1>3
    <2> QED
      BY <2>2, <2>3 DEF Even
  <1>8. ASSUME NEW k \in 1 .. Len(lit), lit[k] = Keys!Comma PROVE Keys!Inside(lit, k)
    <2>1. Keys!Comma # Keys!Quote
      BY DEF Keys!Comma, Keys!Quote
    <2>2. k # n + 2 /\ k # 1
      BY <1>1, <1>2, <1>3, <1>8, <2>1
    <2>3. k - 1 \in 1 .. n /\ k = 1 + (k - 1) /\ k \in 1 .. n + 1 /\ k \in 1 .. n + 2
          /\ k - 1 \in 1 .. n + 1
      BY <1>1, <1>3, <2>2
    <2>4. b[k - 1] = Keys!Comma
      BY <1>2, <1>3, <1>8, <2>3
    <2>5. ~Keys!Inside(b, k - 1)
      BY <2>1, <2>3, <2>4
    <2> QED
      BY <1>5, <1>6, <2>3, <2>5
  <1>9. SubSeq(lit, 2, Len(lit) - 1) = b
    <2>1. /\ SubSeq(lit, 2, n + 1) \in Seq(Char) /\ Len(SubSeq(lit, 2, n + 1)) = n
          /\ \A i \in 1 .. n : SubSeq(lit, 2, n + 1)[i] = lit[i + 1]
      BY <1>1, <1>3
    <2>2. \A i \in 1 .. n : lit[i + 1] = b[i]
      <3> SUFFICES ASSUME NEW i \in 1 .. n PROVE lit[i + 1] = b[i]
        OBVIOUS
      <3>1. i + 1 \in 1 .. n + 1 /\ i + 1 = 1 + i
        BY <1>1
      <3> QED
        BY <1>2, <1>3, <3>1
    <2>3. Len(lit) - 1 = n + 1
      BY <1>1, <1>3
    <2> QED
      BY <2>1, <2>2, <2>3, SeqEqual
  <1>10. Len(lit) > 1 /\ lit # <<>> /\ lit[1] = Keys!Quote /\ lit[Len(lit)] = Keys!Quote
    BY <1>1, <1>2, <1>3
  <1>11. Whole(lit)
    BY <1>7, <1>8 DEF Whole
  <1> QED
    BY <1>9, <1>10, <1>11 DEF lit, w, q

\* A text in quotes.
LEMMA QuotedReads ==
  ASSUME NEW text \in Seq(Char)
  PROVE  ReadsAs(Keys!Quoted(text), text)
  <1> DEFINE b == Keys!Doubled(text)
             e == Keys!odata_path_encode(b)
             q == <<Keys!Quote>>
  <1>1. Keys!Quote \in Char
    BY DEF Char
  <1>2. /\ b \in Seq(Char) /\ Even(b) /\ Keys!Says(b, text)
        /\ \A k \in 1 .. Len(b) : b[k] # Keys!Quote => ~Keys!Inside(b, k)
    BY <1>1, SaysEach DEF SaysIt
  <1>3. /\ e \in Seq(Symbol) /\ Keys!Decoded(e) = b
        /\ \A k \in 1 .. Len(e) : e[k] # Keys!Reserved
    BY <1>2, DecodedEncoded
  <1>4. q \in Seq(Symbol) /\ Len(q) = 1 /\ q[1] = Keys!Quote
    BY DEF Symbol, Char
  <1>5. Keys!Decoded(q) = q
    <2>1. \A k \in 1 .. Len(q) : DecodedOne(q[k]) = q[k]
      BY <1>1, <1>4, DecodedChars
    <2> HIDE DEF q
    <2> QED
      BY <1>4, <2>1, DecodedPlain
  <1> HIDE DEF q, e, b
  <1>6. Keys!Decoded(q \o e \o q) = q \o b \o q
    <2>1. q \o e \in Seq(Symbol)
      BY <1>3, <1>4, ConcatProperties
    <2>2. Keys!Decoded(q \o e) = Keys!Decoded(q) \o Keys!Decoded(e)
      BY <1>3, <1>4, DecodedOfConcat
    <2>3. Keys!Decoded((q \o e) \o q) = Keys!Decoded(q \o e) \o Keys!Decoded(q)
      BY <1>4, <2>1, DecodedOfConcat
    <2> QED
      BY <1>3, <1>5, <2>2, <2>3
  <1>7. /\ q \o e \o q \in Seq(Symbol)
        /\ \A k \in 1 .. Len(q \o e \o q) : (q \o e \o q)[k] # Keys!Reserved
    <2>1. Keys!Quote # Keys!Reserved
      BY DEF Keys!Quote, Keys!Reserved
    <2>2. /\ q \o e \in Seq(Symbol) /\ Len(e) \in Nat /\ Len(q \o e) = 1 + Len(e)
          /\ \A k \in 1 .. 1 + Len(e) : (q \o e)[k] # Keys!Reserved
      <3>1. /\ q \o e \in Seq(Symbol) /\ Len(q \o e) = 1 + Len(e) /\ Len(e) \in Nat
            /\ \A i \in 1 .. 1 + Len(e) : (q \o e)[i] = IF i <= 1 THEN q[i] ELSE e[i - 1]
        <4>1. /\ q \o e \in Seq(Symbol) /\ Len(q \o e) = Len(q) + Len(e) /\ Len(e) \in Nat
              /\ \A i \in 1 .. Len(q) + Len(e) :
                     (q \o e)[i] = IF i <= Len(q) THEN q[i] ELSE e[i - Len(q)]
          <5>1. Len(e) \in Nat
            BY <1>3
          <5>2. /\ q \o e \in Seq(Symbol) /\ Len(q \o e) = Len(q) + Len(e)
                /\ \A i \in 1 .. Len(q) + Len(e) :
                       (q \o e)[i] = IF i <= Len(q) THEN q[i] ELSE e[i - Len(q)]
            BY <1>3, <1>4, ConcatProperties, Zenon
          <5> QED
            BY <5>1, <5>2
        <4> QED
          BY <1>4, <4>1
      <3>2. \A i \in 1 .. 1 + Len(e) : i = 1 \/ (~(i <= 1) /\ i - 1 \in 1 .. Len(e))
        BY <3>1
      <3> QED
        BY <1>3, <1>4, <2>1, <3>1, <3>2
    <2> DEFINE w == q \o e
    <2> HIDE DEF w
    <2>3. /\ w \o q \in Seq(Symbol) /\ Len(w \o q) = Len(w) + 1 /\ Len(w) \in Nat
          /\ \A i \in 1 .. Len(w) + 1 : (w \o q)[i] = IF i <= Len(w) THEN w[i] ELSE q[i - Len(w)]
      BY <1>4, <2>2, ConcatProperties DEF w
    <2>4. \A i \in 1 .. Len(w) + 1 : i \in 1 .. Len(w) \/ (~(i <= Len(w)) /\ i - Len(w) = 1)
      BY <2>3
    <2>5. \A i \in 1 .. Len(w) : i <= Len(w) /\ w[i] # Keys!Reserved
      BY <2>2, <2>3 DEF w
    <2>6. \A i \in 1 .. Len(w) + 1 : (w \o q)[i] # Keys!Reserved
      BY <1>4, <2>1, <2>3, <2>4, <2>5
    <2> QED
      BY <2>3, <2>6 DEF w
  <1>8. Keys!Denotes(q \o b \o q, text) /\ Whole(q \o b \o q)
    BY <1>2, QuotedIsWhole DEF q, Keys!Denotes
  <1> QED
    BY <1>6, <1>7, <1>8 DEF ReadsAs, Keys!Quoted, q, e, b

\* Letters, digits and words, with or without a suffix.
LEMMA RawReads ==
  ASSUME NEW text \in Seq(Char), text # <<>>, \A k \in 1 .. Len(text) : text[k] \in Plain,
         NEW l \in {text, text \o <<"M">>, text \o <<"d">>}
  PROVE  ReadsAs(l, text)
  <1>1. Len(text) \in Nat \ {0}
    OBVIOUS
  <1>2. Char \subseteq Symbol /\ {"M", "d"} \subseteq Symbol /\ text \in Seq(Symbol)
    BY DEF Symbol
  <1>3. /\ l \in Seq(Symbol) /\ Len(l) \in Nat \ {0}
        /\ \A k \in 1 .. Len(l) : l[k] \in Plain \cup {"M", "d"}
        /\ l[1] \in Plain
    <2>1. ASSUME NEW c \in {"M", "d"}, l = text \o <<c>>
          PROVE  /\ l \in Seq(Symbol) /\ Len(l) \in Nat \ {0}
                 /\ \A k \in 1 .. Len(l) : l[k] \in Plain \cup {"M", "d"}
                 /\ l[1] \in Plain
      <3>0. l = Append(text, c)
        BY <1>2, <2>1
      <3>1. /\ l \in Seq(Symbol) /\ Len(l) = Len(text) + 1 /\ l[Len(text) + 1] = c
            /\ \A k \in 1 .. Len(text) : l[k] = text[k]
        BY <1>2, <3>0, AppendProperties
      <3>2. \A k \in 1 .. Len(text) + 1 : k \in 1 .. Len(text) \/ k = Len(text) + 1
        BY <1>1
      <3>3. 1 \in 1 .. Len(text) /\ Len(text) + 1 \in Nat \ {0}
        BY <1>1
      <3> QED
        BY <3>1, <3>2, <3>3
    <2>2. CASE l = text
      BY <1>1, <1>2, <2>2
    <2> QED
      BY <2>1, <2>2
  <1>4. \A c \in Plain \cup {"M", "d"} : c \notin {Keys!Quote, Keys!Comma, Keys!Reserved}
    BY DEF Plain, Keys!Letter, Keys!Digit, Keys!Word, Keys!Quote, Keys!Comma, Keys!Reserved
  <1>5. Keys!Decoded(l) = l
    <2>1. \A c \in Plain \cup {"M", "d"} : DecodedOne(c) = c
      BY DecodedChars DEF Char, Plain
    <2>2. \A k \in 1 .. Len(l) : DecodedOne(l[k]) = l[k]
      BY <1>3, <2>1
    <2> QED
      BY <1>3, <2>2, DecodedPlain
  <1>6. Whole(l)
    BY <1>3, <1>4, PlainIsWhole
  <1>7. Keys!Denotes(l, text)
    <2>1. l[1] # Keys!Quote
      BY <1>3, <1>4
    <2> QED
      BY <2>1 DEF Keys!Denotes
  <1>8. \A k \in 1 .. Len(l) : l[k] # Keys!Reserved
    BY <1>3, <1>4
  <1> QED
    BY <1>3, <1>5, <1>6, <1>7, <1>8 DEF ReadsAs

\* A value for its type: no array or object where the type has no quotes.
Fits(type, v) == v.kind = "structured" => ~Keys!Raw(type, v)

\* The texts of the values of each kind.
LEMMA ValueTexts ==
  ASSUME NEW v \in Keys!Value
  PROVE  /\ v.text \in Seq(Char)
         /\ v.kind \in {"scalar", "null"} =>
                v.text \in {<<Keys!Letter>>, <<Keys!Digit>>, <<Keys!Word>>}
         /\ v.kind \in {"string", "scalar", "null", "structured"}
  <1>1. Keys!Text \subseteq Seq(Char)
    BY DEF Keys!Text, Char
  <1>2. /\ <<Keys!Letter>> \in Seq(Char) /\ <<Keys!Digit>> \in Seq(Char) /\ <<Keys!Word>> \in Seq(Char)
        /\ <<Keys!Reserved>> \in Seq(Char)
    BY DEF Char
  <1>3. ASSUME NEW t \in Keys!Text PROVE <<Keys!Reserved>> \o t \o <<Keys!Reserved>> \in Seq(Char)
    <2>1. t \in Seq(Char)
      BY <1>1
    <2>2. <<Keys!Reserved>> \o t \in Seq(Char)
      BY <1>2, <2>1, ConcatProperties, Zenon
    <2> QED
      BY <1>2, <2>2, ConcatProperties, Zenon
  <1>4. \/ v.kind = "string" /\ v.text \in Keys!Text \cup {<<Keys!Word>>}
        \/ v.kind = "scalar" /\ v.text \in {<<Keys!Digit>>, <<Keys!Word>>}
        \/ v.kind = "null" /\ v.text = <<Keys!Letter>>
        \/ v.kind = "structured" /\ \E t \in Keys!Text : v.text = <<Keys!Reserved>> \o t \o <<Keys!Reserved>>
    BY DEF Keys!Value
  <1> QED
    BY <1>1, <1>2, <1>3, <1>4

\* The literal of every value that fits its type.
LEMMA LiteralReads ==
  ASSUME NEW type \in Keys!Type, NEW v \in Keys!Value, Fits(type, v)
  PROVE  ReadsAs(Keys!Literal(type, v), v.text)
  <1>1. v.text \in Seq(Char)
    BY ValueTexts
  <1>2. ReadsAs(Keys!Quoted(v.text), v.text)
    BY <1>1, QuotedReads
  <1>3. ASSUME Keys!Raw(type, v)
        PROVE  v.text # <<>> /\ \A k \in 1 .. Len(v.text) : v.text[k] \in Plain
    <2>1. CASE v.text \in {<<Keys!Letter>>, <<Keys!Digit>>, <<Keys!Word>>}
      <3>1. PICK c \in Plain : v.text = <<c>>
        BY <2>1 DEF Plain
      <3>2. \A k \in 1 .. Len(<<c>>) : k = 1
        OBVIOUS
      <3> QED
        BY <3>1, <3>2
    <2>2. CASE Keys!Numeric(v.text)
      <3>1. DOMAIN v.text = 1 .. Len(v.text)
        BY <1>1
      <3> QED
        BY <2>2, <3>1 DEF Keys!Numeric, Plain
    <2>3. Keys!Numeric(v.text) \/ v.text \in {<<Keys!Letter>>, <<Keys!Digit>>, <<Keys!Word>>}
      BY <1>3, ValueTexts DEF Keys!Raw, Fits
    <2> QED
      BY <2>1, <2>2, <2>3
  <1>4. CASE Keys!Raw(type, v)
    <2>1. v.text \o <<>> = v.text
      BY <1>1, ConcatEmptySeq, Zenon
    <2>2. Keys!Literal(type, v) \in {v.text, v.text \o <<"M">>, v.text \o <<"d">>}
      BY <1>4, <2>1 DEF Keys!Literal, Keys!Suffix
    <2> QED
      BY <1>1, <1>3, <1>4, <2>2, RawReads
  <1>5. CASE ~Keys!Raw(type, v)
    BY <1>2, <1>5 DEF Keys!Literal
  <1> QED
    BY <1>4, <1>5

\* A name, the equals sign and the literal of a value.
Pair(n, type, v) == <<n, Keys!Equals>> \o Keys!Literal(type, v)

\* It is read as one pair, that gives the name the value.
LEMMA PairReads ==
  ASSUME NEW n \in Keys!ToSet(Names), NEW type \in Keys!Type, NEW v \in Keys!Value, Fits(type, v)
  PROVE  LET p == Pair(n, type, v)
         IN  /\ p \in Seq(Symbol) /\ \A k \in 1 .. Len(p) : p[k] # Keys!Reserved
             /\ Whole(Keys!Decoded(p)) /\ Keys!Gives(Keys!Decoded(p), n, v.text)
  <1> DEFINE h == <<n, Keys!Equals>>
             l == Keys!Literal(type, v)
             d == Keys!Decoded(l)
             p == h \o l
  <1>1. /\ l \in Seq(Symbol) /\ \A k \in 1 .. Len(l) : l[k] # Keys!Reserved
        /\ Whole(d) /\ Keys!Denotes(d, v.text)
    BY LiteralReads DEF ReadsAs
  <1>2. d \in Seq(Symbol) /\ Len(d) = Len(l) /\ Len(l) \in Nat
    BY <1>1, DecodedOfConcat
  <1>3. n \notin {Keys!Quote, Keys!Reserved, Keys!Comma} \cup Keys!Escape /\ n \in Symbol
    BY KeysAssumption DEF Keys!ConstantsAssumption, Symbol
  <1>4. /\ h \in Seq(Symbol) /\ Len(h) = 2 /\ h[1] = n /\ h[2] = Keys!Equals
        /\ \A k \in 1 .. 2 : k = 1 \/ k = 2
    BY <1>3 DEF Symbol
  <1>5. /\ Keys!Equals \notin {Keys!Quote, Keys!Reserved, Keys!Comma}
        /\ DecodedOne(Keys!Equals) = Keys!Equals
    BY DecodedChars DEF Keys!Equals, Keys!Quote, Keys!Reserved, Keys!Comma
  <1> HIDE DEF h, l
  <1>6. Keys!Decoded(h) = h
    <2>1. DecodedOne(n) = n
      BY <1>3 DEF DecodedOne
    <2>2. \A k \in 1 .. Len(h) : DecodedOne(h[k]) = h[k]
      BY <1>4, <1>5, <2>1
    <2> QED
      BY <1>4, <2>2, DecodedPlain
  <1>7. Keys!Decoded(p) = h \o d
    BY <1>1, <1>4, <1>6, DecodedOfConcat
  <1> HIDE DEF d
  <1>8. Whole(h \o d)
    <2>1. \A k \in 1 .. Len(h) : h[k] \notin {Keys!Quote, Keys!Comma}
      BY <1>3, <1>4, <1>5
    <2>2. Whole(h)
      BY <1>4, <2>1, PlainIsWhole
    <2> QED
      BY <1>1, <1>2, <1>4, <2>2, WholeOfConcat DEF Whole
  <1>9. /\ p \in Seq(Symbol) /\ \A k \in 1 .. Len(p) : p[k] # Keys!Reserved
    <2>1. /\ p \in Seq(Symbol) /\ Len(p) = Len(h) + Len(l)
          /\ \A k \in 1 .. Len(h) + Len(l) : p[k] = IF k <= Len(h) THEN h[k] ELSE l[k - Len(h)]
      BY <1>1, <1>4, ConcatProperties, Zenon
    <2>2. \A k \in 1 .. 2 + Len(l) : k \in 1 .. 2 \/ (~(k <= 2) /\ k - 2 \in 1 .. Len(l))
      BY <1>2
    <2>3. \A k \in 1 .. 2 : h[k] # Keys!Reserved /\ k <= 2
      BY <1>3, <1>4, <1>5
    <2> HIDE DEF p
    <2> QED
      BY <1>1, <1>4, <2>1, <2>2, <2>3
  <1>10. Keys!Gives(h \o d, n, v.text)
    <2> DEFINE u == h \o d
               m == Len(d)
    <2>1. /\ u \in Seq(Symbol) /\ Len(u) = Len(h) + Len(d)
          /\ \A k \in 1 .. Len(h) + Len(d) : u[k] = IF k <= Len(h) THEN h[k] ELSE d[k - Len(h)]
      BY <1>2, <1>4, ConcatProperties, Zenon
    <2>2. m \in Nat
      BY <1>2
    <2> HIDE DEF u
    <2>3. Len(u) = 2 + m /\ Len(u) > 1 /\ u[1] = n /\ u[2] = Keys!Equals
      BY <1>4, <2>1, <2>2
    <2>4. SubSeq(u, 3, 2 + m) = d
      <3>1. \A k \in 1 .. m : k + 2 \in 1 .. 2 + m /\ ~(k + 2 <= 2) /\ (k + 2) - 2 = k
        BY <2>2
      <3>2. \A k \in 1 .. m : u[k + 2] = d[k]
        BY <1>4, <2>1, <3>1
      <3>3. /\ SubSeq(u, 3, 2 + m) \in Seq(Symbol) /\ Len(SubSeq(u, 3, 2 + m)) = m
            /\ \A k \in 1 .. m : SubSeq(u, 3, 2 + m)[k] = u[k + 2]
        BY <2>1, <2>2, <2>3
      <3> QED
        BY <1>2, <3>2, <3>3, SeqEqual
    <2> QED
      BY <1>1, <2>3, <2>4 DEF u, Keys!Gives, d
  <1> QED
    BY <1>7, <1>8, <1>9, <1>10 DEF Pair, h, l

\* The segment of the first m names, and the names among them that are keys.
Segment(ks, ts, m) == Keys!FlattenSeq([k \in 1 .. m |-> Keys!Part(ks, ts, k)])
Present(ks, m) == {k \in 1 .. m : Names[k] \in DOMAIN ks}
PairOf(ks, ts, k) == Pair(Names[k], ts[Names[k]], ks[Names[k]])

\* What is to be shown of it: what is read of it are the pairs of these names.
NamesThem(ks, ts, m) ==
    LET g == Segment(ks, ts, m)
        d == Keys!Decoded(g)
    IN  /\ g \in Seq(Symbol) /\ \A k \in 1 .. Len(g) : g[k] # Keys!Reserved
        /\ Even(d)
        /\ Present(ks, m) = {} => g = <<>>
        /\ Present(ks, m) # {} =>
               Keys!Pairs(d) = {Keys!Decoded(PairOf(ks, ts, k)) : k \in Present(ks, m)}

\* The keys of a call, with types, and with types they fit.
Typed(ks, ts) ==
    /\ DOMAIN ks \subseteq Keys!ToSet(Names)
    /\ ks \in [DOMAIN ks -> Keys!Value] /\ ts \in [DOMAIN ks -> Keys!Type]
Called(ks, ts) == Typed(ks, ts) /\ \A n \in DOMAIN ks : Fits(ts[n], ks[n])

\* A part is nothing, or a pair, after a comma if a pair is before it.
LEMMA PartIsPair ==
  ASSUME NEW ks, NEW ts, Called(ks, ts), NEW m \in Nat, m + 1 <= Len(Names)
  PROVE  LET n == Names[m + 1]
             p == PairOf(ks, ts, m + 1)
         IN  /\ Keys!Part(ks, ts, m + 1) =
                    IF n \notin DOMAIN ks THEN <<>>
                    ELSE IF Present(ks, m) = {} THEN p ELSE <<Keys!Comma>> \o p
             /\ Keys!Part(ks, ts, m + 1) \in Seq(Symbol)
             /\ n \in DOMAIN ks =>
                    /\ p \in Seq(Symbol) /\ \A k \in 1 .. Len(p) : p[k] # Keys!Reserved
                    /\ Whole(Keys!Decoded(p))
  <1> DEFINE n == Names[m + 1]
             l == Keys!Literal(ts[n], ks[n])
             p == PairOf(ks, ts, m + 1)
             h == <<n, Keys!Equals>>
             c == <<Keys!Comma>>
  <1>1. CASE n \notin DOMAIN ks
    <2>1. Keys!Part(ks, ts, m + 1) = <<>> /\ <<>> \in Seq(Symbol)
      BY <1>1 DEF Keys!Part
    <2> QED
      BY <1>1, <2>1
  <1>2. CASE n \in DOMAIN ks
    <2>1. n \in Keys!ToSet(Names) /\ ts[n] \in Keys!Type /\ ks[n] \in Keys!Value /\ Fits(ts[n], ks[n])
      BY <1>2 DEF Called, Typed
    <2>2. /\ p \in Seq(Symbol) /\ \A k \in 1 .. Len(p) : p[k] # Keys!Reserved
          /\ Whole(Keys!Decoded(p))
      BY <2>1, PairReads DEF PairOf
    <2>3. l \in Seq(Symbol) /\ h \in Seq(Symbol) /\ c \in Seq(Symbol)
      <3>1. n \in Symbol /\ Keys!Equals \in Symbol /\ Keys!Comma \in Symbol
        BY <2>1 DEF Symbol, Char
      <3>2. l \in Seq(Symbol)
        BY <2>1, LiteralReads DEF ReadsAs
      <3> QED
        BY <3>1, <3>2
    <2>4. (\E k \in 1 .. (m + 1) - 1 : Names[k] \in DOMAIN ks) <=> Present(ks, m) # {}
      <3>1. (m + 1) - 1 = m
        OBVIOUS
      <3> QED
        BY <3>1 DEF Present
    <2>5. Keys!Part(ks, ts, m + 1) =
             (IF \E k \in 1 .. (m + 1) - 1 : Names[k] \in DOMAIN ks THEN c ELSE <<>>) \o h \o l
      BY <1>2 DEF Keys!Part
    <2>6. p = h \o l
      BY DEF PairOf, Pair
    <2> HIDE DEF n, l, p, h, c
    <2>7. (c \o h) \o l = c \o (h \o l) /\ <<>> \o h = h /\ c \o p \in Seq(Symbol)
      <3>1. (c \o h) \o l = c \o (h \o l)
        BY <2>3, ConcatAssociative
      <3>2. <<>> \o h = h
        BY <2>3, ConcatEmptySeq, Zenon
      <3>3. c \o p \in Seq(Symbol)
        BY <2>2, <2>3, ConcatProperties, Zenon
      <3> QED
        BY <3>1, <3>2, <3>3
    <2>8. Keys!Part(ks, ts, m + 1) = IF Present(ks, m) = {} THEN p ELSE c \o p
      BY <2>4, <2>5, <2>6, <2>7
    <2> QED
      BY <1>2, <2>2, <2>7, <2>8 DEF n, p, c
  <1> QED
    BY <1>1, <1>2

\* One name more.
LEMMA SegmentGoesOn ==
  ASSUME NEW ks, NEW ts, Called(ks, ts), NEW m \in Nat, m + 1 <= Len(Names), NamesThem(ks, ts, m)
  PROVE  NamesThem(ks, ts, m + 1)
  <1> DEFINE n == Names[m + 1]
             p == PairOf(ks, ts, m + 1)
             c == <<Keys!Comma>>
             g == Segment(ks, ts, m)
             d == Keys!Decoded(g)
             piece == Keys!Part(ks, ts, m + 1)
             next == Segment(ks, ts, m + 1)
  <1>1. /\ piece = IF n \notin DOMAIN ks THEN <<>>
                  ELSE IF Present(ks, m) = {} THEN p ELSE c \o p
        /\ n \in DOMAIN ks => /\ p \in Seq(Symbol) /\ \A k \in 1 .. Len(p) : p[k] # Keys!Reserved
                              /\ Whole(Keys!Decoded(p))
    BY PartIsPair
  <1>2. /\ g \in Seq(Symbol) /\ \A k \in 1 .. Len(g) : g[k] # Keys!Reserved
        /\ Even(d) /\ d \in Seq(Symbol)
    BY DecodedOfConcat DEF NamesThem
  <1>3. next = g \o piece
    <2> DEFINE parts(i) == [k \in 1 .. i |-> Keys!Part(ks, ts, k)]
    <2>1. Names \in Seq(Keys!ToSet(Names)) /\ Len(Names) \in Nat
      BY KeysAssumption DEF Keys!ConstantsAssumption
    <2>2. \A k \in 1 .. m + 1 : Keys!Part(ks, ts, k) \in Seq(Symbol)
      <3> SUFFICES ASSUME NEW k \in 1 .. m + 1 PROVE Keys!Part(ks, ts, k) \in Seq(Symbol)
        OBVIOUS
      <3>1. k - 1 \in Nat /\ (k - 1) + 1 = k /\ k <= Len(Names)
        BY <2>1
      <3>2. Keys!Part(ks, ts, (k - 1) + 1) \in Seq(Symbol)
        BY <3>1, PartIsPair
      <3> QED
        BY <3>1, <3>2
    <2>3. parts(m) \in Seq(Seq(Symbol)) /\ Len(parts(m)) = m
      BY <2>2
    <2>4. parts(m + 1) = Append(parts(m), piece)
      <3>1. parts(m + 1) \in Seq(Seq(Symbol)) /\ Len(parts(m + 1)) = m + 1
        BY <2>2
      <3>2. piece \in Seq(Symbol)
        BY <2>2
      <3>3. /\ Append(parts(m), piece) \in Seq(Seq(Symbol)) /\ Len(Append(parts(m), piece)) = m + 1
            /\ \A k \in 1 .. m : Append(parts(m), piece)[k] = parts(m)[k]
            /\ Append(parts(m), piece)[m + 1] = piece
        BY <2>3, <3>2, AppendProperties
      <3>4. \A k \in 1 .. m : parts(m + 1)[k] = parts(m)[k]
        OBVIOUS
      <3>5. parts(m + 1)[m + 1] = piece
        OBVIOUS
      <3>6. \A k \in 1 .. m + 1 : k \in 1 .. m \/ k = m + 1
        OBVIOUS
      <3> HIDE DEF parts, piece
      <3>7. \A k \in 1 .. m + 1 : parts(m + 1)[k] = Append(parts(m), piece)[k]
        BY <3>3, <3>4, <3>5, <3>6
      <3> QED
        BY <3>1, <3>3, <3>7, SeqEqual
    <2>5. piece \in Seq(Symbol)
      BY <2>2
    <2> HIDE DEF parts, piece
    <2>6. Keys!FlattenSeq(Append(parts(m), piece)) = Keys!FlattenSeq(parts(m)) \o piece
      BY <2>3, <2>5, FlattenAppend
    <2> QED
      BY <2>4, <2>6 DEF parts, Segment
  <1>4. Present(ks, m + 1) = Present(ks, m) \cup (IF n \in DOMAIN ks THEN {m + 1} ELSE {})
    <2>1. 1 .. m + 1 = (1 .. m) \cup {m + 1}
      OBVIOUS
    <2> QED
      BY <2>1 DEF Present
  <1> HIDE DEF n, p, c, g, piece, next
  <1>5. CASE n \notin DOMAIN ks
    <2>1. next = g /\ Present(ks, m + 1) = Present(ks, m)
      <3>1. g \o <<>> = g
        BY <1>2, ConcatEmptySeq, Zenon
      <3> QED
        BY <1>1, <1>3, <1>4, <1>5, <3>1
    <2> QED
      BY <2>1 DEF NamesThem, g, next
  <1>6. CASE n \in DOMAIN ks /\ Present(ks, m) = {}
    <2>1. next = p
      <3>1. g = <<>>
        BY <1>6 DEF NamesThem, g
      <3>2. <<>> \o p = p
        BY <1>1, <1>6, ConcatEmptySeq, Zenon
      <3> QED
        BY <1>1, <1>3, <1>6, <3>1, <3>2
    <2>2. Present(ks, m + 1) = {m + 1}
      BY <1>4, <1>6
    <2>3. Keys!Decoded(p) \in Seq(Symbol)
      BY <1>1, <1>6, DecodedOfConcat
    <2>4. Keys!Pairs(Keys!Decoded(p)) = {Keys!Decoded(p)} /\ Even(Keys!Decoded(p))
      BY <1>1, <1>6, <2>3, OnePair DEF Whole
    <2>5. {Keys!Decoded(PairOf(ks, ts, k)) : k \in Present(ks, m + 1)} = {Keys!Decoded(p)}
      BY <2>2 DEF p
    <2> QED
      BY <1>1, <1>6, <2>1, <2>2, <2>4, <2>5 DEF NamesThem, next
  <1>7. CASE n \in DOMAIN ks /\ Present(ks, m) # {}
    <2> DEFINE dp == Keys!Decoded(p)
    <2>1. Keys!Comma \in Symbol /\ c \in Seq(Symbol) /\ Len(c) = 1 /\ c[1] = Keys!Comma
          /\ Keys!Comma # Keys!Reserved
      BY DEF Symbol, Char, c, Keys!Comma, Keys!Reserved
    <2>2. Keys!Decoded(c) = c
      <3>1. \A k \in 1 .. Len(c) : DecodedOne(c[k]) = c[k]
        BY <2>1, DecodedChars DEF Char
      <3> QED
        BY <2>1, <3>1, DecodedPlain
    <2>3. p \in Seq(Symbol) /\ dp \in Seq(Symbol) /\ Whole(dp)
      BY <1>1, <1>7, DecodedOfConcat
    <2>4. g \o c \in Seq(Symbol)
      BY <1>2, <2>1, ConcatProperties, Zenon
    <2>5. next = (g \o c) \o p
      <3>1. g \in Seq(Symbol) /\ c \in Seq(Symbol) /\ p \in Seq(Symbol)
        BY <1>2, <2>1, <2>3
      <3>2. (g \o c) \o p = g \o (c \o p)
        BY <3>1, ConcatAssociative
      <3> QED
        BY <1>1, <1>3, <1>7, <3>2
    <2>6. Keys!Decoded(next) = (d \o c) \o dp
      <3>1. Keys!Decoded(g \o c) = d \o c
        <4>1. g \in Seq(Symbol) /\ c \in Seq(Symbol)
          BY <1>2, <2>1
        <4>2. Keys!Decoded(g \o c) = Keys!Decoded(g) \o Keys!Decoded(c)
          BY <4>1, DecodedOfConcat
        <4> QED
          BY <2>2, <4>2
      <3>2. Keys!Decoded((g \o c) \o p) = Keys!Decoded(g \o c) \o dp
        BY <2>3, <2>4, DecodedOfConcat
      <3> QED
        BY <2>5, <3>1, <3>2
    <2>7. Even(Keys!Decoded(next)) /\ Keys!Pairs(Keys!Decoded(next)) = Keys!Pairs(d) \cup {dp}
      <3> HIDE DEF d, dp
      <3>1. d \in Seq(Symbol) /\ dp \in Seq(Symbol) /\ Even(d) /\ Whole(dp) /\ Keys!Comma \in Symbol
        BY <1>2, <2>1, <2>3
      <3>2. Even((d \o c) \o dp) /\ Keys!Pairs((d \o c) \o dp) = Keys!Pairs(d) \cup {dp}
        BY <3>1, OnePairMore DEF c
      <3> QED
        BY <2>6, <3>2
    <2>8. Keys!Pairs(d) = {Keys!Decoded(PairOf(ks, ts, k)) : k \in Present(ks, m)}
      BY <1>7 DEF NamesThem, g
    <2>9. Keys!Pairs(Keys!Decoded(next)) = {Keys!Decoded(PairOf(ks, ts, k)) : k \in Present(ks, m + 1)}
      <3>1. Present(ks, m + 1) = Present(ks, m) \cup {m + 1}
        BY <1>4, <1>7
      <3> QED
        BY <2>7, <2>8, <3>1 DEF p
    <2>10. /\ next \in Seq(Symbol) /\ \A k \in 1 .. Len(next) : next[k] # Keys!Reserved
      <3> DEFINE w == g \o c
      <3>1. /\ w \in Seq(Symbol) /\ Len(w) = Len(g) + Len(c)
            /\ \A k \in 1 .. Len(g) + Len(c) : w[k] = IF k <= Len(g) THEN g[k] ELSE c[k - Len(g)]
        <4>1. g \in Seq(Symbol) /\ c \in Seq(Symbol)
          BY <1>2, <2>1
        <4> QED
          BY <4>1, ConcatProperties
      <3>2. Len(g) \in Nat
        BY <1>2
      <3>3. \A k \in 1 .. Len(g) + 1 : k \in 1 .. Len(g) \/ (~(k <= Len(g)) /\ k - Len(g) = 1)
        BY <3>2
      <3> HIDE DEF w
      <3>4. \A k \in 1 .. Len(w) : w[k] # Keys!Reserved
        <4> SUFFICES ASSUME NEW k \in 1 .. Len(g) + 1 PROVE w[k] # Keys!Reserved
          BY <2>1, <3>1
        <4>1. CASE k \in 1 .. Len(g)
          <5>1. k <= Len(g) /\ w[k] = g[k]
            BY <2>1, <3>1, <3>2, <4>1
          <5> QED
            BY <1>2, <4>1, <5>1
        <4>2. CASE ~(k <= Len(g)) /\ k - Len(g) = 1
          BY <2>1, <3>1, <4>2
        <4> QED
          BY <3>3, <4>1, <4>2
      <3>5. /\ w \o p \in Seq(Symbol) /\ Len(w \o p) = Len(w) + Len(p)
            /\ \A k \in 1 .. Len(w) + Len(p) : (w \o p)[k] = IF k <= Len(w) THEN w[k] ELSE p[k - Len(w)]
        <4>1. w \in Seq(Symbol) /\ p \in Seq(Symbol)
          BY <2>3, <3>1
        <4> QED
          BY <4>1, ConcatProperties
      <3>6. Len(w) \in Nat /\ Len(p) \in Nat
        BY <2>3, <3>1
      <3>7. \A k \in 1 .. Len(w) + Len(p) :
               k \in 1 .. Len(w) \/ (~(k <= Len(w)) /\ k - Len(w) \in 1 .. Len(p))
        BY <3>6
      <3>8. \A k \in 1 .. Len(w) : k <= Len(w)
        BY <3>6
      <3>9. \A k \in 1 .. Len(w \o p) : (w \o p)[k] # Keys!Reserved
        BY <1>1, <1>7, <3>4, <3>5, <3>7, <3>8
      <3> QED
        BY <2>5, <3>5, <3>9 DEF w
    <2>11. Present(ks, m + 1) # {}
      BY <1>4, <1>7
    <2> QED
      BY <2>7, <2>9, <2>10, <2>11 DEF NamesThem, next
  <1> QED
    BY <1>5, <1>6, <1>7

\* Of the segments of any number of names.
LEMMA SegmentOfNames ==
  ASSUME NEW ks, NEW ts, Called(ks, ts), NEW m \in 0 .. Len(Names)
  PROVE  NamesThem(ks, ts, m)
  <1> DEFINE I == {k \in 0 .. Len(Names) : ~NamesThem(ks, ts, k)}
  <1> SUFFICES ASSUME I # {} PROVE FALSE
    OBVIOUS
  <1>1. Len(Names) \in Nat
    BY KeysAssumption DEF Keys!ConstantsAssumption
  <1>2. PICK n \in I : \A k \in I : n <= k
    <2>1. I \in SUBSET Nat
      BY <1>1
    <2> HIDE DEF I
    <2> QED
      BY <2>1, Least
  <1>3. NamesThem(ks, ts, 0)
    <2>1. Segment(ks, ts, 0) = <<>>
      <3>1. [k \in 1 .. 0 |-> Keys!Part(ks, ts, k)] = <<>>
        OBVIOUS
      <3> QED
        BY <3>1, FlattenEmpty DEF Segment
    <2>2. Present(ks, 0) = {}
      BY DEF Present
    <2>3. <<>> \in Seq(Symbol) /\ Len(<<>>) = 0 /\ 1 .. 0 = {}
      OBVIOUS
    <2>4. Len(Keys!Decoded(<<>>)) + 1 = 1
      <3>1. Keys!Decoded(<<>>) = <<>>
        BY <2>3, DecodedPlain
      <3> QED
        BY <2>3, <3>1
    <2>5. Even(Keys!Decoded(<<>>))
      BY <2>4, InsideStep DEF Even
    <2> QED
      BY <2>1, <2>2, <2>3, <2>5 DEF NamesThem
  <1>4. n \in Nat \ {0} /\ n <= Len(Names) /\ ~NamesThem(ks, ts, n)
    BY <1>1, <1>2, <1>3
  <1>5. /\ n - 1 \in Nat /\ (n - 1) + 1 = n /\ (n - 1) + 1 <= Len(Names)
        /\ n - 1 \in 0 .. Len(Names) /\ ~(n <= n - 1)
    BY <1>1, <1>4
  <1>6. NamesThem(ks, ts, n - 1)
    BY <1>2, <1>5
  <1>7. NamesThem(ks, ts, (n - 1) + 1)
    BY <1>5, <1>6, SegmentGoesOn
  <1> QED
    BY <1>4, <1>5, <1>7

\* A segment is read as the keys it was made of.
LEMMA SegmentGives ==
  ASSUME NEW ks, NEW ts, Called(ks, ts), DOMAIN ks # {}
  PROVE  LET seg   == Keys!key_segment_typed(ks, ts)
             pairs == Keys!Pairs(Keys!Decoded(seg))
         IN  /\ \A k \in DOMAIN seg : seg[k] # Keys!Reserved
             /\ \A n \in DOMAIN ks : \E p \in pairs : Keys!Gives(p, n, ks[n].text)
             /\ \A p \in pairs : \E n \in DOMAIN ks : Keys!Gives(p, n, ks[n].text)
  <1> DEFINE seg == Keys!key_segment_typed(ks, ts)
             pairs == Keys!Pairs(Keys!Decoded(seg))
             m == Len(Names)
             It(k) == Keys!Decoded(PairOf(ks, ts, k))
  <1>1. m \in Nat /\ DOMAIN Names = 1 .. m
    BY KeysAssumption DEF Keys!ConstantsAssumption
  <1>2. seg = Segment(ks, ts, m)
    BY <1>1 DEF Segment, Keys!key_segment_typed
  <1>3. NamesThem(ks, ts, m)
    BY <1>1, SegmentOfNames
  <1>4. \A n \in DOMAIN ks : \E k \in Present(ks, m) : Names[k] = n
    BY <1>1 DEF Called, Typed, Keys!ToSet, Present
  <1>5. \A k \in Present(ks, m) : Names[k] \in DOMAIN ks
    BY DEF Present
  <1>6. pairs = {It(k) : k \in Present(ks, m)}
    BY <1>2, <1>3, <1>4 DEF NamesThem
  <1>7. ASSUME NEW k \in Present(ks, m)
        PROVE  Keys!Gives(It(k), Names[k], ks[Names[k]].text)
    <2>1. /\ Names[k] \in Keys!ToSet(Names) /\ ts[Names[k]] \in Keys!Type
          /\ ks[Names[k]] \in Keys!Value /\ Fits(ts[Names[k]], ks[Names[k]])
      BY <1>5 DEF Called, Typed
    <2> QED
      BY <2>1, PairReads DEF PairOf
  <1>8. \A k \in DOMAIN seg : seg[k] # Keys!Reserved
    <2>1. seg \in Seq(Symbol) /\ \A k \in 1 .. Len(seg) : seg[k] # Keys!Reserved
      BY <1>2, <1>3 DEF NamesThem
    <2> HIDE DEF seg
    <2>2. DOMAIN seg = 1 .. Len(seg)
      BY <2>1
    <2> QED
      BY <2>1, <2>2
  <1> HIDE DEF seg, pairs, It
  <1>9. \A n \in DOMAIN ks : \E p \in pairs : Keys!Gives(p, n, ks[n].text)
    BY <1>4, <1>6, <1>7
  <1>10. \A p \in pairs : \E n \in DOMAIN ks : Keys!Gives(p, n, ks[n].text)
    BY <1>5, <1>6, <1>7
  <1> QED
    BY <1>8, <1>9, <1>10 DEF seg, pairs

\* The key predicates: each segment is made of the keys, with their types or
\* with none.
KeysIInv ==
    /\ DOMAIN keys # {} /\ Typed(keys, types_of)
    /\ \A seg \in typed : seg = Keys!key_segment_typed(keys, types_of)
    /\ \A seg \in untyped : seg = Keys!key_segment_typed(keys, [n \in DOMAIN keys |-> "none"])

\* No segment yet.
LEMMA KeysInit == Keys!Init => KeysIInv
  <1> SUFFICES ASSUME Keys!Init PROVE KeysIInv
    OBVIOUS
  <1>1. PICK K \in (SUBSET Keys!ToSet(Names)) \ {{}} :
            keys \in [K -> Keys!Value] /\ types_of \in [K -> Keys!Type]
    BY DEF Keys!Init
  <1>2. DOMAIN keys = K /\ typed = {} /\ untyped = {}
    BY <1>1 DEF Keys!Init
  <1>3. K # {} /\ K \subseteq Keys!ToSet(Names)
    BY <1>1
  <1>4. Typed(keys, types_of)
    BY <1>1, <1>2, <1>3, Zenon DEF Typed
  <1> QED
    BY <1>2, <1>3, <1>4 DEF KeysIInv

\* The segments follow from the keys and their types.
LEMMA KeysStep == KeysIInv /\ [Keys!Next]_(Keys!vars) => KeysIInv'
  <1> SUFFICES ASSUME KeysIInv, [Keys!Next]_(Keys!vars) PROVE KeysIInv'
    OBVIOUS
  <1>1. keys' = keys /\ types_of' = types_of
    BY DEF Keys!Next, Keys!Typed, Keys!Bare, Keys!vars
  <1>2. /\ Keys!key_segment_typed(keys, types_of)' = Keys!key_segment_typed(keys, types_of)
        /\ Keys!key_segment_typed(keys, [n \in DOMAIN keys |-> "none"])'
             = Keys!key_segment_typed(keys, [n \in DOMAIN keys |-> "none"])
    BY <1>1
  <1>3. /\ typed' = typed \/ typed' = {Keys!key_segment_typed(keys, types_of)}
        /\ \/ untyped' = untyped
           \/ untyped' = {Keys!key_segment_typed(keys, [n \in DOMAIN keys |-> "none"])}
    BY DEF Keys!Next, Keys!Typed, Keys!Bare, Keys!vars
  <1> QED
    BY <1>1, <1>2, <1>3 DEF KeysIInv, Typed

\* Literals that are written alike make segments that are alike.
LEMMA KeysAlike == KeysIInv => Keys!SameWithoutMetadata
  <1> DEFINE Same(n) ==
                 CASE keys[n].kind = "string" -> ~Keys!Raw(types_of[n], keys[n])
                   [] keys[n].kind = "scalar" -> types_of[n] \in {"integral", "none"}
                   [] OTHER                   -> types_of[n] \in {"quoted", "none"}
             none == [n \in DOMAIN keys |-> "none"]
  <1> SUFFICES ASSUME KeysIInv, \A n \in DOMAIN keys : Same(n)
               PROVE  Keys!key_segment_typed(keys, types_of) = Keys!key_segment_typed(keys, none)
    BY DEF Keys!SameWithoutMetadata, KeysIInv
  <1>1. ASSUME NEW n \in DOMAIN keys
        PROVE  Keys!Literal(types_of[n], keys[n]) = Keys!Literal(none[n], keys[n])
    <2>1. /\ types_of[n] \in Keys!Type /\ none[n] = "none" /\ keys[n] \in Keys!Value
          /\ keys[n].kind \in {"string", "scalar", "null", "structured"}
      BY <1>1, ValueTexts DEF KeysIInv, Typed
    <2>2. CASE keys[n].kind = "string"
      BY <1>1, <2>1, <2>2 DEF Keys!Literal, Keys!Raw
    <2>3. CASE keys[n].kind = "scalar"
      BY <1>1, <2>1, <2>3 DEF Keys!Literal, Keys!Raw, Keys!Suffix
    <2>4. CASE keys[n].kind \in {"null", "structured"}
      BY <1>1, <2>1, <2>4 DEF Keys!Literal, Keys!Raw
    <2> QED
      BY <2>1, <2>2, <2>3, <2>4
  <1> HIDE DEF none
  <1>2. \A k : Keys!Part(keys, types_of, k) = Keys!Part(keys, none, k)
    <2> SUFFICES ASSUME NEW k PROVE Keys!Part(keys, types_of, k) = Keys!Part(keys, none, k)
      OBVIOUS
    <2>1. CASE Names[k] \in DOMAIN keys
      <3>1. Keys!Literal(types_of[Names[k]], keys[Names[k]]) = Keys!Literal(none[Names[k]], keys[Names[k]])
        BY <1>1, <2>1
      <3> QED
        BY <3>1 DEF Keys!Part
    <2>2. CASE Names[k] \notin DOMAIN keys
      BY <2>2 DEF Keys!Part
    <2> QED
      BY <2>1, <2>2
  <1>3. Keys!key_segment_typed(keys, types_of) = Keys!key_segment_typed(keys, none)
    BY <1>2 DEF Keys!key_segment_typed
  <1> QED
    BY <1>3

\* Segments that are read as their keys, and alike (KeySegment).
LEMMA KeysPromise == KeysIInv => Keys!SegmentNamesKeys
  <1> DEFINE none == [n \in DOMAIN keys |-> "none"]
  <1> SUFFICES ASSUME KeysIInv PROVE Keys!NamesItsKeys
    BY KeysAlike DEF Keys!SegmentNamesKeys
  <1>1. Typed(keys, types_of) /\ Typed(keys, none) /\ DOMAIN keys # {}
    BY DEF KeysIInv, Typed, Keys!Type
  <1>2. ASSUME NEW ts, Called(keys, ts) PROVE Keys!NamesThem(Keys!key_segment_typed(keys, ts))
    BY <1>1, <1>2, SegmentGives DEF Keys!NamesThem
  <1>3. Called(keys, none)
    <2>1. \A n \in DOMAIN keys : keys[n].kind = "structured" => ~Keys!Raw(none[n], keys[n])
      BY DEF Keys!Raw
    <2> QED
      BY <1>1, <2>1 DEF Called, Fits
  <1>4. ~Keys!Misfits => Called(keys, types_of)
    BY <1>1 DEF Called, Fits, Keys!Misfits
  <1> QED
    BY <1>2, <1>3, <1>4 DEF Keys!NamesItsKeys, KeysIInv

\* The key predicate in the path of a read or a write names the keys of the call
\* with their values, and no others, whatever characters the values have, unless a
\* value is an array or an object and its type has no quotes; and it is the same
\* with the metadata and without, unless a value is written otherwise than its type
\* wants. For any names of keys and texts of any length.
THEOREM SegmentTheorem == Keys!Spec => []SegmentNamesKeys
  BY KeysInit, KeysStep, KeysPromise, PTL DEF Keys!Spec, SegmentNamesKeys
-----------------------------------------------------------------------------
\* A behaviour of all parts is a behaviour of each of them.
DocumentsIInv == ParserIInv /\ ReadsIInv /\ TenantIInv /\ GlobIInv /\ KeysIInv

\* Every part begins as it does alone.
LEMMA DocumentsStart == DocumentsInit => DocumentsIInv
  BY ParserInit, ReadsInit, TenantInit, GlobInit, KeysInit DEF DocumentsInit, DocumentsIInv

\* A step of one part leaves the others alone.
LEMMA DocumentsStep == DocumentsIInv /\ [DocumentsNext]_documentsVars => DocumentsIInv'
  <1> SUFFICES ASSUME ParserIInv, ReadsIInv, TenantIInv, GlobIInv, KeysIInv,
                      [DocumentsNext]_documentsVars
               PROVE  ParserIInv' /\ ReadsIInv' /\ TenantIInv' /\ GlobIInv' /\ KeysIInv'
    BY DEF DocumentsIInv
  <1>1. /\ ReadVars' = ReadVars => (R!vars)' = R!vars
        /\ TenancyVars' = TenancyVars => (Who!vars)' = Who!vars
        /\ GlobVars' = GlobVars => (Glob!vars)' = Glob!vars
        /\ KeyVars' = KeyVars => (Keys!vars)' = Keys!vars
    BY DEF ReadVars, R!vars, TenancyVars, Who!vars, Who!config, Who!shown,
           GlobVars, Glob!vars, KeyVars, Keys!vars
  <1>2. [Next]_vars
    BY DEF DocumentsNext, documentsVars
  <1>3. [R!Next]_(R!vars)
    BY <1>1 DEF DocumentsNext, documentsVars
  <1>4. [Who!Next]_(Who!vars)
    BY <1>1 DEF DocumentsNext, documentsVars
  <1>5. [Glob!Decide]_(Glob!vars)
    BY <1>1 DEF DocumentsNext, documentsVars
  <1>6. [Keys!Next]_(Keys!vars)
    BY <1>1 DEF DocumentsNext, documentsVars
  <1> QED
    BY <1>2, <1>3, <1>4, <1>5, <1>6, ParserStep, ReadsStep, TenantStep, GlobStep, KeysStep

\* The parser, the reads and the tenants keep their states well-formed.
THEOREM DocumentsTypeCorrect == DocumentsSpec => []DocumentsTypeOK
  <1>1. DocumentsIInv => DocumentsTypeOK
    BY ReadsTyped, TenantTyped DEF DocumentsIInv, DocumentsTypeOK, ParserIInv
  <1> QED
    BY <1>1, DocumentsStart, DocumentsStep, PTL DEF DocumentsSpec

\* What each of the parts promises alone holds of them together, of the key
\* predicates with the exceptions of SegmentTheorem.
THEOREM DocumentsKeepPromises ==
    DocumentsSpec => [](/\ MetaOfItsType
                        /\ RedactedAsAnnounced
                        /\ ListedIsReachable /\ ListedTokenRestricts
                        /\ DecidedAsMeant /\ SegmentNamesKeys)
  BY DocumentsStart, DocumentsStep, ParserPromise, ReadsPromise, ReachablePromise,
     RestrictsPromise, GlobPromise, KeysPromise, PTL
     DEF DocumentsSpec, DocumentsIInv, SegmentNamesKeys
=============================================================================
