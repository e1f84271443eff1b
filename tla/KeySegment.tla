----------------------------- MODULE KeySegment -----------------------------
(***************************************************************************)
(* key_for and key_segment_typed of src/handler.rs: the key predicate of   *)
(* the path of a read_one, an update or a delete. How a value is written   *)
(* depends on the type its key has in the $metadata; without the metadata  *)
(* it depends on the value alone.                                          *)
(*                                                                         *)
(* A text is a sequence of characters, of which six tell everything apart: *)
(* a letter, what numbers are made of, the words true and false, the       *)
(* quote, the comma that separates the keys of a predicate, and the rest,  *)
(* which have no place in one: slash, parentheses, brackets, double quote. *)
(* The last two are percent-encoded. A name, and the three characters of   *)
(* an encoding, are one symbol.                                            *)
(***************************************************************************)
EXTENDS Naturals, Sequences, FiniteSets, SequencesExt

CONSTANTS Names,     \* the names of key properties, in their order
          MaxChars   \* bound on the length of a text, two brackets counting as one

Letter   == "letter"
Digit    == "digit"
Word     == "word"
Quote    == "quote"
Comma    == "comma"
Reserved == "reserved"
Equals   == "equals"
Escaped  ==
    [c \in {Reserved, Comma} |-> IF c = Reserved THEN "escaped_reserved" ELSE "escaped_comma"]
Escape   == {Escaped[c] : c \in DOMAIN Escaped}

\* A name is not mistaken for what separates names and values.
ConstantsAssumption ==
    /\ Names \in Seq(ToSet(Names))
    /\ ToSet(Names) \cap ({Quote, Comma, Reserved} \cup Escape) = {}

Text == UNION {[1 .. n -> {Letter, Digit, Quote, Comma, Reserved}] : n \in 0 .. MaxChars}

\* Edm types by what the code makes of them, and none: no metadata, or a type
\* it does not know.
Type == {"quoted", "integral", "decimal", "double", "none"}

\* A value of JSON and its text, which for all but a string is the one of
\* Value::to_string: an array or an object stands in brackets.
Value ==
    [kind : {"string"}, text : Text \cup {<<Word>>}]
    \cup [kind : {"scalar"}, text : {<<Digit>>, <<Word>>}]
    \cup [kind : {"null"}, text : {<<Letter>>}]
    \cup [kind : {"structured"},
          text : {<<Reserved>> \o t \o <<Reserved>> : t \in {t \in Text : Len(t) < MaxChars}}]

VARIABLES keys,   \* the keys of the call: a function from names to values
          types,  \* the types of these keys in the metadata
          typed,  \* the segment with the metadata, if it was formed
          bare    \* the segment without

vars == <<keys, types, typed, bare>>

Init ==
    /\ \E K \in (SUBSET ToSet(Names)) \ {{}} : keys \in [K -> Value] /\ types \in [K -> Type]
    /\ typed = {} /\ bare = {}
-----------------------------------------------------------------------------
Doubled(s) == FlattenSeq([k \in DOMAIN s |-> IF s[k] = Quote THEN <<Quote, Quote>> ELSE <<s[k]>>])

odata_path_encode(s) == [k \in DOMAIN s |-> IF s[k] \in DOMAIN Escaped THEN Escaped[s[k]] ELSE s[k]]

Quoted(s) == <<Quote>> \o odata_path_encode(Doubled(s)) \o <<Quote>>

\* The text of a string parses as a number.
Numeric(s) == s # <<>> /\ \A k \in DOMAIN s : s[k] = Digit

\* Wrong variant of Raw: what the metadata calls a number is never quoted.
RawAsTyped(type, v) == IF type = "none" THEN v.kind = "scalar" ELSE type # "quoted"

\* What is written as it is, neither quoted nor encoded: of a type without quotes,
\* a string that is a number (or, among the integral types with Boolean, a word)
\* and everything that is no string; without a type, numbers and booleans.
Raw(type, v) ==
    CASE v.kind = "string" -> /\ type \notin {"quoted", "none"}
                              /\ Numeric(v.text) \/ (type = "integral" /\ v.text = <<Word>>)
      [] v.kind = "scalar" -> type # "quoted"
      [] OTHER             -> type \notin {"quoted", "none"}

Suffix(type) == CASE type = "decimal" -> <<"M">> [] type = "double" -> <<"d">> [] OTHER -> <<>>

Literal(type, v) == IF Raw(type, v) THEN v.text \o Suffix(type) ELSE Quoted(v.text)

\* A key of the call, after a comma unless it is the first.
Part(ks, ts, k) ==
    LET n == Names[k]
    IN  IF n \notin DOMAIN ks THEN <<>>
        ELSE (IF \E l \in 1 .. k - 1 : Names[l] \in DOMAIN ks THEN <<Comma>> ELSE <<>>)
             \o <<n, Equals>> \o Literal(ts[n], ks[n])

\* The keys in the order of their names.
key_segment_typed(ks, ts) == FlattenSeq([k \in DOMAIN Names |-> Part(ks, ts, k)])

\* key_for takes the types of the cached metadata.
Typed ==
    /\ typed = {}
    /\ typed' = {key_segment_typed(keys, types)}
    /\ UNCHANGED <<keys, types, bare>>

\* key_for when the metadata cannot be had: .ok() makes an empty map of types.
Bare ==
    /\ bare = {}
    /\ bare' = {key_segment_typed(keys, [n \in DOMAIN keys |-> "none"])}
    /\ UNCHANGED <<keys, types, typed>>

Next == Typed \/ Bare

Spec == Init /\ [][Next]_vars
-----------------------------------------------------------------------------
\* How OData reads a key predicate, which is all of a path segment: percent-
\* encoding is undone, and commas separate outside quotes, of which two stand
\* for one inside.
Decoded(seg) ==
    [k \in DOMAIN seg |-> IF seg[k] \in Escape
                          THEN CHOOSE c \in DOMAIN Escaped : Escaped[c] = seg[k] ELSE seg[k]]

Inside(seg, k) == Cardinality({l \in 1 .. k - 1 : seg[l] = Quote}) % 2 = 1

\* Where a pair of a name and a value ends, before the first and after the last.
Cuts(seg) == {0, Len(seg) + 1} \cup {k \in DOMAIN seg : seg[k] = Comma /\ ~Inside(seg, k)}

Pairs(seg) ==
    {SubSeq(seg, c[1] + 1, c[2] - 1) :
        c \in {c \in Cuts(seg) \X Cuts(seg) :
                 c[1] < c[2] /\ \A d \in Cuts(seg) : ~(c[1] < d /\ d < c[2])}}

\* What is between the quotes of a literal says text: its quotes come in pairs,
\* and text is the rest of it when the first of each pair is left out.
Says(body, text) ==
    LET first == {k \in DOMAIN body : body[k] = Quote /\ ~Inside(body, k)}
    IN  /\ \A k \in first : k < Len(body) /\ body[k + 1] = Quote
        /\ \E at \in [DOMAIN text -> DOMAIN body \ first] :
              /\ \A k, l \in DOMAIN text : k < l => at[k] < at[l]
              /\ \A i \in DOMAIN body \ first : \E k \in DOMAIN text : at[k] = i
              /\ \A k \in DOMAIN text : text[k] = body[at[k]]

\* A literal in quotes, or one without, which may have a suffix.
Denotes(lit, text) ==
    IF lit # <<>> /\ lit[1] = Quote
    THEN /\ Len(lit) > 1 /\ lit[Len(lit)] = Quote
         /\ Says(SubSeq(lit, 2, Len(lit) - 1), text)
    ELSE lit \in {text, text \o <<"M">>, text \o <<"d">>}

Gives(pair, n, text) ==
    /\ Len(pair) > 1 /\ pair[1] = n /\ pair[2] = Equals
    /\ Denotes(SubSeq(pair, 3, Len(pair)), text)

\* A segment stays inside its parentheses in the path, and names the keys of the
\* call with their values and no others.
NamesThem(seg) ==
    /\ \A k \in DOMAIN seg : seg[k] # Reserved
    /\ \A n \in DOMAIN keys : \E p \in Pairs(Decoded(seg)) : Gives(p, n, keys[n].text)
    /\ \A p \in Pairs(Decoded(seg)) : \E n \in DOMAIN keys : Gives(p, n, keys[n].text)

\* An array or an object for a key whose type is written without quotes.
Misfits == \E n \in DOMAIN keys : keys[n].kind = "structured" /\ Raw(types[n], keys[n])

\* The segment names the keys of the call whatever characters their values have,
\* with the metadata or without (handler.rs:680, "can't break the key predicate
\* path"); of calls with a misfit, the one without the metadata.
NamesItsKeys ==
    /\ \A seg \in bare : NamesThem(seg)
    /\ ~Misfits => \A seg \in typed : NamesThem(seg)

\* The same of every call, as the comments at handler.rs:680 and 691 have it. It
\* does not hold: an array or an object for a number goes into the path as it is.
ValuesStayInside == \A seg \in typed \cup bare : NamesThem(seg)

\* A write goes to the entity it was validated for also when the metadata is
\* gone by then: the segment is the same with and without it, unless a value is
\* of another kind than its type, or its type wants a suffix.
SameWithoutMetadata ==
    (\A n \in DOMAIN keys :
        CASE keys[n].kind = "string" -> ~Raw(types[n], keys[n])
          [] keys[n].kind = "scalar" -> types[n] \in {"integral", "none"}
          [] OTHER                   -> types[n] \in {"quoted", "none"})
    => \A s \in typed, t \in bare : s = t

\* A key predicate names what the caller meant, whatever became of the metadata.
SegmentNamesKeys == NamesItsKeys /\ SameWithoutMetadata
=============================================================================
