----------------------------- MODULE MCDocuments -----------------------------
(***************************************************************************)
(* The documents that TLC puts before Documents: every policy file of one  *)
(* rule and some of two, names of up to four letters and patterns of up to *)
(* two stars, and environments with up to three instances.                 *)
(***************************************************************************)
EXTENDS Documents, FiniteSetsExt, SequencesExt, TLC

CONSTANTS e, x, f, g, i1, a, b, t, u

MCPropsOf  == (e :> {Id, f, g}) @@ (x :> {f})
MCSelectOf == (e :> {{Id, f, g}}) @@ (x :> {{f}})
MCExpand   == {{}, {x}}
MCNames    == <<"K1", "K2">>

\* The rules of a file are for one instance or "*", and for one set or "*".
MCRule(allows, denies) ==
    [instance : {i1, Star}, model : {e, Star}, allow : allows, deny : denies]
Allows == {{}, {{f}}, {{f, g}}}

\* One rule of each kind, two rules of other places, and one rule in a file of
\* each kind.
MCFile ==
    [found : {"dedicated"}, text : {"json"}, wrapped : {TRUE},
     rules : {{r} : r \in MCRule(Allows \cup {{NotAList}}, {{}, {f}, {D}, NotAList})}
             \cup {rs \in kSubset(2, MCRule({{}, {{f}}, {{g}}}, {{}}) \cup MCRule({{}, {{f}}}, {{f}})) :
                     \A r, s \in rs : r.instance # s.instance \/ r.model # s.model \/ r = s}]
    \cup [found : {"dedicated", "shared", "default", "nowhere"}, text : {"json", "broken"},
          wrapped : BOOLEAN, rules : {{r} : r \in MCRule({{{f}}}, {{f}, NotAList})}]

\* Every name of up to four letters; every pattern of up to two stars and parts
\* of a letter, and of one star and parts of up to two.
MCName    == SeqOf({a, b}, 4)
MCPattern == (SeqOf({<<>>, <<a>>, <<b>>}, 3) \cup SeqOf({<<>>, <<a>>, <<b>>, <<a, b>>}, 2))
             \ {<<>>, <<<<>>>>}

MCInstance == <<"a", "b", "default">>
SourceOf(shapes, stated, domains) ==
    [shape : shapes, stated : stated, valid : {TRUE}, tokens : UNION {[S -> SUBSET {t}] : S \in domains}]
\* Documents of all instances and tokens, some with a stated default that may
\* be missing, and one with an entry that does not validate.
MCSource ==
    SourceOf({"instances"}, {{}}, SUBSET ToSet(MCInstance))
    \cup SourceOf({"bare"}, {{}}, SUBSET {"a", "b"} \cup {{"a", "default"}})
    \cup SourceOf({"instances"}, {{"b"}}, SUBSET {"a", "b"})
    \cup SourceOf({"env"}, {{}}, {{"default"}})
    \cup {[shape |-> "bare", stated |-> {}, valid |-> FALSE, tokens |-> "a" :> {t}]}
MCTools ==
    << [name |-> "read", group |-> "read", guarded |-> FALSE],
       [name |-> "create", group |-> "write", guarded |-> TRUE] >>
MCExposition == {{"readonly"}, {"readonly", "high"}}

MCSymmetry == Permutations(Name) \cup Permutations(Prop)
=============================================================================
