------------------------------- MODULE Documents -------------------------------
(***************************************************************************)
(* What is made of the documents of SAP and of the policy file: the        *)
(* $metadata as it is parsed, the records of a read as they are unpacked   *)
(* and redacted, and the key predicates that the metadata shapes; and of   *)
(* the instances, tokens and patterns in the environment. They share no    *)
(* state, so a behaviour exercises one of them, the one part names.        *)
(***************************************************************************)
EXTENDS EdmxParser

CONSTANTS Star, Id, NotAList, Instance, Entity, Set, Allowed, PropsOf, Added, D, File,
          SelectOf, Expand, MaxRows,                                  \* Reads
          Names, MaxChars,                                            \* KeySegment
          EntityName, Pattern,                                        \* EntityGlob
          InstanceNames, Default, Token, Source, Tools, Exposition    \* Tenancy

VARIABLES file, policy, error, entities, announced, answer, refused,
          keys, types_of, typed, untyped,
          deny, allow, entity, verdict,
          source, auth, admin, exposition, writes, pool, phase, caller, tenant,
          shown, tooled, called, resource, part

ReadVars == <<file, policy, error, entities, announced, answer, refused>>
KeyVars  == <<keys, types_of, typed, untyped>>
GlobVars == <<deny, allow, entity, verdict>>
TenancyVars == <<source, auth, admin, exposition, writes, pool, phase, caller, tenant,
                 shown, tooled, called, resource>>

R    == INSTANCE Reads WITH listed <- entities
Keys == INSTANCE KeySegment WITH types <- types_of, bare <- untyped
Glob == INSTANCE EntityGlob WITH Entity <- EntityName
Who  == INSTANCE Tenancy WITH Names <- InstanceNames, listed <- shown

ASSUME ReadsAssumption   == R!ConstantsAssumption
ASSUME KeysAssumption    == Keys!ConstantsAssumption
ASSUME GlobAssumption    == Glob!ConstantsAssumption
ASSUME TenancyAssumption == Who!ConstantsAssumption

\* The parts a behaviour does not exercise stay at one initial state.
NoFile == CHOOSE w \in File : w.found = "nowhere"
NoKeys == [n \in {Names[1]} |-> [kind |-> "string", text |-> <<>>]]

DocumentsInit ==
    /\ part \in {"metadata", "reads", "keys", "globs", "tenants"}
    /\ part # "reads" => file = NoFile
    /\ part # "keys" => keys = NoKeys /\ types_of = [n \in {Names[1]} |-> "none"]
    /\ part # "globs" => deny = {} /\ allow = {} /\ entity = <<>>
    /\ part # "tenants" => /\ source = CHOOSE d \in Source : d.shape = "env"
                           /\ auth = FALSE /\ exposition = {"readonly"} /\ writes = FALSE
    /\ Init /\ R!Init /\ Keys!Init /\ Glob!Init /\ Who!Init

DocumentsNext ==
    \/ /\ part = "metadata" /\ Next
       /\ UNCHANGED <<ReadVars, KeyVars, GlobVars, TenancyVars, part>>
    \/ /\ part = "reads" /\ R!Next
       /\ UNCHANGED <<vars, KeyVars, GlobVars, TenancyVars, part>>
    \/ /\ part = "keys" /\ Keys!Next
       /\ UNCHANGED <<vars, ReadVars, GlobVars, TenancyVars, part>>
    \/ /\ part = "globs" /\ Glob!Decide
       /\ UNCHANGED <<vars, ReadVars, KeyVars, TenancyVars, part>>
    \/ /\ part = "tenants" /\ Who!Next
       /\ UNCHANGED <<vars, ReadVars, KeyVars, GlobVars, part>>

documentsVars == <<vars, ReadVars, KeyVars, GlobVars, TenancyVars, part>>

DocumentsSpec == DocumentsInit /\ [][DocumentsNext]_documentsVars

\* The state of the parser, of the reads and of the tenants is well-formed.
DocumentsTypeOK == TypeOK /\ R!TypeOK /\ Who!TypeOK

\* The properties of the parts (Reads, KeySegment, EntityGlob, Tenancy).
RedactedAsAnnounced   == R!RedactedAsAnnounced
DeniedStays           == R!DeniedStays
SegmentNamesKeys      == Keys!SegmentNamesKeys
ValuesStayInside      == Keys!ValuesStayInside
DecidedAsMeant        == Glob!DecidedAsMeant
DenyWins              == Glob!DenyWins
ListedIsReachable     == Who!ListedIsReachable
ListedTokenRestricts  == Who!ListedTokenRestricts
=============================================================================
