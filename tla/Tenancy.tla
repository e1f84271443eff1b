------------------------------- MODULE Tenancy -------------------------------
(***************************************************************************)
(* Who a caller is and what it may name: the instances as src/config.rs    *)
(* loads them, the tenant that src/tenant.rs makes of a bearer token, the  *)
(* transports that hand it the token, and the checks that src/handler.rs,  *)
(* src/registry.rs and SapPool make with it.                               *)
(***************************************************************************)
EXTENDS Sequences, SequencesExt, FiniteSets

CONSTANTS Names,      \* names of instances, in their order
          Default,    \* the name "default"
          Token,      \* bearer tokens
          Source,     \* what the environment says of the instances
          Tools,      \* the tool definitions, in the order of the file: name, group and
                      \* whether SAP_MCP_ENABLE_WRITES guards the tool
          Exposition  \* values of SAP_EXPOSITION: sets of groups

Known == ToSet(Names)

\* Documents assumes it: a document has instances of known names and states
\* one default at most, the environment alone has its "default", and the file
\* of the tools has no two of one name.
ConstantsAssumption ==
    /\ Names \in Seq(Known) /\ Tools \in Seq({Tools[k] : k \in DOMAIN Tools})
    /\ \A s \in Source :
          /\ s.shape \in {"instances", "bare", "env"}
          /\ DOMAIN s.tokens \subseteq Known
          /\ \A i \in s.stated : s.stated = {i}
          /\ s.shape = "env" => DOMAIN s.tokens = {Default}
    /\ \A j, k \in DOMAIN Tools : Tools[j].name = Tools[k].name => j = k

VARIABLES
    source,      \* the text that describes the instances
    auth, admin, \* MCP_AUTH_ENABLED; MCP_AUTH_TOKEN, read only then: none or one
    exposition,  \* SAP_EXPOSITION
    writes,      \* SAP_MCP_ENABLE_WRITES
    pool,        \* the default instance and the configured ones, once loaded
    phase,       \* "new", "up" or "failed"
    caller,      \* transport and tokens of the client, once there is one
    tenant,      \* what it resolved to, if to anything
    listed, tooled,  \* the instances and the tools it was shown last
    called,      \* its last request, if a tool call: tool, instance and verdict
    resource     \* or if a resources/read: whether it was answered

config == <<source, auth, admin, exposition, writes>>
shown == <<listed, tooled, called, resource>>
vars == <<config, pool, phase, caller, tenant, shown>>

Init ==
    /\ source \in Source
    /\ auth \in BOOLEAN
    /\ admin \in {{}} \cup {{t} : t \in IF auth THEN Token ELSE {}}
    /\ exposition \in Exposition /\ writes \in BOOLEAN
    /\ pool = {} /\ phase = "new" /\ caller = {} /\ tenant = {}
    /\ listed = {} /\ tooled = {} /\ called = {} /\ resource = {}
-----------------------------------------------------------------------------
\* A source is a document with the key "instances", a bare map, or the single
\* instance of the environment; a text that does not parse has no tokens to
\* any instance. tokens: the mcp_tokens of the instances it has. stated: its
\* "default", if any. valid: whether validate_instances accepts every entry.

\* A bare map without an obvious default does not load.
BareDefault(s) ==
    IF Cardinality(DOMAIN s.tokens) = 1 THEN DOMAIN s.tokens
    ELSE DOMAIN s.tokens \cap {Default}

\* The default of a document with "instances" is what it states, else its only
\* instance, else "default", whether there is one or not.
WrappedDefault(s) ==
    IF s.stated # {} THEN s.stated
    ELSE IF Cardinality(DOMAIN s.tokens) = 1 THEN DOMAIN s.tokens
    ELSE {Default}

\* The pool a source makes, if it makes one.
Loaded(s) ==
    {[default |-> d, tokens |-> s.tokens] :
        d \in IF DOMAIN s.tokens = {} \/ ~s.valid THEN {}
              ELSE CASE s.shape = "instances" -> WrappedDefault(s)
                     [] s.shape = "bare"      -> BareDefault(s)
                     [] s.shape = "env"       -> {Default}}

Start ==
    /\ phase = "new"
    /\ pool' = Loaded(source)
    /\ phase' = IF pool' = {} THEN "failed" ELSE "up"
    /\ UNCHANGED <<config, caller, tenant, shown>>
-----------------------------------------------------------------------------
\* A bearer in the header comes before one in the query. Each is none or one.
bearer_from(header, query) == IF header # {} THEN header ELSE query

\* The HTTP endpoints pass an empty query; a WebSocket passes its own.
Presented(c) ==
    CASE c.transport = "http" -> bearer_from(c.header, {})
      [] c.transport = "ws"   -> bearer_from(c.header, c.query)

Full == [full |-> TRUE, instances |-> {}]

\* Wrong variant of resolve_tenant: the admin token is looked at first.
resolve_tenant_admin(token, p) ==
    LET own == {i \in DOMAIN p.tokens : token \cap p.tokens[i] # {}}
    IN  IF auth /\ token # {} /\ token = admin THEN {Full}
        ELSE IF own # {} THEN {[full |-> FALSE, instances |-> own]}
        ELSE IF auth THEN {} ELSE {Full}

\* A token some instance lists is restricted to the instances that list it,
\* whatever else it is. Without authentication anyone else has full access.
resolve_tenant(token, p) ==
    LET own == {i \in DOMAIN p.tokens : token \cap p.tokens[i] # {}}
    IN  IF own # {} THEN {[full |-> FALSE, instances |-> own]}
        ELSE IF ~auth \/ (token # {} /\ token = admin) THEN {Full} ELSE {}

TenantOf(c, p) ==
    IF c.transport = "stdio" THEN {Full} ELSE resolve_tenant(Presented(c), p)

\* A client comes: refused with 401, or bound to its tenant.
Connect(c) ==
    /\ phase = "up" /\ caller = {}
    /\ caller' = {c}
    /\ \E p \in pool : tenant' = TenantOf(c, p)
    /\ UNCHANGED <<config, pool, phase, shown>>
-----------------------------------------------------------------------------
\* Wrong variant of check: the default instance is everybody's.
check_default(t, i, p) == t.full \/ i \in t.instances \cup {p.default}
check(t, i, p) == t.full \/ i \in t.instances

filter(t, names) == IF t.full THEN names ELSE names \cap t.instances

resource_default(t, p) ==
    IF t.full \/ p.default \in t.instances THEN {p.default}
    ELSE {Names[SelectInSeq(Names, LAMBDA n : n \in t.instances)]}

exposition_allows(group) == group # "write" \/ exposition \cap {"high", "write"} # {}

\* A tool that is not exposed, or whose guard is off, is not there.
Exposed(tool) == (tool.guarded => writes) /\ exposition_allows(tool.group)

list_tools == {Tools[k].name : k \in {k \in DOMAIN Tools : Exposed(Tools[k])}}

\* The first tool of the name, if it is there.
get_tool(name) ==
    LET first == SelectInSeq(Tools, LAMBDA tool : tool.name = name)
    IN  {Tools[k] : k \in {k \in {first} : k > 0 /\ Exposed(Tools[k])}}

\* sap_list_instances and sap://instances.
ListInstances ==
    /\ \E t \in tenant, p \in pool : listed' = {filter(t, DOMAIN p.tokens)}
    /\ UNCHANGED <<config, pool, phase, caller, tenant, tooled, called, resource>>

ListTools ==
    /\ tenant # {}
    /\ tooled' = {list_tools}
    /\ UNCHANGED <<config, pool, phase, caller, tenant, listed, called, resource>>

\* tools/call up to its client: named is the instance argument, if any.
Verdict(t, p, name, named) ==
    LET i == IF named = {} THEN p.default ELSE CHOOSE n \in named : TRUE
    IN  IF get_tool(name) = {} THEN "unknown tool"
        ELSE IF ~check(t, i, p) THEN "no access"
        ELSE IF i \notin DOMAIN p.tokens THEN "unknown instance"
        ELSE "ok"

CallTool(name, named) ==
    /\ \E t \in tenant, p \in pool :
          called' = {[tool |-> name, named |-> named, verdict |-> Verdict(t, p, name, named)]}
    /\ resource' = {}
    /\ UNCHANGED <<config, pool, phase, caller, tenant, listed, tooled>>

\* resources/read of sap://entities or an entity, up to its client.
ReadResource ==
    /\ \E t \in tenant, p \in pool :
          resource' = {resource_default(t, p) \subseteq DOMAIN p.tokens}
    /\ called' = {}
    /\ UNCHANGED <<config, pool, phase, caller, tenant, listed, tooled>>

Caller ==
    [transport : {"http", "ws"}, header : {{}} \cup {{t} : t \in Token},
     query : {{}} \cup {{t} : t \in Token}]
    \cup [transport : {"stdio"}, header : {{}}, query : {{}}]

Next ==
    \/ Start
    \/ \E c \in Caller : Connect(c)
    \/ ListInstances \/ ListTools \/ ReadResource
    \/ \E tool \in ToSet(Tools), named \in {{}} \cup {{i} : i \in Known} :
          CallTool(tool.name, named)

Spec == Init /\ [][Next]_vars
-----------------------------------------------------------------------------
TypeOK ==
    /\ phase \in {"new", "up", "failed"} /\ (phase = "up" <=> pool # {})
    /\ \A p \in pool : DOMAIN p.tokens \subseteq Known
    /\ \A t \in tenant : t.full \/ t.instances # {}
    /\ \A l \in listed : l \subseteq Known
    /\ \A c \in called : c.verdict \in {"ok", "unknown tool", "no access", "unknown instance"}
    /\ resource \subseteq BOOLEAN

\* A call gets through to SAP exactly if its tool was shown by tools/list and
\* its instance, named or the default, by list_instances: the filters of the
\* lists and the checks of a call (tenant.rs:26 and 40, registry.rs:71 and 79)
\* are different code.
CalledAsListed ==
    \A l \in listed, ts \in tooled, c \in called, p \in pool :
        c.verdict = "ok" <=>
            c.tool \in ts /\ (IF c.named = {} THEN {p.default} ELSE c.named) \subseteq l

\* Whoever is shown an instance can read the resources of one, except full
\* access to a pool whose default is not configured.
ResourceServed ==
    \A r \in resource, l \in listed, t \in tenant, p \in pool :
        l # {} => r \/ (t.full /\ p.default \notin l)

\* "fail fast" (validate_instances): a server that starts has its default
\* instance, unless a document with "instances" states another or has several
\* and states none.
StartedIsUsable ==
    \A p \in pool :
        \/ p.default \in DOMAIN p.tokens
        \/ source.shape = "instances" /\ (source.stated # {} \/ Cardinality(DOMAIN source.tokens) > 1)

\* What a caller is shown is what it can use, and a server that starts has
\* something to show.
ListedIsReachable == CalledAsListed /\ ResourceServed /\ StartedIsUsable

\* What a client offers: the token of its header, else of its query.
Offered(c) == IF c.header # {} THEN c.header ELSE c.query
\* The one the HTTP endpoints do not see.
QueryOnly(c) == c.transport = "http" /\ c.header = {}

\* "token listed in an instance's mcp_tokens => Restricted to exactly those"
\* (resolve_tenant), over every network transport, with authentication or
\* without, also when it is the admin token: unless it comes in the query of an
\* HTTP request.
ListedTokenRestricts ==
    \A c \in caller, p \in pool, k \in called :
        LET own == {i \in DOMAIN p.tokens : Offered(c) \cap p.tokens[i] # {}}
        IN  own # {} /\ ~QueryOnly(c) /\ k.verdict = "ok" =>
                (IF k.named = {} THEN {p.default} ELSE k.named) \subseteq own
=============================================================================
