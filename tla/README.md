# A verification project for SA-MCP

SA-MCP (`src/`) is a Rust server that gives MCP clients access to SAP OData
services. This directory holds a TLA+ model of its stateful parts, the TLC runs
that check the model on small instances, and proofs, checked by TLAPS, of what
matters most for every instance. Paths below are relative to `src/src/`; the
crate's own README is `src/README.md`.

    tlc -workers 2 -config GatedWrite.cfg MCGatedWrite.tla     # a run
    tlapm GatedWriteProofs.tla                                 # the proofs

## 1. The system

A client speaks MCP over stdio, WebSocket or HTTP. The transport resolves a
tenant from the bearer token and hands each message to the handler
(`handler.rs`). `execute_op` is its choke point: it resolves the instance, asks
the tenant and the rate limiter, then runs the operation through the SAP client
of that instance (`sap_client.rs`). Writes are gated: `validate_write` checks a
write against `$metadata` and stores an approval, and
`execute_approved_write`, or a direct create, update or delete, spends it.

| Component | State | Operations | Talks to | Hard because |
|---|---|---|---|---|
| Approval store (`gated.rs`) | map token -> (payload, expiry) under an RwLock | register, consume, is_valid, sweep | handler | the sweep's clock is older than the lock; two payloads may have one token |
| Audit log (`gated.rs`) | a JSONL file, fail-open | audit | handler | a line may be lost, or not be reached |
| Write path (`handler.rs`) | none of its own | validate_write, execute_approved_write, create, update, delete | store, metadata, SAP client, audit | awaits between check and use, disconnects, restarts, writes of unknown outcome |
| Read path (`handler.rs`) | none | discover, entity_metadata, read, read_one, resources | metadata, SAP client, field policy | redaction must follow every path |
| SAP client (`sap_client.rs`) | CSRF token, OAuth token | send, csrf_token, create, update, delete, query, access_token | SAP, token provider | shared by all tasks; retries, a repetition after 403, late answers |
| Client pool (`sap_client.rs`, `handler.rs`) | map instance -> client | get, config_for, describe_for; client_for | handler | two locks between look and insert; calls that bring credentials |
| Metadata cache (`cache.rs`) | map (instance, service) -> (document, time) | get, insert; cached_metadata | handler, SAP client | answers that are late overwrite newer ones |
| `$metadata` parser (`sap_client.rs`) | none between calls | parse_edmx; entity_meta | metadata cache | no tree, only flags |
| HTTP transport (`transport_http.rs`) | sessions, channels of 256 events, bound tenants, three locks | POST, GET, DELETE /mcp; GET /sse; POST /messages | handler, tenants | handlers interleave between the locks; two transports share a table; streams that lag |
| WebSocket, stdio (`transport_ws.rs`, `transport_stdio.rs`) | the tenant of the handshake | one loop per connection | handler, tenants | frames of many kinds; a client that vanishes under a running call |
| Rate limiter (`tenant.rs`) | map (tenant, instance, op) -> instants | check, snapshot | handler | calls take the lock in another order than they read the clock; the map is cleared when full |
| Tenants (`tenant.rs`) | none | resolve_tenant, check, filter, resource_default | transports, handler | lists and checks are different code; a token may mean several things |
| Field policy (`field_acl.rs`) | rules, loaded once | is_denied, redact | read path | wildcards, allow and deny lists |
| Configuration (`config.rs`) | the environment | load_instances, validate_instances, entity_allowed, glob_match, clamps | all | documents of three forms with defaults of their own; glob matching without backtracking |
| Tool registry (`registry.rs`) | an immutable table | list_tools, get_tool | handler | execute_approved_write has no instance argument |

What makes each of them correct:

- approvals: spent once, by the payload they were registered for, in time, and
  never lost while live except by use;
- write path: one write per validation whatever is dropped, restarted or
  unknown; exactly the write that was validated; inside its caller's scope; a
  refusal that costs nothing; an audit log that does not claim too much;
- SAP client: a write takes effect at most once, and every call returns;
- caches: bounded staleness, the right key;
- sessions: a live session keeps its channel and its tenant;
- limiter: the budget of a window, no refusal without cause, bounded memory;
- parser, globs and key predicates: the result is what the document, the
  pattern or the key means;
- reads: what is listed can be read, and what is announced as restricted, and
  nothing else, is stripped;
- tenants: what is listed can be reached and nothing else, and a token means
  the same over every transport;
- pool: one client of an instance but for races, and never a caller's own;
- connections: every request answered once and in order, and an end to every
  call, loop and stream.

## 2. The modules

| Module | Models | State and actions against the code |
|---|---|---|
| `Approvals` | the operators on approval tables | `TokenOf`/`Canonical` (the token forgets whether an integral number was written 3 or 3.0), `Swept`, `Inserted`, `Redeemable` |
| `ApprovalStore` | `gated.rs` at the grain of its locks | `ReadClock`, then `Sweep` (a write lock), then `Register`, `Consume` or `IsValid` |
| `OneShotGrant` | what an approval table promises, abstractly | `Issue`, `Redeem`, `Lapse` |
| `GatedWrite` | `execute_op` for the five write tools | an action is what a call does from one await to the next; `store` and `audited` are the code's, `wire` is the request as SAP sees it, `spent` and `saw` are histories |
| `RemoteWrite` | what a write promises about SAP, abstractly | `TakeEffect`, `Succeed`, `Fail` |
| `SapClient` | csrf_token, send, create, update, delete | an action is what a task does from one response to its next request |
| `HttpSessions` | `transport_http.rs` | an action is one critical section; the program counters name the gaps between the locks |
| `RateLimiter` | `check` | `ReadClock`, then `Check` under the lock |
| `MetadataCache` | `cache.rs`, cached_metadata | `Hit` or `Miss`, `Serve` or `BreakOff` (SAP, its body whole or not), `Insert` or `Fail` |
| `OAuthTokens` | access_token, fetch_oauth_token | `UseCached` or `StartFetch`, `Issue` (the provider), `Store` or `Fail` |
| `EdmxParser` | parse_edmx, entity_meta | one action per XML event; the parser's variables have the code's names |
| `EntityGlob` | entity_allowed, glob_match | the functions, and `Decide`, a call of entity_allowed |
| `ClientPool` | SapPool::get, client_for | `Hit`, or `Miss` and `Insert` under a second lock; `Own` and `Refuse` for calls with credentials |
| `FieldPolicy` | `field_acl.rs` | the functions; `Loaded` is what a policy file becomes |
| `Reads` | discover, entity_metadata, read, read_one, the resources | an action per operation behind the choke point; a record is the set of paths to its values, so an envelope or an expansion is one step more |
| `KeySegment` | key_for, key_segment_typed | `Typed` with the metadata, `Bare` without it; a value is a string, a number or boolean, null, or an array or object, each with its text; a text is a sequence of six kinds of characters; a segment is read back by quotes and commas |
| `Tenancy` | load_instances, `tenant.rs`, the handshakes, list_tools, get_tool | `Start`, `Connect`, then any of the lists, calls and resources |
| `EventStream` | one channel and its streams | `Answer` sends, `Receive` or `Skip` is one poll of a stream, `End` its end; an answer is known by its number |
| `Connection` | the loops of `transport_ws.rs` and `transport_stdio.rs` | `ReadFrame`, `Handle`, `Reply`: the loop from one await to the next |

`MC*` modules give the constants their values. Four modules hold several
components that share no state, one of which a behaviour exercises:
`MCLockedTables` the approvals and the sessions,
`MCSharedTables` the caches, the limiter and the pool, `Documents` (with its
instance `MCDocuments`) what is made of documents, keys, patterns and tokens,
`MCClients` the connections and the streams. A `*Proofs` module extends the
module it is about. `PROJECT.json` maps every definition to its lines.

How the modules fit together. `GatedWrite` takes the critical sections of the
approval table inside one action as atomic; `ApprovalStore` takes them apart,
and both implement `OneShotGrant`. `GatedWrite` takes a write as one request
applied at most once, even after its caller gave up; `SapClient` shows that
retries and CSRF refreshes keep that true. Both implement `RemoteWrite`: what
`GatedWrite` takes of the client, that a write happens once at most and a
success is told after it, is what `SapClient` delivers.
`MetadataCache` says how old the metadata may be that `GatedWrite` judges by,
`EdmxParser` what of the document it is, `EntityGlob` which entities are in
`AllowedEntity` (and in `Allowed` of `Reads`). `Tenancy` says which tenant a
caller is whose calls `GatedWrite` admits and `HttpSessions` binds to a session;
`KeySegment` which entity a payload with keys goes to, `ClientPool` which client
with which tokens sends it (`SapClient` is one such client). `HttpSessions`
says which channels there are, `EventStream` what one of them carries.

External and assumed: SAP answers a request at any time or never, may apply a
write whose answer is lost, and changes its CSRF token at will; a 403 proves
that it did not execute the write (the code rests on that); the SHA-256 prefix
in a token has no collisions; session ids are fresh; the clock does not go back.

## 3. The runs

| Run | Instance | Shows |
|---|---|---|
| `LockedTables` | of the approvals 3 operations, 3 payloads of which two share a token, TTL 1, clock to 2; of the sessions 3 requests of any kind, 2 tenants, cap 1, TTL 3, spare hour 1 | `SingleUse`, `SpendsWhatWasRegistered`, `SpentInTime`, `LiveLeavesByUse`, implements the grants; `SessionsHaveChannels`, `BoundTenantHolds`, `YoungSessionsStay` |
| `GatedWrite` | 3 calls out of 22 requests, 2 instances, 2 tenants, own and pooled credentials, one restart, expiry | `OneWritePerValidation`, `WritesMatchValidation`, `WritesStayInScope`, `AuditTellsTruth`, `RefusalKeepsApproval`, `ImplementsPromises` (the grants and `RemoteWrite`) |
| `GatedWriteTrio` | 2 calls | violation, see section 5 |
| `SapClient` | 2 writes, 1 retry, 2 token changes | `AtMostOnce`, `RefusedTokenDropped`, `RetriesRunOut`, implements `RemoteWrite`, `EveryWriteReturns` |
| `HttpSessionsLegacy` | `LockedTables` | violation, see section 5 |
| `SharedTables` | 3 callers of the metadata cache, TTL 1; of the token cache, lives of 1, 4, 5 ticks of 30 s; of the pool, 2 instances and an unknown one; 4 calls of the limiter, 2 keys, budget 1, window 1 | `StalenessBounded`, `ServedWhileValid`, `BudgetHolds` (nobody beyond it, nobody refused within it), the bounded keys (in `TablesTypeOK`), `OneClientEach` (one client of an instance but for races, a caller's own for that call alone) |
| `Documents` | $metadata of 12 events, 2 names, 2 properties; policy files of one or two rules of each place, reads with expansions in each envelope; up to 2 keys with values of 2 characters; names to 4 letters, patterns of 2 stars with parts of a letter or 1 star with parts of 2; 3 instances, 2 tokens, 3 transports | `MetaOfItsType`; `RedactedAsAnnounced`; `SegmentNamesKeys`; `DecidedAsMeant`; `ListedIsReachable`, `ListedTokenRestricts` |
| `Clients` | 3 frames of any kind over either transport; capacity 2, 5 answers, 2 streams | `AnswersFollowRequests`, `NothingLostWithinCapacity`, `RequestsAnswered`, `CallsEnd`, `StreamsAdvance` |
| `EdmxParserBare`, `EntityGlobDeny`, `ReadsDenied`, `KeySegmentArray` | `Documents`, some with fewer events | violations, see section 5 |

Why the bounds suffice. The hazards of the store need a registration and two
rivals: three operations. A clock of two ticks holds a live, an expiring and an
expired entry. In `GatedWrite` the third call is a rival for the validated
write, and each request of the set is there for a guard: the wrong instance,
tenant, credentials, entity, operation, token, missing confirmation. One retry
and one repetition are what separates counting right from one off, and two token
changes let the second attempt be refused as well. For a lost session channel
an initialize, its rival and the reader suffice. In the limiter four calls
exceed a budget of one in several windows, with overtaken ones among them. A
third caller of a cache or of the pool sees what two racing ones leave behind. Twelve events
hold two entity types with content, something between them, and a set. Leftmost
search goes wrong on overlaps of at most two letters, inside four. Two rules of
different places are what adding up and intersecting need. Two characters hold a
quote or a reserved character first, last, alone or doubled, and two keys what a
separator in a value could break. Three instances are the default, one more of a tenant and one that
is not; two tokens a listed one and the admin's, which may be the same. A
stream of a channel of two lags after three unread answers, and again after it
has skipped; three frames put one of each kind between two others.

Every state of a run with `MaxTime` is cut where the clock ends and every call
is made once, so the runs end in states without successor: they do not check
deadlock. `EveryWriteReturns` says instead that no call is stuck.

Conditions in the properties are exact. In `BudgetHolds`, one call more may get
through for each that was overtaken between its clock and the lock, and a
cleared map starts afresh: both slacks occur. `ServedWhileValid` needs a
response quicker than the skew and a life longer than skew and floor together.
In `StalenessBounded` the empty document is served only if the body of that very
fetch broke off. `DecidedAsMeant`, `FoundWhole` and `RedactedAsAnnounced`
exclude exactly the case their violation run shows. So does `NamesItsKeys`: it
leaves out the segment with the metadata of a call that gives an array or an
object for a key whose type is written without quotes (`KeySegmentArray`).
`BoundTenantHolds` allows a message posted to the id of a session, or to a
channel whose binding a DELETE has just taken, to be handled as the tenant of
its own token; `ListedTokenRestricts` leaves out a token in the query; and
`AuditTellsTruth` speaks of the lines there are, not of those that are missing.

Several properties are conjunctions of named parts. `MetaOfItsType` is
`NothingForeign` (at any time, whatever the document) and `FoundWhole`.
`RedactedAsAnnounced` is `PolicyInForce` (the rules of the file hold or an error shows, but for two ways
in which a policy is silently off), `ListedIsReadable` and `StrippedAsAnnounced`.
`SegmentNamesKeys` is `NamesItsKeys` and `SameWithoutMetadata`, which excludes
the values whose literal depends on the metadata. `ListedIsReachable` is
`CalledAsListed`, `ResourceServed` and `StartedIsUsable`, which excludes the
documents whose default may be missing. `DecidedAsMeant` is `MatchesAreMeant`
for every name and `ExactUnlessRepeated`. `CallsEnd` is `BegunIsFinished` and
`LoopEnds`; it and `RequestsAnswered` allow for a panic.

Fairness. `Clients` assumes weak fairness of the loop and of each stream: the
runtime polls a task that is ready, the handler ends because SAP is only waited
for with a timeout, and hyper polls a stream whose client reads. A client may
leave at any time and nothing is assumed of when it sends. That a client that
stays takes its answers is an assumption of `RequestsAnswered`: the code has no
timeout on a write to a client. `SapClient` is checked under weak fairness of each task's own steps.
The tokio runtime polls a task whose request is ready, and every request has a
timeout (`timeout_ms`), so `TimesOut` or `FetchFails` is always possible. None is
assumed of SAP: a write returns even if SAP never answers, and none of the
clock.

## 4. The proofs

Every invariant and every action property of the passing runs is proved, and so
are the four refinements. Only liveness is left to TLC.

| Theorem | For every value of the constants |
|---|---|
| `ApprovalStoreProofs`: `TypeCorrect`, `SingleUseTheorem`, `SpendsRegistered`, `SpentInTimeTheorem`, `LiveLeavesTheorem` | the store: types, single use, by the payload and in the time of the registration, and no live approval dropped |
| its `Refinement` | `ApprovalStore` implements `OneShotGrant` |
| `PromisesProofs`: `OneShotTheorem` | whatever implements the grants redeems each at most once |
| its `TruthfulTheorem`, `StandsTheorem` | whatever implements `RemoteWrite` has one effect at most, tells a success after it, and takes nothing back |
| `GatedWriteProofs`: `TypeCorrect`, `OneWriteTheorem`, `MatchTheorem`, `ScopeTheorem`, `AuditTheorem`, `RefusalTheorem` | the write path: types and its five safety properties |
| its `Refinement` | `GatedWrite` implements `OneShotGrant` as well, and its writes `RemoteWrite` |
| `SapClientProofs`: `TypeCorrect`, `AtMostOnceTheorem`, `RefusedTokenTheorem`, `RetriesTheorem` | the client: types, one effect of a write, a refused token is gone, the loops run out |
| its `Refinement` | `SapClient` implements `RemoteWrite` |
| `HttpSessionsProofs`: `TypeCorrect`, `ChannelsTheorem`, `BoundTenantTheorem`, `YoungSessionsTheorem` | the session tables between their locks |
| `SharedTablesProofs`: `OneClientTheorem`, `ServedTheorem`, `StalenessTheorem`, `BudgetTheorem` | pool, access tokens, metadata, limiter, each for itself |
| `TablesTypeCorrect`, `TablesKeepTheirPromises` | the same of the composition that is run |
| `ClientsProofs`: `AnswersTheorem`, `StreamTheorem`, `ClientsKeepPromises` | connections and streams, alone and composed |
| `DocumentsProofs`: `MetaTheorem` | the parser, for a document of any length |
| `RedactedTheorem` | the reads, for any policy file |
| `ReachableTheorem`, `RestrictsTheorem` | the tenants, for any environment |
| `DecidedTheorem` | the globs, for names and patterns of any length |
| `SegmentTheorem` | the key predicates, for any names, values of every JSON kind and texts of any length; of the segment with the metadata, unless an array or an object is given for a type without quotes |
| `DocumentsTypeCorrect`, `DocumentsKeepPromises` | the same of the composition that is run, with the same exceptions |

The proofs use the assumptions the modules state of their constants, and no
bound: any number of calls, tasks, tenants, instances, restarts, ticks, events
and tokens. What an instantiated module assumes, its user assumes of the values
it gives: `SessionsAssumption`, `TokensAssumption`, `LimiterAssumption`, `CapacityAssumption`,
`ReadsAssumption`, `KeysAssumption`, `GlobAssumption`, `TenancyAssumption`. They
say that times and bounds are naturals, that names and patterns are finite
sequences, that the name of a key is not a separator (`valid_odata_name`), that
every entity and instance named is a known one, and of the code's data: no two
tools have one name (`registry.rs` lists them literally), a document states at
most one default, the environment alone makes the instance "default"
(`config.rs`), an empty pattern is dropped before it is matched
(`entity_allowed`). The runs evaluate all of them.

Each argument is an inductive invariant, `IInv` or one of the name of its part.

*Store.* `SingleUse` is not inductive: with two entries of one registration in
the table, one could be spent while the other stays. `IInv` adds that a call
has at most one entry (`OneEntryPerCall`), and that every entry, stored or
spent, is what its call registered, which by then is done (`StoreGenuine`,
`SpentGenuine`). `LiveLeavesByUse` rests on `SweepsFromThePast`: the clock a
sweep read is not ahead of the one it is judged by, so what it drops is dead.

*Write path.* `IInv` relates a call to the validation whose entry it holds:
every entry is `Genuine` (its payload is that of the call that registered it,
judged without hard issue), no entry is in the table and spent or spent twice
(`SpentApart`), and a call that is on its way to SAP has consumed an entry and
passed every check (`InFlightCleared`). So two writes hold entries of different
validations. For the refinement a restart is a series of lapses in one step,
and a validation that replaces an entry of its token lapses that one. Towards
`RemoteWrite` a call that gives up is an answer of failure and one that is
dropped gets none; the request of either may still take effect. `Unanswered`,
that only who has ended was told anything, makes each answer the first.

*SAP client.* Why may a write be sent again after a 403, and never otherwise?
`UnsentYet`: before a round sends, nothing of the task is under way and nothing
has happened. `AnswerTellsEffect`: while a task waits, SAP has executed its
write exactly if the answer on its way says so. Both need `OneRequestEach`.
A timeout leaves the loop, so that its late write meets no second one. That the
loops end is a measure, `Ahead`: each step of a task lowers its own and no step
raises another's. So of `EveryWriteReturns` only the fairness is not proved.

*Sessions.* At each gap between two locks, `Stages` says what kind of request
stands there; `SessionsMade`, `ChannelsMade` and `BindingsMade` that an entry of
a table is of the request that minted its id, and where that request is by now.
So the pruning of an initialize keeps whatever a session of another needs.

*Pool, tokens, metadata.* Who makes a client found none when it began
(`InsertsAreRaces`); what is cached expires when its token says
(`CachedUntilDue`); an entry, a reply under way and a served document all were
SAP's at an instant of their fetch (`CacheIsGenuine`, `RepliesAreGenuine`).

*Limiter.* Calls take the lock in another order than they read the clock, so a
queue is not sorted and trimming stops at the first young instant.
`QueuesAreCounts` says who stands in a queue: an injection (`StandsIn`) from
its places to the counted calls, in order but for those that were overtaken,
missing only who is too old for the window of some call. Counting along it
bounds those in a window from above, and from below for a refusal.

*Connections, streams.* The loop has answered every request before the frame it
is at, in order (`EarlierAnswered`, `NothingAhead`). A stream lies between where
it began and the end of the channel (`StreamPlaced`) and unless it ever lagged
has read all of that (`StreamOrdered`).

*Parser.* The accumulators hold what the document gave the type it is in, which
is not finalized yet (`OwnerOpen`), all of it unless a complex type was
self-closing (`NothingMissing`). *Reads, tenants.* What was shown last is what
the file, or the environment and the token, make of the operation
(`ReadsIInv`, `TenantIInv`); that lists and checks agree is then a lemma about
the operators (`FoundAsListed`, `ResourceOf`, `VerdictOk`).

*Globs.* `GlobSound`: where the leftmost search finds its parts they stand as
the pattern means. `GlobFinds`: wherever they stand, the search finds each no
later; by the least number of parts it did not find, whose predecessor it did.
So it ends at the only place of the last part, or a star takes the rest.

*Key predicates.* `SegmentNamesKeys` says that the segment is one segment of the
path and that a reader of OData gets from it the keys of the call and no others:
without the metadata always, with it unless an array or an object is given for a
type without quotes. There the statement is false of the code, and
`KeySegmentArray` shows it. What else is written raw has no quote, comma or
reserved character (`RawReads`), so it is read back as it stands.
The texts are built with `FlattenSeq`, whose recursion the prover cannot unfold
by an induction theorem; the lemmas find the least place where a law fails and
refute it there. `FlattenSeq` of a longer sequence appends to that of the
shorter (`FlattenAppend`), on which all else is built. A doubled text closes
every quote it opens (`Even`), a part of the segment has no comma outside quotes
(`Whole`), so a reader cuts between the parts and nowhere else (`OnePairMore`);
halving the quotes and undoing the encoding give back each value
(`SaysEach`, `LiteralReads`). `SegmentOfNames` puts this together.

Only model-checked: liveness (`EveryWriteReturns`, `CallsEnd`,
`RequestsAnswered`, `StreamsAdvance`), which is out of the prover's reach.

## 5. Where the code and its documentation part

- `GatedWriteTrio`: `execute_approved_write` has no instance argument, so it is
  resolved for the default instance and refuses every approval validated for
  another (`handler.rs:468`, against `src/README.md:27`).
- `HttpSessionsLegacy`: each initialize prunes the channels by the ids of
  sessions, and with them every legacy SSE channel; messages already accepted
  are not answered (`transport_http.rs:59`, against its comment at 56).
- `EdmxParserBare`: `<ComplexType/>` sets `in_complex` and nothing resets it;
  the properties of the entity types behind it are lost (`sap_client.rs:508`).
- `EntityGlobDeny`: a pattern's last literal is sought from the left, so `*a`
  does not match `aba` and the denied entity is allowed (`config.rs:230`,
  against "Deny wins" at 195).
- `KeySegmentArray`: for a numeric key an array or an object goes into the path
  as its JSON text, with its separators, neither quoted nor encoded
  (`handler.rs:699`, 704, 709, against its comments at 680 and 691).
- `ReadsDenied`: the V2 answer to a key keeps its envelope, `{"d": {...}}` is
  one record with the key `d`, and the redaction looks at the first level only:
  denied properties leave (`handler.rs:777`, against its comment at 774).

Noticed in modelling, with no run of their own: a write that fails after its
approval was consumed leaves no audit line (`handler.rs:490`), although
`gated.rs:122` speaks of one line for each event; `POST /messages` takes the id
of a session, to which its own table binds no tenant, and handles the message as
the tenant of its token (`transport_http.rs:240`, against "later calls on the
session use the BOUND tenant" at 27); the capability
issues of `validate_write` stop nothing (`handler.rs:445`); an absent
capability flag is read as false (`sap_client.rs:512`); a token granted for less than 60 s is
cached for 60 s (`sap_client.rs:57`); the session cap yields to sessions
younger than an hour (`transport_http.rs:47`); a client that writes 3.0 back as
3 is refused although the token is the same (`gated.rs:106`); an allow list strips `__metadata`,
`@odata.etag` and a V2 envelope as well, so the etag for an update is lost; a
denied entity can be read as an expansion of an allowed one (`handler.rs:335`);
an array over a WebSocket gets no answer (`transport_ws.rs:95`), over stdio it
does; a call whose WebSocket client has gone runs to its end, over HTTP it is
dropped; a document with several instances and no default starts with a default
that may not exist (`config.rs:359`); a token in the query of an HTTP request is
not looked at, although the comment at `transport_http.rs:63` says it is passed; `truncate` may panic inside a character
(`sap_client.rs:410`).

## 6. Not modelled, and the plan

Left out, and why:

- process start, the probes and metrics, the router, the origin check: no state
  that lasts, or matching of one text;
- the numbers and texts of configuration: `clamp_top`, `clamp_skip`, the query
  caps, which environment variable instances come from, the checks of single
  fields in `validate_instances` (one flag of a source);
- URL building and the query options: text for SAP; of the key predicate, how
  JSON lays out a number, an array or an object, and the strings `inf` and `nan`,
  which parse as numbers;
- JSON-RPC framing below a frame or line, prompts and descriptions;
- revocation of access tokens: nothing in the code reacts to it;
- inherited properties, several schemas, and capability flags of `$metadata`;
- `reload` of a policy while it is in use: nothing calls it but `load`;
- batches of more than two, and preview and validate lines of the audit log.

Some hazards are in the model with no property to catch them, because no doc
says what should happen or the code does not do it: policy rules that are
silently dropped (`field_acl.rs:256`), a stated default instance that does not
exist (`config.rs:359`), the missing audit line (`handler.rs:490`), and the
panic in `truncate` (`sap_client.rs:410`), which `CallsEnd` and
`RequestsAnswered` allow for.

Next:

1. `HttpSessions` composed with `EventStream`: an answer whose session is
   deleted while its handler runs.
