# TLA+ models of axum-playground

This directory holds formal models of the service: what happens to one request from its first
middleware to its answer, the verification of its token and the cache of signing keys behind it, the
profile store on Firestore, the GitHub client, the pages of the item list, the profile migration
command, and the life of the process from its configuration to its shutdown. Every model is
translated from the Rust source; `PROJECT.json` maps each definition to its lines. TLC checks the models on small instances, and the TLA+ proof
system (TLAPS) proves the main safety properties for every size.

## 1. The system

One process serves an HTTP API (`src/src/app.rs`). A request passes the middleware (panic
recovery, security headers), negotiation of its response format, its extractors (path, query,
bearer token, bounded body) and a handler. Handlers call three services held in `AppState`:

| component | state | operations | interacts with |
|---|---|---|---|
| profile service, `services/profile.rs` | a lazily created Firestore client (`OnceCell`); the documents are Firestore's | create, get, update, delete of the caller's profile, each under a 30 s deadline, the writes in a Firestore transaction | profile handlers; Firestore |
| token verifier, `auth/mod.rs` | cached signing keys, two cooldowns, a refresh mutex | verify: key lookup (cache or fetch), claim checks, account lookup, revocation; under a 30 s deadline | every profile request; Google's key and identity services |
| migration command, `profile_migration.rs`, `bin/migrate_profiles.rs` | the records and the counters of one run | audit; apply: preflight, one transaction per retired document, verification scan | Firestore, beside running services |
| GitHub client, `services/github.rs`, and handlers | none between requests | six reads with redirects, provider navigation, rate limits, size limit, one deadline | GitHub; cursors handed to clients |
| item pages, `pagination/`, `http/v1/items.rs` | a static list | pages forward and backward by scoped cursors | clients, who hold the cursors |
| request pipeline, `http/{negotiation,codec,extract}.rs`, `app.rs`, `problem/` | none | negotiate, decode, bound, validate, encode | all handlers |
| configuration, start, shutdown, `config.rs`, `state.rs`, `main.rs`, `shutdown.rs` | the configuration, read once; two signal listeners | parse and validate the environment, build the services, serve, drain | the operator; requests at work |
| middleware, `middleware/`, `app.rs` | none | panic recovery, security headers, HEAD, declared size | every answer |
| discovery, health, hello, docs | none | static answers, discovery links, the generated OpenAPI document | clients that rely on the document |
| telemetry | none | log lines, request ids | - |

What is hard here: concurrent requests on one document; commits whose reply is lost, that land
after their caller was answered, or that the library retries; clocks that step back; cancellation
by a deadline at any await; several requests that find the key cache empty at once; keys that
rotate while a fetch is under way; a migration that overlaps with writers, with another run of
itself, or that is killed half way; an account that changes while its token is verified; signals
that come before anybody listens; several checks that fail on one request, of which the order of
a handler's arguments picks one; three tables (routers, `Allow`, OpenAPI) that only tests keep
together. The unit tests of the repository replace the store and the
providers by mocks that are atomic and answer in order, so they reach none of these.

What makes each component correct:

* profile service: it behaves as the atomic store of the mock, except that 503 leaves the effect
  of a call open; no update of another request is lost; update times advance; what it stores it
  can read again; documents of another shape are left to the migration.
* key cache: at most one refresh at a time and none that is not needed; no request waits for a
  dead one; withdrawn keys are accepted, and published ones refused, for a bounded time only.
* migration: it writes nothing before its preflight passed, changes only what the audit saw,
  never undoes a writer, its success means completeness, repeated runs converge.
* GitHub client: a request stays what it asked for whatever the provider redirects to, and ends;
  the links it hands out come back accepted and lead forward.
* token verification: a token is accepted only if it was good at some time during the call, and
  refused only for a cause of its own or, for a bounded time, because its key is new; never for a
  failure of the services.
* request pipeline and handlers: nothing is asked of a dependency before every check passed; every
  answer is one the OpenAPI document declares (with one exception, section 5), in the representation
  the client ranks first; what it says of the store is true.
* configuration and shutdown: emulators only locally and only as a pair; a caught signal ends the
  server and cuts no request off.
* item pages: no walk by links skips or repeats an item, and no cursor cuts outside the list.

## 2. Modules

| module | models | theorems in |
|---|---|---|
| `ProfileData` | the pure functions of the profile service: strict reader, next timestamp, the closures, error mapping | |
| `ProfileContract` | the abstract contract: the mock's atomic operations, and what 503 leaves open | |
| `ProfileService` | `FirestoreProfileStore` under `ProfileService`, and Firestore as it is used | `ProfileServiceProofs` |
| `JwksCache` | `GoogleJwksClient` under `AuthVerifier::verify`, the provider and time | `JwksCacheProofs` |
| `ProfileMigration` | `run_profile_migration`, Firestore, other writers, the operator | `ProfileMigrationProofs` |
| `GitHubClient` | `HttpGitHubService` behind the GitHub handlers, and a provider that answers anything | `GitHubClientProofs` |
| `ItemPages` | `paginate` and its cursors behind the item handler, and a client | `ItemPagesProofs` |
| `TokenVerification` | `AuthVerifier::verify`, production and emulator, the account at the provider, time | `TokenVerificationProofs` |
| `HttpNegotiation` | the Accept field and the choice of a representation, and the RFC's rule as reference | |
| `HttpApi` | the routers, the `Allow` table, and the operations and responses of the OpenAPI document | |
| `HttpRequests` | the layers of `app.rs`, the extractors and all handlers, over the two modules above | `HttpRequestsProofs` |
| `ServerLifecycle` | `AppConfig`, `main`, `AppState::new`, the shutdown signals, requests at work | `ServerLifecycleProofs` |
| `MC...` | the constants of the runs, and their symmetry | |

Operators with the remark *mutant* are not part of the models: each is a plausible mistake in the
definition that follows it, kept to show that a property notices it.

### ProfileService

State: `docs` (the collection), `cell` (the `OnceCell` of the client: empty, ready, or the request
that initializes it), and per request its arguments, program counter, the clock it read, the
attempts of its transaction and its answer. A step is what the code does between two awaits:

* `Invoke`, `InitClient`, `ClientBuilt`, `ClientFails`, `ClientReady`: entry and `db()`. The
  clock is read once before `run_transaction` and may have any value, so that it may step back
  between requests.
* `Get`, `GetFails`: the single read of a get.
* `BeginTransaction`, `RunClosure`, `ReadFails`, `Committed`, `CommitFails`: one attempt. The
  closure decides with `Outcome` of `ProfileData`; a transient error is retried while the
  library's budget lasts, a permanent one is answered.
* `ServerCommits`, `ServerRefuses`, `ServerAborts`: Firestore, external. A commit is applied only
  while the document is unchanged since it was read; a sent commit may be applied at any later
  time, also after its request is over.
* `Deadline`, `Crash`: `with_deadline` drops the future, which frees the cell it was
  initializing; the process dies.

A document is absent, `Foreign` (a shape the strict reader refuses) or a profile with a value per
field and its two timestamps. Field values are opaque: the code only compares whole profiles.
`tx[r][k].lost` records, as history, that the reply to a commit which could have taken effect was
not received; `Doubt` is the set of requests this happened to.

`ProfileContract` is the specification the mock implements: each call executes atomically on the
current document and answers with the outcome of an execution of its own. `ProfileService`
refines it with `acts <- Acts` (the outcomes the server made true) and `doubt <- Doubt`.

### JwksCache

State: `clock`, what the provider publishes and `since` when, the three fields of `JwksState`, the
holder of the refresh mutex, and per request its program counter, key, start, the instant it read
last and the response to its fetch. `Check` and `Recheck` are the two looks of `key_for`, before
and after `Acquire`; `ProviderReplies` fixes the content of a response when the provider sends it,
`FetchReturns` reads the clock when it arrives, `Store` and `StoreError` write the state. The lock
around the state is held for one such step only and is left out. `Deadline` drops the request and
with it the mutex. `Tick` moves time but never leaves a due deadline behind: timers fire when they
are due, although a handler may still act at that instant. Requests are reused, so two of them
stand for any number of calls of which two overlap. `answer` and `last` are history.

### ProfileMigration

State: the collection with a version (Firestore's `update_time`) per document, the commits under
way, and per run of the command its phase, mode, the records of its first scan, the remaining
targets, attempts, `migrated` and result. `Audit` and `Verify` are the two scans, each one
snapshot, as a Firestore query is. `Migrate` is the closure of `migrate_one`: it reads the target
again, compares its version with the audit's and sends a commit pinned to that version.
`TransactionFails` loses a reply or is refused and is retried; `PhaseFails` is the deadline of a
phase, its error, or the death of the process; `ServerCommits` applies a commit late or never.
`Start` begins the next run of the same slot, whose earlier commits become orphans. `Write` is any
other writer. Timestamps count half milliseconds, so that the truncation of the conversion and the
order test before it, which is on the exact instants, can disagree.

`MigrationDecision::AlreadyCurrent` is never reached in any run: the version of the target is
compared first and a version names one document, which the audit had found retired
(`VersionsIdentify`). `ConcurrentChange` can be reported for the run's own conversion if the reply
to its commit was lost: `ConcurrentChangeIsReal` excepts exactly those runs.

### GitHubClient

State: `pc` (idle, waiting for headers, reading the body), the request (`scope`, `cursor`), the
address to ask next, the addresses asked, the number of redirects, the size of the body, the answer
and its links. Requests share nothing except cursors that clients carry from one to the next, so the
module runs one request at a time and keeps the links of the last answer; `Request` takes such a link
or any other cursor. `Malformed` is a request refused before the service is called; `Redirected`,
`Refused`, `Headers`, `Chunk`, `PageRead` and `PageRefused` are what the provider may do and how
`send_terminal`, `read_body` and the link parser answer; `Deadline` is the timeout around the whole
operation. `walk` is history: the pages asked by following next links.

An address is a record of what the checks compare: the origin, the operation and resource of the
path, the page size, the navigating parameter and a spelling, since two addresses may mean the same
and differ as text, and the visited set compares text. Pages 0 and `MaxPage + 1` stand for all values
that are no page numbers. Left out are the text of paths, headers and JSON, and the values of the
rate limit headers. The checks of a cursor in the service repeat those of the handler; one operator,
`Accepts`, stands for both.

Two limits of what the code promises show in the properties. Every request begins at the *name* of
the resource, so `RedirectsKept` is about one request: the next page may belong to another id if the
name changed owner in between. And in an activity log a link is refused only if it points at the
present position, because positions are opaque: `NoPageTwice` is about numbered lists.

### ItemPages

The server keeps nothing between requests; the state is what the client holds: the scope, cursor and
page of the last answer, its links, and, as history, the `walk`: the pages read by following links
from the first page. `List` is a request with a well-formed query and any cursor, a link's or made
up; `Malformed` one that the handler refuses before it looks at the cursor. Ids are distinct, so an
item is its place in the catalogue and a page is a set of items; `Index` is the place of an item in
the filtered list, and `Slice` cuts by it as the code cuts the vector. A slice out of bounds, which
would panic, is an answer of its own (`internal_error`) that `TypeOK`, a part of `IndInv`, excludes. A link carries a query
and a cursor, since a client sends back both and they have to agree. The text of cursors is left out:
one that does not decode is `Garbled`, one of another operation is refused like any of another scope.

The proved property is about walks by links. A made-up cursor can begin a page less than a full page
from the start; the page before it then overlaps it, but nothing is left out (`LinksAdjoin`).

### TokenVerification

One call of `verify`. The steps are what the code does between two awaits: `VerifyProduction` or
`VerifyEmulator` (the emulator verifier awaits nothing), `KeyFor` (the key arrives; signature and
claims are checked), `AccessToken`, `LookupUser`. `ProviderReads` fixes what the provider answers at
the moment it reads the account, which may change before the answer arrives; `Timeout` is the
deadline of the whole call. `account` changes at any time; `seen`, history, is the set of its states
during the call. `Rotate` publishes or withdraws the key the token names, and `since` is when. The verdicts on the header, the claims and the account are operators that return
the first error the code finds. The clock is read at every check, as the code does.

The lookup of the key is `JwksCache`; here it answers in every way that the proved properties of that
module leave it: with the key while it is published, or was withdrawn at most a lifetime and a
deadline before the call began (`KeyTrusted`, from `WithdrawnKeysRefused`); with `InvalidToken` while
the key is not published, or was published at most a cooldown and a deadline before (`KeyUnknown`,
from `PublishedKeysAccepted`: `key_or_retry` calls a good token of a new key invalid while the
cooldown after an unknown key runs); or with `CertificateFetch`. A published key may be unusable (its
components do not make an RSA key).

### HttpNegotiation, HttpApi, HttpRequests

`HttpRequests` is one request, because requests share nothing in this layer. The request is a
record that never changes, with one field for each thing the code looks at (method, segments of the
path, Accept elements, query parts, the lines of four headers, the body and how its arrival ends);
the values are what the parsers tell apart, so that `"%"` is a component that does not decode and
`Unreadable` a number that does not parse. `pc` follows the request: arriving (the layers in front
of the router), extracting (at `step` of the handler's arguments), waiting (for the dependency named
last in `calls`), answered (below the outer layers), sent or dropped.

`Extractors` holds the arguments of every handler in their order: each extractor is an action that
refuses or lets the next one run, and the handler's action is enabled when all have passed. The
verifier, the profile service and the GitHub service answer in every way their own modules allow,
`NotFound` for a missing database to any profile call included (`ProfileServiceAnswers`). That answer
of a create is the one its OpenAPI description does not declare; `AnswersAsDocumented` excepts its
status by name (`UndeclaredNotFound`), and the run `profile_create_status` shows it (section 5).

A body is a map, whose members are read by name, or an array, whose items are read by position: serde
gives the request types both forms, of which `serde_json::from_value` takes either and ciborium only
the map (`Given`, `HasShape`). The two may therefore reach the store, and `CarriesProfile` and
`CarriesChange` say what each must hold. The files below the Swagger page belong to its library: which
there are is left open, and one that is missing is a bare 404 (`SwaggerFiles`).
`acts` records what executions of a profile call did or found, and `LoseReply` that the reply to one
of them was lost, so that the call may run again: this is how the module uses `ProfileContract`.
`PanicRecovery` may strike wherever a handler runs, `Disconnect` where it waits. `Leave` sends an
answer through the outer layers: discovery links, security headers, an empty body for HEAD.

`HttpApi` keeps apart what the source keeps apart: `Routes` is built of the routers, `PortableAllow`
of the table in `app.rs`, `ApiDoc`, `DeclaredHeaders` and `ProblemCodeForResponse` of the attributes
of the handlers and of `docs.rs`. `AnswersAsDocumented` and `TruthfulAllow` say that they agree.
`HttpNegotiation` has the code's one pass over the ranges (`EffectiveQuality`) and, as a reference,
`Weight` of RFC 9110; `BestRepresentation` compares the two. That the tables agree on every path, and
that the pass computes the reference for every Accept field, is proved (section 4).

### ServerLifecycle

`FromEnv`, `InitTracing`, `NewFirestore`, `NewAuthVerifier` and `Bind` are the steps of `main`; each
may fail and end the process. The emulator rule is checked three times by the code and by the model.
A signal without a listener ends the process at once, as the system does by default; a listener is
installed when the shutdown future is first polled, may fail to install, and stays installed.
`WaitForShutdown` is the select over the two; requests at work then go on until they end or their
clients leave, and `ServeReturns`. A request is only admitted, read, handled and answered here.

## 3. What TLC checks

| run | specification and bounds | properties |
|---|---|---|
| `profile_races` | 2 requests, 1 user, 2 fields, 2 values, timestamps 0..2, 2 attempts, every call, four initial documents | `IndInv`, `DefiniteAnswersAreFinal`, `AtMostOnce`, `InitializerAlive`, `DocumentsEvolve` |
| `profile_refines` | the same calls with 1 field, timestamps 0..1, a stored profile to start from, with fairness | the refinement `ContractSpec`, `EventuallyAnswered` |
| `profile_create_status` | one attempt; a database error "not found" is possible | `CreateStatusDocumented`, violated (section 5) |
| `jwks_cache` | 2 requests, 2 keys of which one rotates, lifetimes 0 and 2, cooldown 1, deadline 1, clock to 4 | `IndInv`, `WithdrawnKeysRefused`, `PublishedKeysAccepted`, `FetchesAreNeeded`, `NoStaleFailure` |
| `migration` | 2 runs, 2 documents, retired, invalid or no profile in each, 1 concurrent write, 2 attempts | `IndInv`, `PreflightFirst`, `SuccessIsComplete`, `CountIsHonest`, `ConcurrentChangeIsReal`, `OnlyLegacyConverted` |
| `migration_reruns` | 1 run repeated without bound, with fairness | `RerunsConverge` |
| `github_requests` | four kinds of operation, 2 names, 2 ids, 5 pages, 3 positions of which one is too long for a cursor, 3 redirects, bodies of 3 in chunks of 0 to 4, with fairness | `IndInv`, `RedirectsKept`, `NoPageTwice`, `EventuallyAnswered` |
| `github_cursor_status` | the same, safety only | `UpstreamCursorIs422`, violated (section 5) |
| `item_pages` | 6 items, 2 categories, page sizes 1, 2 and 4, every cursor | `IndInv`, `WalkReadsOnce`, `BackRetraces`, `LinksAdjoin` |
| `http_requests` | 27,323 requests: 7 methods on 40 paths; all Accept fields of up to 2 of 15 elements, and of 3 of 13; all queries of up to 2 of 10 parts; 31 bodies with 7 content types, 4 encodings and 7 sizes on the three operations with a body; all pairs of 5 Authorization lines | `CallsAfterChecks`, `AnswersAsDocumented`, `BestRepresentation`, `TruthfulAllow`, `AnswerTellsEffect` |
| `token_verification` | tokens that differ from a good one in one or two respects, both verifiers, leeway, deadline and lifetime 1, cooldown 0, clock to 4, 2 changes of the account or the key; 1.6 million states | `IndInv`, `AcceptedWasValid`, `RefusedForCause`, `EventuallyVerdict` |
| `server_lifecycle` | every environment within two changes of a local one with emulators and of one of Cloud Run, 2 requests, both signals; half a million states | `IndInv`, `EmulatorsStayLocal`, `NoRequestCutOff`, `EventuallyExits` |

`IndInv` holds the type invariant of its module and, beside the strengthening the proofs need, some
properties of its own: `StoredDocsReadable`, `RefreshIsExclusive`, `WorkBounded`, `LinksAccepted` and
`LookupOnlyVerified` are parts or consequences of it, and proved (section 4).

Why these bounds are enough for what can go wrong: documents of different users share nothing but
the client, and all races are between two requests on one document, of which one may be retried
(two attempts); two fields tell a merged update from a lost one; three timestamps hold an old
value, its successor and the maximum. In the cache a race needs one request that refreshes and one
that waits; the lifetimes 0 and 2 make a response that is stale at once and one that outlives the
cooldown; five instants hold a rotation, a cooldown and a second fetch. In the migration two runs
overlap, an order of targets needs two documents, and one write by someone else is enough to
invalidate an audit. Redirects need two names and two ids for a change of resource or identity, two
spellings and three steps for a loop; numbered walks need a page before, between and after, and the
page numbers at both ends of the range. The filtered lists of the item run have 6, 4 and 2 items, so
that pages divide them exactly, leave a short last page, or exceed them. A request of `http_requests`
is plain except in the parts that the code examines together, since a part that is not examined
before the answer cannot change it; three ranges are needed for a general one, a specific one and one
with a parameter. Token times lie before, at and past each bound, and a call
may begin within and after each of the windows in which the cached keys lag the published ones. An environment with two changes
reaches every pair of rules; a third change would only break a rule twice. What these instances show for safety is proved for all sizes (section 4). Requests are symmetric in `profile_races` and `jwks_cache`, runs in `migration`; runs with a
liveness property use no symmetry. Deadlock is not checked: a model stops once all its requests are answered
and its bounds are reached, which is an end and not a fault.

Fairness. `EventuallyAnswered`, in both modules that have it, assumes weak fairness of `Deadline` alone: the timer of
`tokio::time::timeout` fires whatever the dependency does; nothing is assumed of Firestore, of the
library or of the scheduling of the other requests. `RerunsConverge` assumes weak fairness of
`PhaseFails` (the deadlines of the phases), that the operator runs the command again whenever it
ended, and strong fairness of the steps of a run and of the server: a Firestore that now and then
answers. The last two of these are not in the code: the property says what repeated runs, which the
documentation of the command asks for, then achieve. `EventuallyVerdict` assumes that time passes
(`Tick`) and that the timer of the deadline fires (`Timeout`); the services it asks may stay silent
for ever. `EventuallyExits` assumes that the runtime polls what is ready (`WaitForShutdown`,
`ServeReturns`), that a handler ends (the deadlines of the services see to that: `EventuallyAnswered`
and `EventuallyVerdict`), and that a client completes its body or leaves. The last is an assumption about
clients: the server sets no limit to the time a body takes, so a client that does neither holds the
drain, and `ServeReturns` waits for it.

## 4. What is proved

All theorems hold for every value of the constants that satisfies the assumptions named in the
modules (`RequestsAssumption`, `TokenAssumption`, `LifecycleAssumption`, `DataAssumption`, `ServiceAssumption`, `NoTxAssumption`, `CacheAssumption`,
`NoCacheAssumption`, `MigrationAssumption`, `GitHubAssumption`, `NoValueAssumption`,
`CatalogueAssumption`, `NoCursorAssumption`): any number of users, requests, runs, keys and attempts,
any lifetimes and cooldowns, any limits on pages, redirects and bodies, any catalogue, any tokens, environments and requests. TLC evaluates the assumptions in every run.

* `ProfileServiceProofs`: `Invariance` proves `IndInv`, from which `TypeCorrect`,
  `DefiniteAnswers` (behind every success an attempt was applied that decided it; and without a lost
  reply a definite answer is final, and whatever the call changed is what it reports), `ExactlyOnce` and `StoredReadable` follow, and `DocumentHistory` as a property
  of steps. The invariant is needed because the answers speak of attempts that are over: `Current`
  says that a commit in flight was decided on the document the server still has, so that applying
  it is an atomic execution; `Progress` ties the attempts to the program counter; and
  `NothingLeftBehind` says that, while no reply was lost, an attempt given up for another one can
  no longer take effect. Together they make the answer of the last attempt the answer of the call.
  `NoDeadInitializer` proves `InitializerAlive`; it assumes that no request is named like a state of
  the cell. `ServiceRefinesContract` proves that the service implements `ProfileContract`, step by
  step (`StepMaps`): a commit the server settles, and a closure that settles a call without a write,
  are `Execute`; the answers are `AnswerOutcome`, `AnswerRead` or `Refuse`; a failed commit that is
  retried is `LoseReply` if it lost anything; all else is invisible. It needs, beside `IndInv`, the
  invariant `Traced`: a commit that another one made stale is given up, or outlived by an answer,
  only where a reply was lost or the answer was "unavailable". It assumes that before a commit
  Firestore answers transient and backend errors only; the 404 of section 5 breaks the contract too.
* `JwksCacheProofs`: `Invariance`, `TypeCorrect`, `Exclusion`, `KeysFollowRotation`,
  `PublishedKeysComeIn`, `FetchesAreRationed` and `FailuresAreCurrent`. `Timely` bounds every instant a request still holds by its own lifetime,
  and that by the deadline; `RepliesRecent` says that a response differs from what the provider
  publishes only in keys changed since the request began; `CacheRecent` carries this over to the
  cache; `FailureKept` ties the retry time to the last fetch that completed.
* `ProfileMigrationProofs`: `Invariance`, `TypeCorrect`, `PreflightIsFirst`,
  `SuccessMeansComplete`, `OnlyConversions`, `ReportsAreHonest` and `ReportedChangesAreReal`. `TargetsAudited` says that a run works on what its
  preflight selected, `RunsFresh` that it begins with nothing of its own under way, and
  `VersionsIdentify` that a version names one document: a pinned commit that can still be applied
  converts exactly the document it was made from, whoever wrote in between.
  The two theorems about the report rest on a second induction, `Reported`: a run that lost no reply,
  and was not ended in the middle of its writes, has at most the commit it waits for under way, never
  one that is applied already, and has counted every other. `RealChange` then only has to say that
  no later write brings back a version the audit has read (`ChangeStays`).
* `GitHubClientProofs`: `Invariance`, `TypeCorrect`, `RequestsBounded`, `RedirectsKeepRequest`,
  `LinksComeBack` and `WalksAdvance`, a property of steps. `InFlight` says that a request under way
  was accepted and that the address it asks is among those it visited: it carries the agreement of
  the redirects so far over to the next one, and the range of the page to the links. `WalkBehind`
  orders the pages of a walk below the present one, and that below the next link.
* `ItemPagesProofs`: `Invariance`, `TypeCorrect`, `WalksReadOnce`, `BackwardRetraces` and
  `PagesAdjoin`. The lemmas `IndexOrder` and `IndexOnto` show that the places of the filtered items
  are exactly the numbers below its length, so that `SliceEnds` and `SliceSize` hold as for a vector;
  `WalkAligned` says that the pages of a walk are cut at multiples of the limit, `LinksOfPage` that
  the cursors of any page name its ends. Together all properties of the item run are proved.

* `TokenVerificationProofs`: `TokenIndInv`, `TypeCorrect`, `LookupsAreVerified`,
  `AcceptedTokensWereValid` and `RefusalsHaveCauses`. `LookupOnlyVerified` carries what the claims
  said when they were checked over the awaits that follow (time only makes a token from the future
  one of the present, and its expiry is judged against the begin of the call); `reply \in seen` says
  that an answer on its way is a state the account had during the call. Every final verdict is then
  tied to the token, to `seen` and to the publication of its key, so the two properties follow without
  another induction. What the key cache may answer is taken from its own theorems,
  `KeysFollowRotation` and `PublishedKeysComeIn`, as the guards of `KeyFor`.
* `HttpRequestsProofs` has two inductions. The first, `RequestIndInv`, gives `AnswersTellEffects` and
  `ProfileCallsAreChecked`. `Passed` says what the extractors that ran have established, which is why
  a handler that reads only the body may rely on the query, the user and the size. That every
  execution of a call found the same unless a reply was lost makes a 409 tell that there is a profile,
  and a 404 that nothing was changed; that there is no profile it does not tell, since a missing
  database gives it too. The second, `RequestAnswerInv`, gives `RepresentationIsBest`, `AllowIsTruthful`,
  `AnswersAreDocumented` and `CallsComeAfterChecks`, hence all properties of the run. None of the four
  is inductive, and `AnswerInv` adds what they lack: `HandlerServed` (the handler is the one the
  request is routed to), `FormatNegotiated` (the format is the one negotiated for that handler),
  `ChecksPassed` (no extractor is passed over), `OwnCalls` (a call is the handler's own, so the errors
  it may bring are those of the operation) and `AnswerReady` (an answer already is as its operation
  declares, but for the headers and links that the outer layers add). TLC found no state of the run
  that violates `AnswerInv`. Two groups of lemmas have nothing to do with states:
  * `NegotiationIsBest`: for every Accept field, of any length, `EffectiveQuality` over the ranges
    that parse is `Weight`, and the candidate chosen is the first of the heaviest. The code keeps a
    best match and its quality while it passes over the ranges; the lemma to carry through the pass
    is that these are the precedence and the quality of the heaviest of the most specific matches
    so far. The induction theorems of the library cannot be used, since they take the claim as an
    operator; instead `UpTo` looks at the least number outside the *set* for which the claim holds
    (`LeastNumber`, by `NatLessThanWellFounded` and `WFMin`), and `Pass` shows with it that a function
    defined from each index to the next exists.
  * `TablesAgree`: on every path a method reaches at most one handler, a documented operation its
    own, and `portable_allow` names exactly the routed methods or none. Paths are sequences of any
    segments, so that overlapping routes would show.
* `ServerLifecycleProofs`: `LifecycleIndInv`, `EmulatorsAreLocal` and `AdmittedRequestsEnd`. The
  invariant says what each phase of the start has built from the environment, and that nothing is at
  work and no listener exists before the socket is open.

Only model-checked: the liveness properties (`EventuallyAnswered` in both its modules,
`RerunsConverge`, `EventuallyVerdict` and `EventuallyExits`), because the prover handles neither
fairness nor `ENABLED`. Every other property of a passing run is proved.

## 5. Where code and documentation disagree

`createProfile` documents no 404 (`src/src/http/v1/profile.rs:115-126`, pinned by
`src/tests/openapi_contract.rs`), but `map_firestore_error` maps `DataNotFoundError` of every
operation to `NotFound` (`src/src/services/profile.rs:830`), so a create answers 404 when Firestore
does not find the database or the project. The run `profile_create_status` shows the trace. For the same
reason a 404 of any profile operation does not tell that the profile is absent.

`README.md:71` gives 422 for upstream cursor parameters that are not valid (line 63 gives 400 for
invalid cursors in general). A cursor of the right
scope whose page is 0, above the safe integers or, forward, the first one is refused with 400 by the
handlers (`src/src/http/v1/github.rs:417`), as is a position too long for a public cursor; the
service, which repeats the test, would answer 502 (`src/src/services/github.rs:975`). The run
`github_cursor_status` shows a request.

`llms-full.txt:148-149` asks for one closed JSON object. A JSON array of the
values in the order of the fields is accepted as well (`src/src/http/codec.rs:180-184`), so that
`["Grace"]` changes a first name. No run is about this: the model accepts what the code accepts, and
`ProfileCallsChecked` covers both forms.

## 6. What is not modelled

* The text of data: names, e-mail addresses, phone numbers, document ids, tokens, cursors and the
  syntax of headers, queries, JSON, CBOR and timestamps. What the parsers tell apart is a field of
  the request or a value of a small set; how they find it in the text is left out.
* The projections of GitHub's JSON bodies and the values of its rate limit headers: a body is
  readable or not, and an answer about the limit has one of two sets of headers.
* The schemas that `docs.rs` generates: they are text. The responses it declares are modelled.
* Log lines, log levels and request ids (`telemetry.rs`, and the observability layer): pure output.
* Command-line parsing and the report of the migration command.
* A wall clock outside the years 0 to 9999, which makes a create or an update answer 500.
* `now + ttl` beyond the range of `Instant`: the clock of the model is a natural number.
* Two positions of an activity log that link to each other: the code compares a link with the
  present position only and promises no more, so there is no property to state.

## 7. Order of the work, and what remains

The modules were written in this order: profile service, key cache, migration, GitHub client, item
pages, token verification, request pipeline, life of the server; each with its runs first and its
proofs after; the second induction of the request pipeline came last. Every safety property of the
runs is proved. The key cache and the verification of tokens are composed by contract: the second
relies on the bounds the first is proved to keep. Open for further work: the same for `HttpRequests`,
which takes any verdict of the verifier and any answer of GitHub.
