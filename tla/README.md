# CUAC in TLA+

CUAC is a DuckDB extension. A declarative connector package is compiled into an immutable
generation; a query over one of its relations becomes a scan request, a scan plan, and a bounded
stream of batches that fills DuckDB vectors. This directory models the extension twice over: the
parts of it in which threads, time, crashes and failures meet, as state machines; and the way of one
query from the YAML of a package to its rows, as functions composed into one pipeline. TLC checks
both on small instances. For every instance, TLAPS proves every safety property that holds of the state
machines, and that four of them implement a short abstract specification of what they promise.

Paths below are relative to the repository root.

## The system and its parts

| Stream | Part | Sources | Model |
|---|---|---|---|
| Connector Experience | package compiler | `src/connector/compiler/` | `PackageText`, `PackageSchema`, `PackageCompiler`, `PackageCompilation` |
| | connector model | `src/connector/model/` | `CatalogModel`, `GraphqlRecipe` |
| | source acquisition, fixtures | `src/connector/{source,fixtures}/` | not modelled |
| Relational Semantics | predicates | `src/semantics/predicate/` | `RelationalPredicate`, `PredicateClassifier` |
| | planner and plans | `src/semantics/{planner,plan}/` | `PredicateClassifier`, `ScanPlanner` |
| Query Experience | relation binding, filter pushdown | `src/query/duckdb/{catalog,adapter}/`, `src/query/request/` | `RelationalPredicate`, `ScanPipeline` |
| | catalog publication, package lifecycle | `src/query/duckdb/catalog/`, `src/query/composition/` | `GenerationPublication` |
| | credential storage and resolution | `src/query/duckdb/credentials/` | `CredentialStorage`, `CredentialStore`, `CredentialProvider` |
| | execution adapter, introspection, explanation | `src/query/` | not modelled |
| Remote Runtime | plan admission, request materialization | `src/runtime/{admission,policy,executor}/` | `PlanAdmission` |
| | decoding | `src/runtime/decoding/` | `ResponseDecoder` |
| | pagination | `src/runtime/pagination/` | `PageContinuation`; which pages follow, also `ScanStream` |
| | admission controller | `src/runtime/admission/admission_controller.cpp` | `AdmissionController`, `CapacityPools` |
| | rate-limit coordinator | `src/runtime/resilience/rate_limit_coordinator.cpp` | `RateLimitCoordinator`, `QuotaLocks` |
| | scan resource ledger | `src/runtime/policy/scan_resource_accounting.cpp` | `ScanResourceAccounting` |
| | retry and rate-limit loop | `src/include/cuac/internal/runtime/resilience/http_retry_controller.hpp` | `HttpRetryController` |
| | scan streams | `src/runtime/executor/*_scan*.cpp` | `ScanStream` (threads), `ScanPipeline` (data) |
| | generation registry | `src/runtime/generation/` | `GenerationPublication`, `PublishedGenerations` |
| | result cache | `src/runtime/cache/` | `ResultCache` |
| | guidance, transport, network policy, authentication | `src/runtime/{resilience,transport,policy,authentication,api}` | not modelled |
| Ecosystem Compatibility | reload compatibility | `src/ecosystem/reload/` | not modelled (an answer in `GenerationPublication`) |

How they interact. Connector compiles a package; Semantics checks again what it takes from the
compiled relation and plans one scan; Runtime checks the plan once more, fetches pages and decodes
them; DuckDB evaluates what was not proved to be pushed. An executor has one admission controller, one
rate-limit coordinator and one result cache, shared by all its scans. A scan stream owns a ledger and,
for each page, runs one step of the retry loop: it asks the coordinator for quota when a response of
the step was rate limited, the controller for a request permit and for buffers, sends, and repeats by
one of two mechanisms. A cached stream wraps a scan stream. Package statements replace the generation
that later scans are planned against. A credential is resolved by name across DuckDB's memory storage
and the files of the extension.

## Modules

A definition that starts with `Fault:` in its comment is a faulty variant of the definition that
follows it. No specification uses one; each stands for a mistake that some property must catch.

### From declaration to rows

These modules are functions. A partial result is a set of at most one element; a phase that reports
diagnostics returns the set of their codes. Texts are names of a vocabulary with a `Shape` (length,
classes of characters) and, where their encoding matters, a `Spell` (their characters): the rules of
the code that look at characters become rules about shapes, and nothing is put together character by
character except what goes on the wire.

**PackageText, PackageSchema.** The lexical rules and the decoders of the YAML documents: one operator
for each decoder, the set of codes it adds.

**PackageCompiler, PackageCompilation, CatalogModel, GraphqlRecipe.** The compilers of operations,
relations and predicates, the GraphQL renderer, and the constructors of the compiled catalog, which
check everything again and throw where a compiler would have reported. `PackageCompilation` runs the
three in the order of the code; it ends `rejected` (diagnostics), `thrown` or `published`.

**RelationalPredicate, PredicateClassifier, ScanPlanner.** The translation of DuckDB's filters into a
candidate, the matching of mappings, accuracy and occurrence proof, input resolution, operation
selection, the validation of the operation, encodings, budgets, resilience plans and the identity of
the scan in the result cache.

**PlanAdmission.** What Runtime checks of a plan before it opens it and the request it makes of it.

**ResponseDecoder, PageContinuation.** Rows, page information and continuations read from a JSON
value; the four strategies of pagination with every check on what the server names as the next page.

**RemoteService** is external: a service that holds rows, filters by the parameters it knows, pages
(some rows may take up a place in a page and not be shown, which leaves a page short or empty in the
middle) and misbehaves once a response in a chosen way, a dropped continuation included; and DuckDB's three-valued evaluation of the filters.

**ScanPipeline** composes them into the life of one query: `Compile`, `BindGeneratedRelation`,
`GeneratedRelationPushdown`, `Open`, then `FetchPage` once a page. The package, the query, the service
and the profile of the operator are the scenario, which `MCScanPipeline` enumerates in families
(pagination, limits, faults of the service, sparse pages, filters and inputs, selectors, kinds of columns, policies,
secrets, readings, GraphQL).

### State machines

**AdmissionController.** `resources` and `queues` are the counters by kind and dimension (global,
connector, destination, principal, bulkhead); `call` is the queued call of each caller with its ticket;
`permit` what each caller holds; `terminal` the reason of shutdown. `AcquireQueued` is
`AcquireRefused`, `AcquireDirect`, `ExhaustTickets` or `Enqueue`, and `Wake` one turn of the wait loop.
`GrantEligibleLocked` is a loop under the mutex: one grant is one step (`ScanGrant`), `scan` keeps the
mutex for its owner, and the pass ends in `ScanDone` or `ScanThrows`. `Recheck` is the second look at
cancellation that `AcquireQueued` takes after the unlock. The ticket deque is the set of rising
ordinals. `missed` records the kinds whose last pass threw.

**CapacityPools** is what the controller promises: a pool for each kind and dimension, and what each
caller has of a kind. Capacity goes to one caller, or comes back from one, in one step, never beyond a
pool it is charged to; once closed it only comes back. The controller implements it when a grant not
picked up yet counts as had (`Held`).

**RateLimitCoordinator.** `buckets[k]` has the tickets, the embargo (`eligible`) and whether a permit is
out; `totalWaiters` is the shared counter. Every critical section is one action; `holder` joins the
enqueueing and the first turn of `WaitForTicket`, which share one critical section. `Requeue` gives a
permit back and queues again; where the code unlocks before it completes the permit, `Drain` is a step
of its own. A bucket disappears with its last ticket or permit, its embargo with it.

**QuotaLocks** is what the coordinator promises: one lock for each key, given in the order in which
streams asked for it, when nobody in line for the key has been told to wait longer and the stream's own
deadline has not passed. A stream may give up or, with `AskAgain`, give the lock back and join the end of
the line in one step. Closing empties the lines. There is no bucket in it: `Wanted` and `InOrder` read
the lines off the waiting calls and their tickets.

**ScanResourceAccounting.** The ledger as a record, each method as an operator from ledger to ledger. A
method that throws returns a ledger in state `FAILED`. Header, wire and decompressed bytes are checked
and debited alike and are one counter.

**HttpRetryController.** `ExecuteHttpStepWithRetry` split at its waits: `quota`, `admit`, `transport`,
`backoff`, `slice`. `step` has its locals, `held` its scoped authorities. Answers of the controller, the
coordinator and the transport are chosen within what those promise.

**ScanStream** composes the ledger, the loop and the stream: `Pull` is what the pulling thread does
inside `Next`, `RequestStop` the atomic flag that Cancel and Close raise at once, `Cancel` and `Close` the
part that waits for the mutex. `FailPull` is `RememberCurrentFailure` with all it releases. REST and
GraphQL streams and the stream of a single response differ by `profile.protocol`. `MCScanStream` has four
profiles and counts requests sent after cancellation.

**GenerationPublication** composes the catalog coordinator, the registry and the lifecycle statements. A
snapshot is a function from connectors to generations. A statement binds, compiles, reads the registry,
stages (and from then on holds the registry's mutex), publishes (and holds the coordinator's), writes
the catalog, and commits: the catalog first, the lease second. DuckDB's transactional catalog is
external: a write succeeds on the snapshot that was bound or conflicts.

**PublishedGenerations** is what these statements promise together: a statement reads the catalog when it
is bound and publishes, if at all, in one step and on exactly what it has read; the registry follows
before anything else is published and before the statement reports a change; it is dropped only when it
agrees with the catalog, and stays dropped. `Outline` keeps of a statement what it has read and whether
it has committed.

**ResultCache.** `cache` is the map with its byte counter and acceptance order, `entry` the immutable
entries, `streams` the cached streams with their modes. An entry is named by the stream that scanned it
and lives while the map or a stream owns it (`Live`), which is also how long it is charged. The wrapped
stream yields batches in order, ends, fails or is cancelled.

**CredentialStorage.** `dir` is the directory (index, pending index, records), each file with whether
its data was synchronised; `survivors` the directories a loss of power may leave: every state the
directory had since it was last synchronised, and a file not synchronised may have lost its data.
`mutation[p]` is the mutation in progress: its stage (clean a prior intent, publish the intent, write the
record, publish the selection, settle the retired record) and the file-system call it makes next, one
step each. A call fails (`Fails`), the process ends (`Shutdown`) or the power is lost (`PowerLoss`)
between any two. `inst[p]` is what an open instance keeps in memory, `lock` the file lock. `Encode`
reads memory after earlier calls of the same mutation changed it, as the code does.

**CredentialStore** is the abstract specification: a map from names to revisions, changed one name at a
time, with the set of maps a loss of power may bring back; a mutation is acknowledged only when that
set is the current map alone. `CredentialStorage` implements it under the mapping that reads the map
off the index file (`Selection`), and `ImplementsStore` is that statement.

**CredentialProvider** adds DuckDB's memory storage (external), the flag that says whether it may hold a
credential, and resolutions that look at the two storages one after the other.

The modules that end in `Proofs` hold the theorems; the `MC` modules give constants and histories.

## Runs

| Run | Shows | Distinct states |
|---|---|---|
| `admission` | exact and bounded counters, no stranded ticket, order within a key, shutdown is final, truthful results, every queued call returns | 163,536 |
| `rate_limit_coordinator` | one permit a key, exact waiters, the coordinator implements `QuotaLocks`, truthful results, every wait returns | 221,460 |
| `rate_limit_embargo` | a violation, see Findings | |
| `scan_stream` | one aggregate bounds the scan, requests are authorised, waits hold nothing, only unaccepted pages are repeated, rows are conserved, nothing is held after the end, cancellation stops requests, every pull returns | 359,281 |
| `generation_publication` | catalog and registry agree, the statements implement `PublishedGenerations`, no leaked lock, a reported change is active, every statement ends | 83,348 |
| `result_cache` | exact bytes, live storage admitted, one whole scan delivered, truthful status | 590,149 |
| `stale_matrix` | a violation, see Findings | |
| `scan_pipeline` | rows are exactly those asked for, and what each stage accepts the next one accepts, up to named exceptions; admitted scans finish within what was declared | 14,209 |
| `cache_identity`, `superset_admission` | violations, see Findings | |
| `credential_storage` | what is selected is readable, no orphaned payload, a restart sees what the live instance sees, ambiguous names fail, the files implement a durable map | 563,428 |
| `credential_authority` | a violation, see Findings | |

To repeat one: `tlc -config ScanStream.cfg MCScanStream`.

### Named exceptions of the pipeline

`RowsExact` holds up to four ways a scan can end unseen (`EndsUnseen`, listed under Findings), in which
it gives an initial part of the rows. Three more properties of `scan_pipeline` say that a later stage
accepts what an earlier one produced. Each holds up to a closed list of declarations, written out in
`ScanPipeline`, which the run shows to be complete for the scenarios:

- `CompileTotal` (`RefusedByModel`): a constructor of the model throws, with no diagnostic, for a REST
  path with a trailing slash, for a `page_size_parameter` without a `page_size` or without a query field
  of that name, for cardinality one with pagination, and for a GraphQL column whose extractor is not its
  field path.
- `CompiledIsPlannable` (`BeyondPlanner`): a published relation cannot be planned when it declares more
  than 32 pages a scan, when a GraphQL endpoint has a trailing slash, and when the first destination of
  its credential is not the origin of the operation. One such operation makes the relation unplannable.
  Further differences of the same kind lie outside the scenarios: 32 GraphQL headers besides
  Content-Type, a FIXED DOUBLE whose text has a `+` in its exponent.
- `PlannedIsAdmitted` (`BeyondRuntime`, `TooNarrow`): Runtime refuses the superset of an exact mapping
  (a finding), columns read from inside each other, hosts that look like IPv4 addresses, a credential
  placed where a header or query field already is, and plans wider than the operator's profile. Outside
  the scenarios: headers close to 16 KiB and targets close to 8192 bytes that grow with the page number.
- `AdmittedScansFinish` (`OutgrowsDeclaration`): among others, a `short_page` scan whose last page is full
  and brings it to exactly `max_records_per_scan` fails, because only another page could say that there is
  no more.

### Bounds

- `admission`: two callers of one identity queue for requests and reserve buffered bytes; limits of one
  and two make every dimension block; amounts up to the limit, so that growth fits, is refused, or is
  more than is ever allowed; three ordinals let the counter run out while a ticket waits; the wait
  policies make each of the three deadlines first.
- `rate_limit_coordinator`: two keys under a total of two let one key fill the other's room; three
  streams let one wait behind a permit while a third extends the embargo; three tickets let the counter
  run out.
- `scan_stream`: two pages (one for the single response) of up to two rows, up to three attempts a
  page, fewer attempts for the scan than the pages would allow together, so that the scan's ceiling and
  the page's both bite; GraphQL with a body budget that the third attempt uses up; two quota buckets,
  for the response that changes the bucket; a deadline that falls inside every wait.
- `generation_publication`: two contexts and two generations suffice for each pair of overlapping
  statements on the same and on different connectors, with Close at any point.
- `result_cache`: three keys against two entries force eviction by count, sizes of one and two against
  three bytes eviction by bytes, an admission limit of four refuses candidates while evicted entries are
  replayed. Time stops at two, past both windows. Streams and keys are symmetric: no definition tells
  them apart, and the run checks no liveness.
- `scan_pipeline`: every scenario is one package, query, service and profile. A family varies the fields
  that interact and takes each at, just below and just past its limit; services have up to six rows, so
  that pages are empty, short (the last one or one in the middle), full and one too many. `MaxBigint` and `MaxUnsigned` stand for the largest
  values of their types: TLC's integers have 32 bits. No scenario comes near them except to reach them.
- `credential_storage`: two names, two instances, two records and two faults: a fault in a mutation and
  another one in the recovery from it, while one record replaces or joins the other. Two names never reach
  the limit of live records (`MaxLive`), so its refusal is not exercised. The theorems about the storage
  have none of these bounds.

`MaxTime` ends the clock, so behaviours near it can stop; the runs with liveness therefore choose
deadlines within it. `ResultCache` does not check deadlock, because a stream is used once and the system
ends when all are closed.

### Fairness

- A thread that waits on a condition variable wakes by notification or by its bounded wait and gets the
  mutex in the end: strong fairness of the turns that return (`WakeGranted`, `WakeLeave`, `Recheck`, and
  in the coordinator `TurnClosed`, `TurnCancelled`, `TurnGranted`, `TurnTimedOut` and `Drain`), because
  others take the mutex again and again. A turn that goes back to waiting ends (`TurnWaits`, weak).
- A pass or a pull that runs keeps running: weak fairness of `ScanStep` and `Pull`. A Close that somebody
  asked for gets the stream's mutex in the end: strong fairness of `Close`. Nothing obliges anybody to
  cancel.
- Callers are not obliged to release or complete anything: no fairness there. The liveness properties
  hold because every wait has a deadline and the clock advances (`Tick`).
- In `GenerationPublication` statements run on, and `try_lock_for` in a loop gets a mutex that becomes
  free again and again: strong fairness of `Stage`, `Publish` and `RegistryDrops`. Transactions are
  assumed to end.

## Proofs

TLAPS proves the following for every value of the constants that satisfies the named assumptions. Each
proof is an inductive invariant, one lemma for each action, and a last temporal step.

**AdmissionControllerProofs**: `TypeCorrect`, `UsageConserved`, `LimitsRespected`. UsageExact alone is not
inductive: a step that subtracts what a permit holds needs to know that a call being rechecked holds
exactly one unit, and that a queued or granted one holds none besides its ticket. `IInv` is the counters
equal to the cardinalities of the sets of units and waiters (`ResourcesOK`, `QueuesOK`), the bounds, and
what each phase says about its permit and the pass (`PhaseOK`). The core is `UnitsChange`: when one
caller's holding changes, the number of units over a set of callers changes by the difference if the set
contains that caller. `ResourceStep`, `QueueJoin` and `QueueLeave` lift it to all dimensions at once.
Assumptions: `CallersAssumption` (finitely many), `KindsAssumption` (a kind queues or does not),
`LimitsAssumption`, `WaitsAssumption` and `BoundsAssumption` (natural numbers).

**AdmissionServiceProofs**: `NoTicketStranded`, with the strengthening `OthersServed` (while a pass runs,
every kind it does not look at has nothing to grant), and the action properties `FirstComeFirstServed`,
`TerminalIsFinal` and `ReturnsTruthful`. `ControllerImplementsPools` is the refinement of `CapacityPools`.
A grant by a pass is already the step that takes; picking it up is a stutter, and so is the second look
at cancellation unless the call was cancelled and gives the unit back. That a pool is never exceeded follows from the exact counters
of `IInv`: the sum over the callers charged to a pool is the counter that the code compares with the
limit. No run checks this one: it is stated for the theorem.

**RateLimitCoordinatorProofs**: `OneAuthority`, `WaitersCounted`, `GrantsOrdered`, `ReturnsTruthful`. That at
most one stream has the permit of a key rests on where tickets and permits can be: every ticket of a
bucket belongs to exactly one call (`TicketsOwned`), every waiting call has its ticket in the bucket of its
key (`CallsQueued`), a bucket exists while anything is in it (`BucketsLive`), and a call that is about to
drain a permit still has it (`DrainsHold`). `CInv` adds the counts: the shared counter is the number of
tickets and permits. `CoordinatorImplementsLocks` is the refinement of `QuotaLocks`, which implies the
order of grants and that nothing is granted after a close. Its lemmas say how the lines change: a stream
that queues is last, for every ticket in a bucket is smaller than the next (`LineJoined`), and one that
leaves disturbs nobody (`LineLeft`). A throw inside the wait loop is a stream that gives up, a saturated
or refused `Acquire` a stutter. Assumptions: `SetsAssumption` (finitely many streams and keys) and
`NumbersAssumption`.

**GenerationPublicationProofs**: `LocksHeld`, `CatalogFollowed`, `UpdatesKept`, `ChangesReported`. A
statement commits a snapshot it took long before, so the invariant says what a snapshot is still worth at
each phase: while a statement holds the lease, what it saw of the registry is the registry
(`SeenCurrent`); while it holds the guard, the catalog is where the statement found it or put it
(`BaseCurrent`), and what it publishes is a change (`GuardedChange`) to a generation newer than those of
its base (`Numbered`). `PublicationImplemented` is the refinement of `PublishedGenerations`, which implies
that no update is lost: `CommitCatalog` is the publication, `LeaseCommit` the registry that follows, and
everything between the binding and the commit a stutter. Its guard, that nothing has changed since the
statement was bound, is `BaseCurrent` and `SeenCurrent` at the commit, although the code compares the two
long before. Assumption: `PublicationAssumption`.

**ResultCacheProofs**: `CacheInvariant`, `OneScanDelivered`, `StatusTruthful`. What a stream delivers is
compared with a scan that may have ended long ago in another stream. `IInv` therefore says of every entry
that the map or a stream can reach that it is a whole scan, and that the scan has ended (`MapWhole`,
`RefersWhole`); an ended scan no longer changes, so neither does what its entry has to be. `ModesOK` says
for each mode how far the stream is between its candidate, the entry it replays and what it has
delivered. Eviction is left abstract: it only takes keys out of the map. Assumption: `NamesAssumption` (the
name for nobody is no stream).

**ResultCacheBytesProofs**: `BytesInvariant`, `ResidentExactHolds`, `ResidentBytesAdmittedHolds`, on top of
`IInv`. Both properties compare a counter with a sum. `BInv` says that what is charged is what is stored:
a stream's permit is the size of its candidate and an ended stream keeps nothing (`Keeping`), an entry's
permit is its size (`Priced`), the counter of the map is the sum over its keys and every entry in it is
older than the next (`Exact`). The charge follows the bytes from candidate to entry because, by `IInv`,
nobody owns an entry of a stream that has not ended its scan, so a publication never writes over a live
one. That every entry is older than the next is what lets eviction, which goes by age, always reach
the limits. Sums are `SumFunctionOnSet` of the community modules; the first part of the module shows
that they are additive and do not depend on the order of elements, by taking a smallest set for which
that would be false. Assumptions: `LimitsAssumption` (the limits are numbers, those of the cache
positive) and `FiniteAssumption` (finitely many streams and keys).

**ScanStreamProofs**: `StreamInvariant`, and from it `AggregateRespectedHolds`, `TransportAuthorisedHolds`,
`WaitsHoldNothingHolds`, `ReplayOnlyUnacceptedHolds`, `RowsConservedHolds`, `NothingHeldAfterEndHolds` and, with
the history of `MCScanStream`, `CancelStopsRequestsHolds`. None of these is inductive: each speaks of one
moment (a request in flight, a wait, the end) and holds because of what happened in every phase before
it. `StreamInv` says for each phase of a step what it holds (`HeldAt`), in which state the ledger is and
which page is asked for (`StepLedger`); for each point of a pull, whether a page is loaded, and then that
what was emitted and what is left of it add up to what the ledger counted (`Open`, `Loaded`, `Unloaded`);
and of the ledger that no counter passes its ceiling and that a request is paid for before it is sent
(`LedgerInv`). One lemma for each method of the ledger says what it debits or how it fails, one for each
turn of the step that it keeps the phase's promise (`Turned`), one for each action of the stream that
the whole follows. For cancellation, `Doomed` is the part of a scan after which no request can follow
without another look at the flag; the first request after a cancellation leads there, and nothing leads
back. Assumptions: `RetryAssumption` (profiles that `ValidateProfile` accepts) and `StreamAssumption`.

**CredentialStorageProofs**: `StorageInvariant`, `SelectedReadableHolds`, `NoOrphanRecordHolds`,
`LiveMatchesRestartHolds`, `StorageImplementsStore`, and for the provider `ProviderKeepsStorage` and
`CollisionFailsHolds`. A loss of power may come at any call, so the invariant is about every surviving
directory and not only the current one: each is `Sound` (a whole index, a whole record for every name,
no record that is neither selected nor to be cleaned up). `Working` says what each stage of a mutation has
prepared: the pending index is the encoded one and whole before it is renamed (`Prepared`), the intent
names the new record from before it is written until it is selected (`Intended`, `Recorded`), no
survivor selects the new record early (`Unused`), and past the commit all survivors select the same
(`Durable`), which is what an acknowledgement promises in the abstract store. `StorageImplementsStore` is
the refinement: `RenameIndex` is the store's mutation, synchronising the directory its synchronisation,
`PowerLoss` its own, and every other call a stutter. A provider's steps leave the files to the storage
(`ProviderKeepsStorage`), so that all of this holds beside DuckDB's memory storage; that ambiguous names
fail then rests on the flag being set before a temporary secret exists. Assumptions:
`CredentialAssumption` and `ClientAssumption`.

TLC evaluates all these assumptions in the runs that extend their modules, and checked each inductive
invariant as an invariant of its run's instance before it was proved.

Only model-checked: liveness (`EveryCallReturns`, `EveryWaitReturns`, `EveryPullReturns`, `EveryStatementEnds`),
for the prover has neither fairness nor ENABLED; and the properties of the pipeline (`RowsExact`,
`CompileTotal`, `CompiledIsPlannable`, `PlannedIsAdmitted`, `AdmittedScansFinish`, `WithinDeclared`), whose
modules use recursive operators over filters and JSON values, and whose lists of exceptions are complete
for the scenarios and not for every package.

## Findings

- **The embargo of a key can be shortened.** `docs/RUNTIME_CONTRACTS.md:925`: "A later response may extend
  but never shorten the key's embargo." `EraseTicketLocked` (`rate_limit_coordinator.cpp:142`) and
  `Permit::Complete` erase a bucket, and the embargo in it, when neither ticket nor permit remains. A
  waiter that is cancelled or times out takes the embargo with it. Run `rate_limit_embargo`.
- **The stale-eligible matrix is wider than documented.** `docs/RUNTIME_CONTRACTS.md:1229`: "The initial
  stale-eligible matrix is closed to transient transport failures, fully received 502/503/504, and
  declared rate-limit exhaustion." `IsEligibleStaleFailure` (`cached_scan_stream.cpp:421`) takes every
  failure of stage TRANSPORT or HTTP_STATUS; a 404 is one. Run `stale_matrix`.
- **A replaced credential can lose its authority.** `docs/RUNTIME_CONTRACTS.md:538`: "Replacement retains
  authority and changes revision". `StorePersistent` (`credential_storage.cpp:901`) looks the name up and
  then calls `CleanPriorIntent`, which, when a cleanup is pending, replaces the map that the iterator
  points into; the authority is then read through that iterator. Run `credential_authority`.
- **The cache identity of a scan leaves out its inputs and its operation.** `docs/RUNTIME_CONTRACTS.md:1190`
  lists "ordered resolved inputs, complete selected operation identity" among what it takes in;
  `BuildCanonicalRepresentation` (`scan_planner.cpp:143`) takes in neither. Two scans that send different
  requests can have one identity. Run `cache_identity`.
- **A superset of an exact mapping is planned and then refused.** `Classify` plans an exact mapping next to
  a conjunct that is not pushed as SUPERSET with the mapping's own occurrence proof, and the planner's tests
  require the binding to be kept; `TryAdmitSelectedEquality` (`rest_relational_admission.cpp:55`) takes
  SUPERSET only with another proof, so that the query fails when it is opened. Run `superset_admission`.

Not findings, but worth knowing:

- Some scans end before the rows do and no response tells: `response_next` over a document whose records
  are the root array, which compiles and never finds a continuation (`json_decoder.cpp:279`); `short_page`
  on a service with a short page in the middle, for which `docs/RUNTIME_CONTRACTS.md:765` says that there is
  no cross-check; a service that drops a continuation; and a package that declares one page of several.
  `EndsUnseen` names these four cases, the scenarios contain each of them, and there `RowsExact` asks for an
  initial part of the rows instead of all of them. Without any one of the four the run finds a violation.
- Connector form-encodes a DOUBLE in a fixed parameter; Semantics and Runtime send `%.17g` as it is.
- A stream answers a pull after Close with the end of data, also when it had failed before.

## Not modelled

- *Transport, network policy, authentication.* Blocking I/O through libcurl, tables of address ranges, and
  the decoration of requests. What the rest of the system sees of them is a choice of outcomes in
  `HttpRetryController` and a response in `RemoteService`.
- *Rate-limit guidance and clock.* Arithmetic on header values at the full width of 64 bits, which TLC's
  integers do not have; a response has a delay and a bucket. The overflow check at
  `rate_limit_guidance.cpp:304` is therefore covered by no property.
- *Package source acquisition, YAML, digests.* Sequential code on bytes. What the check of custody at
  `package_source.cpp:129` can miss depends on the file system and its time stamps, which nothing under
  `src/` determines.
- *Character grammars*: the parts of `uri_reference.cpp`, of quoted strings in a Link header, and of JSON
  tokens are flags of the values that the models read.
- *Reload compatibility*: a comparison of two immutable values, an arbitrary answer in
  `GenerationPublication`.
- *Execution adapter, introspection, explanation, registration, fixtures*: they read, format or copy. The
  adapter's calls (a pull, Cancel and Close from another thread) are the environment of `ScanStream`.
- *Observations* that admission and cache record for diagnostics: no control depends on them.
- Inside modelled parts: the creation of the credential directory at the first open, the encoding of
  credential payloads, and which of several diagnostics is reported.
