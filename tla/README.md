# Verification of BlendSDK

BlendSDK (`src/`) is a TypeScript monorepo of twenty packages for business
applications: an Express based server framework (`webafx*`), a PostgreSQL layer
(`dbcore`, `postgresql`, `expression`), a schema and client code generator with a
migration runner (`codegen`), a React client (`react`, `api-client`), and
libraries (`authz`, `i18n`, `blendscript`, `cmdline`, `stdlib`). This directory
holds TLA+ models of the parts whose correctness depends on the order of events and
of the algorithms whose result is hard to foresee, the TLC runs that check them and
the TLAPS proofs about them. It has three layers:

* **protocols** (`MigrationRunner`, `WebApplication`, `ArtifactPublish`,
  `OidcSession`): several actors, failures at every step, large state spaces, a run or
  more for each, and a proof of every safety property but a refuted one;
* **services** (`MCServices`): seven smaller stateful components, one per behaviour,
  whose safety properties are proved, too;
* **algorithms** (`MCAlgorithms`): pure code over bounded inputs, against a
  definition of what its result means; for those that judge or handle a request it is
  proved for inputs of every size.

Paths of the form `codegen/src/...` are under `src/packages/`.

## 1. Inventory

| Component | State | Operations | Hard because |
|---|---|---|---|
| Migration runner (`codegen/src/migration/runner.ts`, `ledger.ts`, `migration-lock.ts`) | ledger table, advisory lock, the database itself, files | `up`, `up --dry-run`, `down`, `status` | several processes, lost sessions whose backend lives on, crashes, cancellation, nontransactional SQL |
| Artifact publication (`artifact-writer.ts`, `generate.ts`, `baseline.ts`) | migrations directory, snapshot file | `generate`, `baseline` | link and rename are two steps; crashes between them; two generates at once |
| Baseline adoption (`baseline.ts`) | ledger, advisory lock, catalog, files | preview, `adopt-baseline` | files and schema change between the preview, the lock and the comparison |
| Migration files (`migration-file.ts`, `config.ts`, `cli.ts`) | none | discovery, `create`, configuration, exit codes | SQL is scanned, not parsed; lost and foreign files; symbolic links |
| Schema diff and SQL (`schema-normalizer.ts`, `schema-diff.ts`, `migration-sql.ts`, `catalog-*.ts`) | none | diff, render, project, compare | the order of statements decides whether PostgreSQL accepts them |
| Code generators (`codegen/src/schema`, `generator`, `database`) | a schema container | types, validators, DDL, introspection | two generators must agree; names are made of names |
| API contract (`codegen/src/generator`, `codegen/src/api`, `api-client/src`) | output directory | `api generate`, `api check`, requests | four conversions between the server's schema and the caller's value |
| Application lifecycle (`webafx/src/application`) | server, started flag, plugins, hooks | `start`, requests, shutdown | requests in flight while services go down; user code that throws in callbacks |
| Service container (`service-container.ts`) | registry of singletons, instances and names in progress per container | `get`, `disposeAll` | any number of `get` calls in flight, recursion over dependencies |
| Requests (`webafx/src`) | settings, routes, windows of the rate limiter | settings, route builder, the middleware chain | order of layers and of sources |
| OIDC sessions (`webafx-auth`) | session store, state store, single-flight map | login callback, refresh, logout, me | refresh against logout, rotation of ids, several processes |
| Bearer tokens and decisions (`webafx-auth`) | introspection cache, token table | introspection, JWT checks, callback, factory, redirects | configurations that are merged per request; cached answers |
| Caches and pub/sub (`webafx-cache`) | entries with expiry, handler sets, Redis subscriptions | get, set, getOrSet, patterns, subscribe, unsubscribe | awaits between the local and the remote change |
| Database access (`dbcore`, `postgresql`) | pool, transaction context, shutdown flag | withTransaction, executeQuery, statements, disconnect | transactions open at shutdown, lost connections, statements left behind |
| API client (`api-client`) | tokens, refresh in flight | request, refresh, invalidate | a refresh that several requests share |
| React providers (`react`) | user, timers, loader count, locale | session check, refresh, logout, setLocale | promises and timers that outlive the state they were started for |
| Authorization (`authz`, `webafx-authz`) | none | profiles, grants, requirements | which claim decides |
| Expressions (`expression`) | none | builder, compiler | precedence, parameters of nested builders |
| BlendScript (`blendscript`) | none | lex, parse, analyze, evaluate | the analysis speaks of every evaluation |
| Command line (`cmdline`) | suggestion counters | strict and legacy parsing, suggestions | two parsers, one configuration |
| Translations (`i18n`, `webafx-i18n`) | catalog | load, merge, lookup, locale of a request, reload | fallback, precedence of sources, overlapping reloads |
| Mailers, pino logger, stdlib, scripts | none | I/O, helpers | nothing that keeps state |

How they interact: the application owns a service registry; every request gets a
container of its own over it; guards resolve the principal (an auth provider's
session) through that container; handlers use the database, caches and pub/sub
as singletons, which the shutdown disposes. The React providers and the API
client talk to the OIDC controller over HTTP. The migration runner runs in
processes of its own, in competition with others, against the application's
database; the files it reads are what the generator publishes, and the SQL in them
is what diff and renderer made of two schemas. The routes of the server become the
client that calls them.

What makes each correct:

* the ledger names exactly the migrations that took effect, whole and once, and
  only one session works at a time; a command's report tells the truth;
* publication leaves a lineage that is a chain, or one that is recognized as broken;
* every `get` settles, instances do not change under their users, singletons are
  made once, the shutdown comes to an end and takes nothing away from a request
  that is still connected;
* a session that was logged out stays logged out; a refresh happens once;
* a subscription that resolved delivers; nothing stale is cached for ever;
* a transaction's client is released once, whatever happens;
* a database has one baseline, of the files that were confirmed and its own schema;
* a migration that is generated arrives at the schema that was desired, on PostgreSQL;
* what is compiled, parsed or generated means what was written;
* who is let in was vouched for, for this application, and not too long ago;
* a handler runs behind everything that was put before it.

## 2. Modules

| Module | Models | Runs | Proofs |
|---|---|---|---|
| `MigrationRunner` | the runner, its ledger and its lock | 2 | `MigrationRunner_proofs` |
| `MigrationHistory` | what the runner promises (abstract) | through `MigrationRunner` | through `MigrationRunner` |
| `ServiceContainer` | `get()` and the registry | through `WebApplication` | through `WebApplication` |
| `WebApplication` | the application's life, with `ServiceContainer` in it | 3 | `WebApplication_proofs` |
| `ArtifactPublish` | `generate` and `baseline` in one directory | 1 | `ArtifactPublish_proofs` |
| `OidcSession` | the OIDC sessions of one browser on one store | 2 | `OidcSession_proofs` |
| `Cache`, `PubSub`, `PostgresDatabase`, `ApiClient`, `ReactClient`, `AuthProviders`, `BaselineAdoption` | the services | 2, through `MCServices` | `Services_proofs` |
| `AuthDecisions` | who is let in, and what a sign-in or an outgoing request accepts | through `MCAlgorithms` | `AuthDecisions_proofs` |
| `Authorization`, `RequestHandling` | grants and access, settings, routes, the limiter, the chain of layers | through `MCAlgorithms` | `Requests_proofs` |
| `RequestCases` | the properties of the last three, for one probe | through `MCAlgorithms` | `Requests_proofs` |
| `SchemaMigration`, `SchemaCatalog`, `MigrationFiles`, `CodeGenerators`, `BlendScript`, `Expression`, `Statements`, `Cmdline`, `Translation`, `ApiContract` | the other algorithms | 2, through `MCAlgorithms` | |
| other `MC*` | instances for TLC (`MCStatements` with expressions, `MCRequests` with translations) | | |

### MigrationRunner

One step is one round trip to PostgreSQL (or the code between two awaits when it
looks at something that others change). `pc` is the position of a command
between two steps:

| `pc` | code |
|---|---|
| `acquire` | `acquireMigrationLock` polls `pg_try_advisory_lock` |
| `locked` | under the lock, before files and ledger are compared |
| `apply` | head of the loop over pending migrations |
| `dispatch`, `body`, `record`, `commit`, `rollback` | a transactional migration: cancellation check, SQL, ledger statement, COMMIT, ROLLBACK |
| `mark`, `markcommit`, `ndispatch`, `nbody`, `final` | a nontransactional one: marker, its COMMIT, cancellation check, SQL, final ledger statement |
| `release` | `finally { lock.release(broken) }` |
| `observe`, `unlock`, `inspect` | `observeHistory` (`status`) |

`LoseSession` kills a session at any point; its backend (`lock = Backend`) still
owns the lock and may execute the statement it was sent (`orphan`) before it
ends. `Crash` kills the process. `ChangeFiles` edits the migrations directory
while a command reads it. `Reconcile` is the operator's repair of an uncertain
row. The ledger records the checksum of the up file; the content of a pair of
files is a "version".

Abstracted: SQL text, durations, application name, error wording, ledger shape
(`readMigrationLedger` validates positions, ids and checksums, which here are
right by construction), and the directory an idle process sees.

### MigrationHistory

A history of checksums and at most one migration in doubt. `Apply` and `Revert`
work at the end of the history only; `Unsettle` puts the next or the newest
migration in doubt; nothing happens while there is doubt but its `Settle`ment.
`MigrationRunner!ImplementsHistory` maps a migration to its checksum when its
row and its effect agree, and to "torn", which is in no history, when they do
not: a torn catalog is a step the abstract specification does not have.

### ServiceContainer and WebApplication

JavaScript runs to the next `await`: `thread` names the call that runs. A call
of `get()` is a stack of frames, one for each recursive activation; `ret` is
what the innermost one has returned and its caller's `await` has yet to see.
`Enter` is `get()` up to its first `await`; `Descend` and `Resume` are the loop
over dependencies; `Create` is everything between the loop and the factory's
`await`; `FactoryReturns` stores the instance and runs `finally`.

`WebApplication` extends it with `start()` (hooks, plugins, listen), requests
(`Accept` makes a container, `Guard` resolves the principal, the handler calls
`get` for what it wants, also several at once), and the function `start()`
returns: flag, `server.close`, the timer that cuts connections off, hooks,
`disposeAll`, plugins, hooks. `MayFail` names the steps that may fail: user code that
throws, and `server.listen` on a port that is taken, which makes `start()` reject. The
step `Rejected` is a rejection inside the `server.close` callback.

### ArtifactPublish

A command is a process that nothing keeps from overlapping another one:

| `pc` | code |
|---|---|
| `prior` | `loadPriorSnapshot` reads the snapshot |
| `list`, `parse` | `discoverMigrations`: `readdir`, one file after the other (`Parse`), `validateGeneratedLineage` (`Validate`) |
| `check` | `validateSnapshotLineage`, the checks of `generateMigrationArtifacts`, the new identifier (`Plan`) |
| `target`, `write` | `renderMigrationSql`, `assertSafeTargets`; the private files are written, flushed and read back |
| `link`, `rename` | the migration gets its public name, then the snapshot is replaced |
| `undo` | `rollbackOwnedFiles` |

A snapshot stands for its bytes and their hash; a migration is its header (`from`,
`to`) and the command that linked it, which stands for the inode. Identifiers are
numbers in the order of the file names; a command may come up with any (clocks
differ, and `options.now` is the caller's). `Undo` may fail to remove the file,
as the comment in the code admits. `RemoveOrphan` is a developer who does what the
torn-lineage message says, assumed to do so while no command runs. `overlapped`
is a history variable. The private files are left out: discovery skips their
names. A power failure that loses a link but keeps a later rename is not modelled.

Two commands with different names that overlap can both report GENERATED and
leave a disconnected lineage; the model has these behaviours, and what it shows is
that the damage is always noticed and the history behind the snapshot still there.

### OidcSession

One browser, whose requests overlap and whose responses arrive in any order or
never; several instances of the application that share the session store and the
state store; an identity provider that accepts one refresh token at a time. `pc`
is what the handler of a request does next:

| `pc` | code |
|---|---|
| `login` | `handleLogin`: store the state, redirect |
| `state`, `exchange`, `store`, `forget` | `handleCallback`: `getState` and its checks; `exchangeCode`, userinfo, `onCallback`; `storeSession` and the cookie; `clearState` |
| `auth` | `authenticate` in front of `me` |
| `read`, `drop` | `getSession`, and its deletion of a session past the absolute deadline; then what `me`, `refresh` and `logout` make of the result |
| `join`, `wait` | `refreshFlights.run` |
| `leave` | `onLogout`, `revokeToken`, `clearSession` |
| `answered` | the response is under way |

`flight[i][n]` is the shared refresh of session id `n` in instance `i`
(`executeSessionRefresh`): `read`, `drop`, `grant`, `store`, `clear`, each one await.
`Settle` answers every request that waits. `FlightFails` is a rejection at any of
them, also after the other side has done its part. `Crash` ends a process with its
requests and flights; `Evict` is the store's own expiry.

Abstracted: tokens are the generation of their sign-in's refresh token, the access
token's expiry and the CSRF check are choices between going on and refusing, a
session id comes back only when nothing refers to it any more. Left out: the session
that a lost answer of `storeSession` leaves under an id nobody was given, sessions
stored by versions without `createdAt`, and the discovery cache.

### The services

`MCServices` extends seven modules, each with variables of its own. `focus` is chosen
in the initial state and never changes: a behaviour exercises one component while the
others stand still, so that the state spaces add up instead of multiplying. The
components share no state in the code either. One step is the code between two awaits.

* `Cache`. `backend` is memory, where an entry lives until somebody looks (`Look`) or
  `Cleanup` runs, or Redis, where it expires by itself. `FillGet`, `FillFactory`,
  `FillStore` are the three steps of `getOrSet`; `ScanStart`, `ScanReply`, `ScanDelete`,
  `ScanDone` those of `deletePattern` on Redis: a SCAN and the DEL of what it found are two
  awaits, and a key may be written or expire in between. `source` is the version of the data behind a
  cached value, which `Update` changes.
* `PubSub`. `handlers` is the map of the client, `subscribed` what the server knows,
  `wire` and `answers` the two directions of the connection, in order. `Serve`,
  `ServeFails` and `Publish` are the server's; `ReadAnswer` and `Deliver` the client's.
* `PostgresDatabase`. `owner`, `alive`, `server`, `writes` describe the pool's slots,
  `context` is the client an `AsyncLocalStorage` leads a statement to. `pipeline` holds the
  statements a slot has under way, which the server runs or refuses in order before it
  answers COMMIT or ROLLBACK. A callback may swallow errors, return while statements of it
  are under way, and leave code behind that starts another one. A connection that is being
  opened (`opening`) is given to its call also after `end()` has begun. `Disconnect`, `PoolEnds` and `TimerFires`
  are the shutdown; `ConnectionLost` may come at any time, also under a COMMIT, which
  is then `doubtful`.
* `ApiClient`. `call` is each request with the tokens it was sent with, `refreshing`
  the shared refresh. `Invalidate`, `Revoke` and `ClockTicks` come between any two steps.
* `ReactClient`. `timerRef` names a timer, `orphans` are timers that are set and that
  nothing names any more. `Effect` is the effect over `[expiresAt, user]`. A request has two
  awaits, the answer and its body, and `mountedRef` is looked at between them, not after the second. The
  application may have kept the context's `refresh()` and `logout()` and call them at any
  time, also after the unmount; `by` tells its refreshes from those of the provider. The
  two providers share nothing but the count of the loader and are exercised one by one
  (`focus` "react" and "i18n").
* `AuthProviders`. Introspection for tenants that may share endpoint and client, and so
  entries. Time is a clock of half seconds, since the code rounds to seconds.
* `BaselineAdoption`. Each adopter reads the files, waits for the lock, reads them
  again, previews or opens a read-only snapshot, compares catalog and ledger,
  inserts its row and commits; files and schema are edited, a migrator works and
  sessions are lost in between.

### The algorithms

`MCAlgorithms` has one variable, `probe`: an input that is built in one or two steps
and then judged by an invariant. Each module defines the code's functions as operators
and its properties as operators over an input; an `MC` module enumerates the
inputs. A probe of `RequestCases` also carries the sets of what it is asked with (tokens,
queries, files, requests and so on), so that the property is a formula over the probe alone
and a theorem can state it for every probe. Where the meaning of a text lies outside the code, the outside is modelled too and
marked external: PostgreSQL executing DDL (`Run` in `SchemaCatalog`), SQL's precedence
(`Expression`), a table (`Statements`), TypeScript's and zod's judgement of a value
(`CodeGenerators`, `ApiContract`), Express's order of layers (`RequestHandling`).

| Module | Code | Input |
|---|---|---|
| `SchemaMigration` | column builder, normalizer, snapshot checks, rename hints, diff, renderer | two schemas of up to three tables, hints, approval |
| `SchemaCatalog` | catalog projector, adoption's comparison, DDL generator | the same, executed |
| `MigrationFiles` | SQL scan, discovery, lineage, `create`, configuration paths, options, exit codes | texts of three lexemes, directories that grow and are damaged, small file systems with links, command lines |
| `CodeGenerators` | schema container, TypeScript and zod generators, introspector | containers of two or three objects with modifiers, databases of two relations |
| `ApiContract` | zod to OpenAPI, hoisting of definitions, client generator and its types, file output and pruning, `blendsdk api`, the runtime client | schemas of two levels, conversions that number alike, routes that share a path, directories with files of all kinds |
| `BlendScript` | lexer, parser, analyzer, record validation, evaluator, limits | trees of two operators over two fields, texts around them, records |
| `Expression` | query builder, compiler | up to three calls, nested once |
| `Statements` | INSERT, UPDATE, DELETE, SELECT builders, data service | one statement, up to two filters, a table with every row of two columns |
| `Cmdline` | configuration checks, strict and legacy parsing, domain and e-mail rules, suggestions | two commands, up to three arguments, sessions of suggestions |
| `AuthDecisions` | bearer checks, memory provider, factory, callback, login, redirects | two issuers, every combination of static and per-request configuration, every answer of the identity provider |
| `Authorization` | profiles, grant map, requirements | claims of three sources in every form |
| `RequestHandling` | settings, route builder, rate limiter, the chain from body to error handler | applications of two routes with files, plugins and requests |
| `Translation` | catalogs, lookup, plurals, content files, locale of a request, reloads | two keys, two files, two sources |

A text is data the property can tell apart, not characters: a migration file is a
sequence of lexemes, an identifier a sequence of letters, a schema a record. Functions
that recurse over a tree are RECURSIVE operators, which the prover cannot see through;
`AuthDecisions`, `Authorization` and `RequestHandling` have none. Their loops are recursive
functions over the positions of a sequence.

## 3. Runs

| Run | Question | Instance |
|---|---|---|
| `runner_safety` | mutual exclusion, truthful ledger, honest reports, refinement | 2 processes, 2 migrations, 2 directories that share no version of migration 1 |
| `runner_liveness` | does every command end, is the lock freed | 2 processes, 1 migration that is nontransactional one way and transactional the other |
| `webapp_safety` | containers, guards, drain and teardown | 2 requests, 3 services, 2 plugins, 2 callers of shutdown; all user code may throw |
| `webapp_liveness` | does every get and every shutdown end | 1 request, 2 services that depend on each other |
| `webapp_singleton` | is a singleton made once (no) | as safety, nothing throws |
| `artifact_safety` | does overlap, failure or a crash ever lose or falsify the lineage, is the named repair enough | 3 commands, 3 schemas, 3 identifiers, symmetric |
| `oidc_safety` | one id per session, one refresh at a time, final logout, fixed deadline, spent codes | 2 requests, 2 instances, 3 ids, 1 sign-in, 2 refresh tokens, a deadline that is reached; symmetric |
| `oidc_logout` | does a logout stick (not against a refresh) | 2 requests, 1 instance, 2 ids |
| `services` | do the seven services keep their promises | see Bounds |
| `services_commit` | does success mean that the transaction was committed (no) | as `services` |
| `algorithms` | do the algorithms' results mean what they should | about 900,000 inputs |
| `algorithms_query` | are several filters combined (no) | as `algorithms` |

### Properties

`MigrationRunner`: `TypeOK`; `OneSession` (mutual exclusion of live sessions, also
against a backend that lives on); `LedgerIsTruthful` (rows and effects agree);
`DoubtIsNewest` (nothing is recorded on top of an uncertain row);
`OutcomeIsHonest` (success, rollback, cancellation and doubt mean what they say);
`ImplementsHistory`; under fairness `EveryCommandReports` and `LockIsFreed`.

`ServiceContainer` and `WebApplication`: `ResolvingFollowsCalls` (the names in
progress are those of the frames, each once, so an error leaves none behind; a factory
runs after those it depends on); `InstancesAreStable`; `RequestHasItsServices` (drain or
cut off before disposal; a handler runs for a principal); `TeardownInOrder`; under
fairness `EveryGetSettles` and `ShutdownSettles`.

`ArtifactPublish`: `SnapshotReachable` (published migrations lead from nothing to
the snapshot, whatever else lies in the directory); `AcceptedIsWhole` (what
discovery accepts is such a chain, though it does not look where the first
migration starts); `CrashOnlyTears` (without overlap, crashes leave at worst the
torn lineage that the message can mend); `TornIsRepairable` (removing newest
migrations does mend it); `RollbackIsOwn`.

`OidcSession`: `OneIdPerSession` (a rotation leaves one id that opens the session);
`TokenIsCurrent` (no flight presents a token the provider has replaced, which it may
take for theft); `LogoutIsFinal` (a logout that no flight was in the way of: no
request already under way brings the session back); `DeadlineIsKept` (no refresh
moves the absolute deadline, also when stores fail and instances compete);
`CodeTakesState` (a redeemed code leaves no state to a replayed callback). All but
`DeadlineIsKept` hold as long as nothing was `disturbed`: no operation failed half
way, no process died in the middle and no two instances refreshed one session at
once. The flights are shared within a process only, as the code says, so two
instances do present one refresh token twice.

The services: `StaleNeedsOpenFill` (a key becomes stale only by a `getOrSet` that had its
value before the data changed); `ReadsAndScansAreHonest` (no entry is returned after its
expiry; a pattern delete misses nothing that stayed); `SubscriptionsAreSound` (a
registered handler is served unless its SUBSCRIBE was refused or an UNSUBSCRIBE is under
way; a message reaches everyone it was owed to); `TransactionsAreSound` (the caller is
told the truth about a transaction unless its COMMIT was lost or poisoned, also by a
statement the callback did not await, and a client serves one transaction at a time); under fairness `DisconnectSettles`; `RetryIsNewer` (at
most one retry, with a newer token, and nobody waits for a refresh that is over);
`SignedOutStays` (only a session check whose answer is still unread signs in again after a
logout); `UnmountIsQuiet` (after the unmount no timer, also none that nothing names any
more, sends a request, the first or the retry, or sets another timer, and no answer that
arrives then is used, only the body of one that had arrived before);
`AcceptedIsCurrent` (a token is accepted for its tenant and audience and is never staler
than the timeout and the lifetime that a tenant of the same endpoint and client gives to an
entry); `AdoptionIsProved` (one baseline, of the files
confirmed and of the schema seen together with an empty ledger).

The algorithms, grouped so that a run can name them:

* `MigrationsAreSound`: `MigrationArrives` (PostgreSQL accepts what `generate` renders,
  the catalog is the desired one, nothing is dropped or renamed unasked),
  `SchemaIsBuilt` (the same for `generate()` of the DDL generator), `ScanSeesStatements`,
  `HistoryIsAccounted`, `ConfigStaysInside`, `ExitTellsOutcome`, `GeneratorsAgree`
  (type, validator and schema admit the same values), `IntrospectionIsFaithful`.
* `ScriptsAreSound`: `ScriptIsSound` (the text reads back as its tree; what the analysis
  says holds of every evaluation; no field is read that it did not name).
* `QueriesMeanTheirTree`: `QueryMeansItsTree` (the SQL, read with SQL's precedence, is the
  tree), `StatementDoesItsWork`.
* `InterfacesAreHonest`: `ArgumentsMeanTheirOptions` (spelling and position do not matter;
  strict and legacy agree where they read alike), `SpellingsResolve`,
  `SuggestionsAreStable`; `LocaleFindsItsText`, `LastSourceDecides`, `ContentIsFound`,
  `LocaleIsAskedFor`, `ReloadsAreHonest`; `TypesAdmitValues`, `HoistingKeepsMeaning`,
  `ClientMatchesServer`, `CheckSeesDrift`.
* `RequestsAreJudged`: `BearerIsJudged` (who authenticates was vouched for, by the issuer and
  for the audience in force), `MemoryAnswersForTokens`, `FactoryIsFaithful`,
  `CallbackIsJudged`, `LoginIsRemembered`, `RedirectsAreSafe`.
* `RequestsAreHandled`: `GrantsAreEarned`, `AccessFollowsClaims` (who has access has it by a
  claim, and who lacks it lacks the claim), `SettingsAreMerged`, `BuilderKeepsTheLast`,
  `LimitIsKept`, `RequestIsHandled` (the layers in front of a handler ran in their order, and
  an answer comes from the first of them that did not pass the request on).

Several of these hold only with an exclusion, which the property spells out and its
comment names (`known` in `MigrationArrives`, an AND after an OR, a poisoned COMMIT, names
that merge): each exclusion is a fact about the code listed below.

Each has a mutant of the code that violates it (`mutants` in PROJECT.json).

### What the violations show

* `SingletonOnce`: two containers that resolve a singleton while its factory is
  awaited call it twice; one instance is never disposed.
* `LogoutSticks`: a logout that is answered while a refresh of the session awaits the
  identity provider is undone: the refresh stores the session again.
* `SuccessMeansCommitted`: a callback that swallows a statement's error returns normally;
  PostgreSQL answers COMMIT of the aborted transaction with ROLLBACK and no error, and
  `withTransaction` reports success. A statement that is still under way when the callback
  returns, and fails then, has the same effect.
* `FiltersAreCombined`: the second `filter()` replaces the tree the first one built.

### What else was found

Facts met while modelling, where the code does otherwise than a doc or a reader
expects. The models contain this behaviour; no run is spent on it. Line numbers are those
of the files under `src/packages/`, docs those of the agent skill
(`.agents/skills/blendsdk/references/packages/`).

*Migrations.*

* `runDown` never looks at `dryRun`: `runMigrations({command: 'down', dryRun: true})`
  reverts (`runner.ts:386`).
* UNKNOWN_OUTCOME on a session that is lost too is replaced by the error of
  `lock.release` (`runner.ts:266`, `migration-lock.ts:126`). A COMMIT of an adoption whose
  answer was lost is reported as a DATABASE failure.
* Dropped constraints come in the order of their names, so a key may come before the
  foreign key that needs it (`migration-sql.ts:399`; `recipes.md:651` says the reverse
  order of dependencies; `DropsInReverseOrder` in `MCAlgorithms` is refuted). Also refused
  by PostgreSQL: dropping NOT NULL of a column before its primary key, reused names,
  dropping tables that refer to themselves. `decimal(p)` without scale, names of
  constraints of a renamed table and nullable identity or serial columns differ from the
  snapshot afterwards. A column's `primaryKey()` makes a unique constraint as well.
* `BEGIN ATOMIC` bodies of functions with their END are refused in a transactional
  migration. Losing the first generated migration is not noticed by discovery, only by
  the ledger. Two manual migrations of one second are sorted by slug.
* The DDL generator drops `default(0)` and `default(false)`
  (`postgres-schema-generator.ts:66`; `recipes.md:1247`), NOT NULL of generated columns
  (`:61`), and adds a foreign key before the key of a table that is declared later
  (`:234`).

*Generators.*

* A second run of the type generator on one container writes `export type Id = Id` for a
  root that is a primitive or a reference (`generator.ts:28`, against `pitfalls.md`:
  generators only read), and the same generator repeats its lines. Cyclic references
  exhaust the stack.
* The zod generator ignores `arrayed()`, `recordSet()`, labels of text enums and a root's
  `optional()`, makes a number of a bigint, declares the validator of a named reference
  under its target's name, and `.partial()` of anything but an object throws (against
  `overview.md:25`).
* A reference that is needed before its target is written becomes `object`. Scope and name
  are joined without a mark, `a__b` gives the identifier `A+b`.
* The introspector types `date` as string, `xid` and `cid` as number, arrays of enums as
  arrays though they arrive as text, enums whose first label is numeric as number, and a
  domain over a domain as any. Its index key joins with `_`.
* zod to query parameters drops `$defs` (`zod-to-openapi.ts:240`). A body that is not flat is
  sent as `{body: ...}` while the server validates the merged object
  (`client-generator.ts:398`; `usage.md:837`). Hand-written `client.ts`, `index.ts` and
  `types.ts` are overwritten (`usage.md:833`). Two names may become one identifier. An array
  of one element in a query arrives as a scalar, an empty one not at all. A secured route
  without a default scheme writes `security: []`.

*Server.*

* Concurrent `get` of two services that share a dependency in one container fails as
  circular (`service-container.ts:181`); a throwing `dispose` leaves the shutdown pending
  (`web-application.ts:732`).
* `start()` reads PORT, SHUTDOWN_TIMEOUT and ENV_MODE before it loads the settings files
  (`web-application.ts:770`); a log level derived from the first file stays
  (`application-settings.ts:148`); a file that fails validation leaves its values.
* `maxRequests: 0` admits one request per window. A malformed JSON body answers 500. A
  builder used after `handle()` changes the route it returned.
* A factory's audience "" switches the static audience off; `createAuthProvider("oidc")`
  accepts a configuration without clientId, which then refuses every token. An
  introspection entry may outlive its token by less than a second, and tenants that share
  endpoint and client share entries whatever their own `cacheTTL`. The discovery cache is keyed by
  the issuer alone (`oidc-auth-provider.ts:1250`).
* Accept-Language beats the cookie and overwrites it; locales of a catalog written with
  "-" are never found; of two overlapping reloads the older may end last.
* A SUBSCRIBE that fails leaves its handler in the map.
* `disconnect()` resolves where its doc says that a timeout throws
  (`postgresql/src/database.ts:352`); a second one rejects; callers that wait for a client
  when `end()` begins never settle.

*Libraries and client.*

* `where(a).or(b).and(c)` compiles to `a OR b AND c` (`postgresql-compiler.ts:141`, against
  `expression/api.md:151`; `AndCombinesWithTheTree` in `MCAlgorithms` is refuted). `clone()`
  loses parameters, a subquery brings a `p1` of its own, an empty list gives `IN ()`.
* Strict mode validates only the last of several values of an option that is not
  `multiple`, legacy mode each; the default of a `multiple` option is a scalar in strict and
  a list in legacy mode; `-n=` is a flag in legacy mode.
* The loader is hidden only by the latest load (`i18n-context.tsx:162`;
  `LoaderIsHiddenInTheEnd` in `ReactClient` is refuted), and `refresh()` never settles
  when its retry timer is cleared.
* `clearAuthState` is to "cancel any pending refresh timer" (`auth-provider.tsx:190`); a timer
  whose place in `timerRef` another one has taken stays set and fires. A `refresh()` that is
  called after the unmount sends its request: `mountedRef` is first looked at when it is
  answered (`:225`). The body of a session check that is read after a logout signs the user
  in again (`:388`).
* The legacy parser gives a handler `[]` for an option of its own that is `multiple` and was
  not given (`cmdline.ts:620`), the strict one leaves it out.

### Bounds, and why they are enough

Two processes are the smallest number that compete; a third adds no new kind of
owner for a single lock that has only "me", "another" and "a dead session's
backend". Two migrations make order matter, and the two directories give an
older deployment, a newer one and an edited file between them; each combination
of transactional and nontransactional up and down files but one occurs. In the
application two requests race for one singleton and one handler races with
itself. Nothing is counted without bound: the number of instances is bounded by
the number of containers, since a container that holds an instance asks for no
other. Three generate commands are one that leaves an orphan or a fork, one that
meets it and one that read before it. Two requests share a flight, or refresh while
the other logs out, signs in or reloads the callback; three ids are a session's old
and new one and one more; two refresh tokens make one stale, and one tick of the
clock reaches the deadline. The bounds `MaxToken` and `MaxNow` stop a refresh that
would go beyond the last token, and the clock. For `ArtifactPublish` and
`OidcSession` the theorems below do not depend
on the bounds.

The services: a cache of two keys, one `getOrSet`, one version after the first and a
clock of `MaxTime` ticks (one key is refilled while a scan visits the other); one topic
with two handlers, `MaxCommands` and `MaxMessages` in flight (one handler comes while the
other goes); two transactions, one plain query and two slots (each may wait, and get a slot
another has just left), and `MaxSent` statements of one under way (the first may fail, and the
second be refused for it); two requests, `MaxToken` tokens and a `Validity` of one tick; two
locales, `MaxRefresh` refreshes (whose retries compete for `timerRef`), `MaxLogouts` logouts
and `MaxLoads` loads (a newer load over an older one); two
introspections of two tokens for three tenants, two of which share an endpoint, and a
cache of size one, so that entries are evicted; two adopters, a migrator and `MaxEdits`
edits, one before the lock and one after it.

The algorithms: each table above says how far the inputs go. Two of a kind is what makes
an order, a clash, an override or a nesting; a third object or call is added where code
treats the middle differently (three tables in a cycle of foreign keys, three calls so
that an AND follows an OR).

### Fairness

`MigrationRunner!FairSpec`: every await settles (the lock wait has a deadline, SQL
has `statement_timeout`, PostgreSQL ends the backend of a closed socket). No
fairness for starting commands, cancelling or repairing. `WebApplication!FairSpec`:
user code's promises settle and the drain timer fires; strong fairness, because a
job is only enabled while no other runs and the event loop's queue is fair.
Nothing is assumed of handlers that answer or clients that leave.
`PostgresDatabase!DbFairness`: a connection that is being opened opens or fails, a query or
statement that was sent is answered or fails, the callback of a transaction returns or throws, `pool.end()` ends when every client is back, and the timer of
`disconnect()` fires. Nothing is assumed of callers that still wait for a client. The other services have no liveness property and no fairness.

`CHECK_DEADLOCK FALSE` in the configurations of the application, of
`ArtifactPublish`, of `OidcSession`, of `MCServices` and of `MCAlgorithms`: a stopped
application stops, commands end, a bounded number of sign-ins, messages or tokens is used
up, and an input that was judged has no next step.

## 4. Proofs

The safety properties of the protocols and of the services are theorems of their specifications,
for every value of the constants, and those of the algorithms that judge or handle a request
for every input; `theorems` in PROJECT.json lists them. TLC evaluates the
assumptions on the constants, named below, in the runs of the module.

`MigrationRunner_proofs` proves, for every number of processes, migrations and
versions and any directories, `TypesHold` (`TypeOK`), `MutualExclusion` (`OneSession`),
`LedgerNeverLies` (`LedgerIsTruthful`), `DoubtStaysNewest` (`DoubtIsNewest`),
`OutcomesAreHonest` (`OutcomeIsHonest`) and `HistoryIsImplemented` (`ImplementsHistory`), from
`ConstantsAssumption` alone (ids are positive numbers, the checksum is a
function, the lock's owners are distinct).

The invariants are built on one another:

1. `Typed`: types, and that a process at a step that sends SQL has a migration
   whose bytes it verified, and an orphan names one too. Needed because SQL is
   sent for `cur`, a number that is 0 between two turns.
2. `Exclusive`: the lock is owned by exactly the live session past
   `acquireMigrationLock`, and only a backend owns it when there is an orphan.
   `OneSession` is not inductive: it does not say that the lock is taken while a
   session is live, so a second could be granted.
3. `Truthful`: `LedgerIsTruthful` and `Prepared`, what the lock's owner finds
   before each statement (`Before`). The ledger's truth is not inductive: COMMIT
   keeps it only if the row was absent (or APPLIED, for down) when the SQL was
   sent, and a session that was lost hands that knowledge to its backend.
4. `Ordered` with `Fresh`: the migration that the owner, or a backend that outlives it, has in
   hand is on top of the history (`Atop`), and the plan made under the lock still fits the
   ledger. `DoubtIsNewest` says nothing of a statement that is under way, which would record on
   top of a doubt that came meanwhile.

`HistoryIsImplemented` has the two parts of a refinement: the initial states map to the empty
history, and each action to `Apply`, `Revert`, `Unsettle`, `Settle` or a stutter. Only the
statements that change the database move the history; `Truthful` says what they find, and
`Ordered` that it is the end of the history. `OutcomesAreHonest` takes each step at which a
command reports, with what the command knows at that step.

Each is proved for `Init` and for every action, one step per action, with lemmas
for the classes of actions that leave the relevant variables alone, and the
statements that change the database (`CommitMigration`, `CommitMarker`,
`RunWhole`, `RunPart`, `FinishMarker`) treated once for the owner and for the
backend (`StatementsAreTruthful`).

`WebApplication_proofs` proves the application's safety properties for any services,
dependencies, requests, handlers and plugins, from `ServicesAssumption` and
`ApplicationAssumption` (a handler's requests include its principal, what is disposed is a
singleton): `ApplicationTypeCorrect`, `ResolvingIsFollowed`, `RequestsAreServed`,
`TeardownIsOrdered` and the action property `InstancesStay`. Dependencies may be cyclic.
`ApplicationInv` consists of

1. `ContainerInv`, of the calls of `get()` on all containers: every frame awaits one of its
   dependencies or its factory (`Stacked`); it was called by the frame below it for what that
   one awaits (`Chained`); the names in progress are those of the frames, each once, and none
   has an instance (`Named`); and the dependencies a frame has passed are in its container
   (`Supplied`). `ResolvingFollowsCalls` alone is not inductive: a `get` that fails deep in a
   chain takes names away, and each must be of one frame only, in whichever call.
   `PushKeeps`, `BumpKeeps` and `LeaveKeeps` treat the three things that happen to a stack, and
   `CallKeeps` makes every step of a `get` one of them.
2. `Served`, what a request has at each of its stages, and `Staged`, what is true from each
   stage of the shutdown on: the registry is emptied only when no connection is open any more.

`ArtifactPublish_proofs` proves every safety property of `ArtifactPublish` for any
number of commands, schemas and identifiers, from `ArtifactAssumption`
(identifiers are numbers, no snapshot is the missing one):

1. `SnapshotAlwaysReachable`, `AcceptedAlwaysWhole`, `TornAlwaysRepairable`,
   `RollbacksAreOwn`, `TypesHold`
   from `Invariant`: every snapshot that something relies on (the present one, one
   that a command has read, one that a migration starts from) is `Founded` on
   published migrations with lower identifiers. `SnapshotReachable` alone is not
   inductive: a command replaces the snapshot long after it read the prior one.
   `CommandFounded` says once what a command must keep; each action shows only
   what it newly relies on. `RepairFounded` shows why the newest migration of a
   torn lineage is none of those that lead to the snapshot. `AcceptedAlwaysWhole`
   needs that a bounded set of identifiers has a greatest one (`NewestExists`,
   from the well-foundedness of `<`).
2. `CrashesOnlyTear` from `Alone`: without overlap, what the one running command
   has read is what there still is.

`OidcSession_proofs` proves every safety property of `OidcSession` for any number of
requests, instances, ids and sign-ins and any bounds, from `OidcAssumption` (the
values that mean "none" and "keep" are no ids, sessions or flights). `IInv` has two
parts.

1. What holds whatever fails: `Codes` (a code is redeemed once), `Secret` (nobody
   knows the id a flight rotates to, so nobody can start a flight for it), `OneLogin`
   (store, flight and a logout that look at one id look at one sign-in's session),
   `Born` and `Deadlines`. `DeadlineIsKept` alone says nothing of the copy that a
   flight holds and stores later. `NothingSeen` is what a step must show: that
   no session appears under an id where it was not seen before. All steps but
   `StoreNew` and `FlightMove`, which use a fresh id, do.
2. What holds while nothing is disturbed: `OneFlight` (per id), `OneHolder` (one flight
   at most holds a sign-in's session, and it is stored under that flight's two ids
   only), `Tokens` and `Final`. None of the properties is inductive: a flight that
   reads a session must know that no other flight has it, which takes `Secret`,
   `OneFlight` and `OneHolder` together (`ReadUndisturbed`).

`Services_proofs` proves the safety properties of the seven services, each for the component's
own specification (`CacheSpec`, `PubSubSpec` and so on, without fairness), of which `MCServices`
runs an instance: a behaviour of it is one of the component in focus, and the others stutter.

| Theorem | Property | Inductive invariant, beside types |
|---|---|---|
| `CacheIsHonest`, `StaleValuesAreFilled` | `ReadsAndScansAreHonest`, `StaleNeedsOpenFill` | `ScanKeepsUp`: what the scan owes is ahead of its cursor, in the reply whose DEL is due, or gone; whoever writes a key in between takes it off the owed ones |
| `SubscriptionsSound` | `SubscriptionsAreSound` | `TopicsAreServed`; `Matched` and `Kept`: which answer on the wire each owed set of handlers is for, and that no answer before it takes one of them away |
| `TransactionsSound` | `TransactionsAreSound` | `Owned` (a caller holds one slot), `Contexts`, `Opened` (a transaction is open only for the caller that owns the slot), `Told` (what was kept and what was reported) |
| `RetriesAreNewer` | `RetryIsNewer` | `Awaited` (those who wait are those the refresh answers), `SentInOrder` (the cached token is newer than the refused one when a request goes back to authenticate) |
| `SignedOutIsFinal`, `UnmountIsFinal` | `SignedOutStays`, `UnmountIsQuiet` | the property; types, with which `FiringSetsNoTimer` shows that a timer that fires, an orphan or not, leaves no new one |
| `AcceptedAreCurrent` | `AcceptedIsCurrent` | `AsksAreCurrent` (how old the question is that an answer is to), `EntriesAreFresh` (which tenant stored an entry, when its token was active) |
| `AdoptionsProved` | `AdoptionIsProved` | `HoldsLock`, `HasSeen` (what an adopter knows at each step), `AuthorsEnded`, `AdoptionsRecorded` |

`AcceptedIsCurrent` is bounded by the lifetime some tenant of the scope gives to an entry, since
tenants that share endpoint and client share entries whatever their own `cacheTTL`.

The assumptions are `ReactAssumption` (`MaxRefresh` is a natural number, so that the number of
a refresh, which names its retry timer, is never the name of the scheduled one),
`CacheAssumption`, `DatabaseAssumption` and `AdoptionAssumption` (the
values that stand for "none" are no value, caller or adopter; times are numbers) and
`AuthAssumption` (a token has at most one expiry; lifetimes, the size of the cache and the timeout
are natural numbers; a `cacheTTL` below zero keeps an answer out of the cache, as zero does). The other components assume nothing.

`AuthDecisions_proofs` and `Requests_proofs` prove what is said of a single input for every
input: configurations with any values, tokens and claims over any set of texts, sequences of
any length.

| Theorem | Property | For |
|---|---|---|
| `BearerTokensAreJudged` | `BearerIsJudged` | every static and per-request configuration, token, keys and time |
| `FactoriesAreFaithful` | `FactoryIsFaithful` | every configuration of a provider |
| `CallbacksAreJudged`, `LoginsAreRemembered` | `CallbackIsJudged`, `LoginIsRemembered` | every query, every answer of the identity provider |
| `RedirectChainsAreSafe` | `RedirectsAreSafe` | every request and every chain of answers |
| `MemoryAnswers` | `MemoryAnswersForTokens` | every history of additions, revocations and removals |
| `LimitsAreKept` | `LimitIsKept` | every limiter with `maxRequests` of at least 1, every time and any sequence of requests, intervals and passing time |
| `GrantsAreAlwaysEarned` | `GrantsAreEarned` | every list of claim keys, grant map and list of allowed permissions |
| `AccessAlwaysFollowsClaims` | `AccessFollowsClaims` | all tokens, user info and requirements |
| `BuildersAlwaysKeepTheLast` | `BuilderKeepsTheLast` | every chain of calls |
| `SettingsAreAlwaysMerged` | `SettingsAreMerged` | every configuration and sequence of files |
| `RequestsAreHandledInOrder` | `RequestIsHandled` | every application of any plugins, routes and layers, every request |
| `RequestsAreAlwaysJudged`, `RequestsAreAlwaysHandled` | `RequestsAreJudged`, `RequestsAreHandled` | every probe; they put the others together |

What they share is a way to reason about loops. The library's induction takes an operator as
parameter, which the provers here cannot instantiate, so `PositionInduction` is stated of a
*set* of positions: one that has 0, and the successor of each but the last, has them all. It
follows from the well-foundedness of `<`. A recursive function is a CHOOSE, of which nothing is
known before something satisfies its equation: `RecursionExists` gives that for a function over
the positions of a sequence whose step is itself a function on a set of states; the set has to
contain the initial state and be closed under the step. Each proof about a loop names that set
(`LimiterStates`, `Drafts`, `Settled` and so on), shows with the two lemmas that the loop
computes what its equation says, and proves the property's invariant position by position.

None of the properties is inductive over its loop. For the limiter the invariant is
`WindowsAreApart`: the requests admitted before a client's open window lie before its start, and
all but the last `max` of those are a whole window older; where no window is open, the same holds
of the present time. `LimitIsKept` (a window lies within any `2 max + 1` admitted requests) says
nothing of where the open window began, and once the interval has removed an entry only the log
knows. For the settings it is `HoldsSettings`: after each file the value of a name is that of the
last source so far that sets it, as long as no file has failed. For the layers of a request
(`Stack`) it is the first position that did not pass the request on, which exists by
`LeastExists`.

Each hypothesis of these theorems is a fact about the code's data, and the inputs of the run
satisfy them. A field that a model writes as a set of at most one element has at most one. A
client error that carries one of the codes of an authorization flow comes from a response with a
status below 500, or none. A chain of answers is longer than `MaxRedirects`, so that it does not
run out before the client gives up, and a request with a content-length has a body. A limiter
starts empty, and time does not go back. The names of the middleware are not those the model
gives to the application's own layers; a route has at most one validation, and at most one
file is loaded for each name; the priorities of plugins are integers. `Foreign`, an entry of a
claim that is not a string, is no text.

Only model-checked:

* liveness under fairness (`EveryCommandReports`, `LockIsFreed`, `EveryGetSettles`,
  `ShutdownSettles`, `DisconnectSettles`), for which the prover has no rule about ENABLED;
* `MigrationsAreSound`, `ScriptsAreSound`, `QueriesMeanTheirTree` and `InterfacesAreHonest`,
  whose functions recurse over trees, schemas and texts: RECURSIVE operators and induction over
  data are outside the prover's reach, and the runs judge them over bounded inputs instead.

The assertions that runs refute are not theorems, of course.

## 5. Plan

Done: the four protocols, the seven services, the algorithms of every package that has any;
the safety properties of the protocols, of the services and of everything that judges or handles
a request as theorems, with one refinement. Next, in this order:

1. Proofs about further algorithms that go through sequences only, each of which needs its loops
   as recursive functions first: the merge of catalogs and the locale of a request in
   `Translation`, the suggestions in `Cmdline`.
2. An abstract specification of the application's shutdown, implemented by `WebApplication`.
3. `create` in `ArtifactPublish`, with the two of one second.
4. OIDC: late responses with rotation that overwrite a newer cookie, and the React provider
   composed with the controller it calls.
5. The builder's `default()`, `generated()` and `identity()` calls in `SchemaMigration`, and
   the order of extensions they bring.

## 6. Not modelled

The map covers about a third of the implementation's lines. It names one definition for
a function; a helper whose lines lie within those of the definition that uses it is not listed
again, and of the definitions for code outside the repository only those are listed that carry
state or a decision. The rest is, by size: type declarations and
option interfaces; comments; the wording of errors, logs, help texts, SQL and generated
source; queries of system catalogs; HTTP, SMTP, file and Redis calls as such; examples and
the scripts of the monorepo (version lockstep, assembling of the umbrella package, the
agent documentation), which run once, by a developer, over files and git.

Components without a model: the mailers (one message, one call of a provider), the pino
logger, `stdlib`, and those scripts. Of modelled components, left out where a property could
have been stated: materialized views, triggers and functions in the DDL generator; the
device and password flows of user code; CORS, compression and uploads, which Express
middleware does; reconnection inside ioredis; `health()` checks. `components` in
PROJECT.json gives each part with its reason. Two hazards have no property: a late response of
a rotated session that overwrites a newer cookie (`oidc-auth-controller.ts:808`), which needs
the browser's cookie jar as a further actor, and the loader of a superseded load
(`i18n-context.tsx:163`), which is refuted, as said above.
