# A TLA+ model of gorest

gorest is a Go framework for REST APIs: it reads a configuration, opens a
database, loads plugins, runs migrations, and serves generated CRUD resources
behind authentication and role checks.  These modules model the parts of it in
which several actors, failures or long sequences of legal calls decide whether
it is correct.  Line numbers refer to the source beside this directory;
`PROJECT.json` maps every definition to the lines it stands for.

## 1. The system

| Component | State | Operations | Who it interacts with |
|---|---|---|---|
| refresh tokens `auth/refresh` | table `refresh_tokens` (hash, user, expires_at, revoked_at, replaced_by) | Issue, Validate, Rotate, Revoke, RevokeAllForUser, DeleteExpired | handlers, cleanup goroutine, application code |
| auth handlers `auth/handlers` | locals of one request; `users` | register, login, refresh, logout, me | refresh tokens, CRUD of users, JWT |
| auth middleware `auth/middleware`, `rbac/middleware.go` | locals of one request | authenticate, load roles, require a role | role tables |
| cleanup goroutine `auth/auth.go` | ticker, stop channel | DeleteExpired every interval | races the handlers; the pool |
| migrator `migrations/migrator.go` | call in progress | Up, UpOne, UpTo, UpWithOptions, UpSource, Down, DownTo, RunOne ... | lock, tracker, dependency order; other processes through the database |
| lock `migrations/lock.go` | advisory lock of the database, owned by a connection | Acquire, Release | connection pool |
| tracker `migrations/tracker.go` | table `schema_migrations` | record, record failure, remove, force, dirty check, checksum check | migrator, CLI repair |
| source dependencies `migrations/dependency.go` | none | Resolve, OrderMigrations | migrator |
| plugin loader `pluginloader`, `plugin` | factories, registry | LoadPlugins, InjectSharedConfig, SetupPluginEndpoints | start-up |
| start and shutdown `gorest.go` | phase of the process | Start, runMigrations, shutdown | everything |
| CRUD `crud`, `processor`, `hooks` | none but the database | Create, GetAll, GetAllPaginated, GetByID, Update, Delete with hooks around them | application hooks, query builder, pool |
| pagination `pagination` | none | navigation links from page, limit and total | CRUD |
| RBAC `rbac` | role tables, hierarchy, audit log | role closure, field filters, AssignRole, RemoveRole | hooks, middleware, user CLI |
| user CLI `cmd/user` | none but the database | create, password, promote, demote | `users`, RBAC repository |
| query builders `query` | a builder under construction | clauses, conditions, expressions, placeholders | CRUD, filters |
| filters, ordering `filter` | a FilterSet | parse a query string, write a clause, fill a builder | processor, query builders |
| database `database` | connection pool | Query, Exec, Begin, Close | everything |
| config, fixtures, serialisers, HTTP middleware | none that outlives a call | string work | — |

What is hard, and what makes each part correct:

* **Refresh tokens.**  Handlers run concurrently; Rotate validates a row, then
  exchanges it in a transaction of its own.  Correct means: a token is
  exchanged once, its replacement and its revocation appear together, a reuse
  ends the family, a dead token stays dead, and the table is cleaned up without
  losing a row that reuse detection still needs.
* **Accounts and roles.**  A registration checks an address and inserts it in
  two statements, a command changes a role and logs it in two, a login decides
  on a row read earlier, a guard on roles read earlier; every statement may
  fail, also after it was applied, and nothing spans two.  Correct means: one
  account per address, refusals that have a reason, sessions only for who knew
  the password, admission only for who held the role, an audit log that is true.
* **Migrations.**  Several processes start on one database, over three drivers
  with different transactional behaviour; a migration and its record are two
  transactions.  Correct means: one at a time, records that tell the truth, a
  failure or a modified migration stops later runs, and no call hangs.
* **Start-up.**  Plugins and migration sources are ordered by dependency over
  maps whose iteration order is random.
* **Serving.**  Rows hold a connection while hooks run that may want another;
  the pool is closed under whoever still runs.  Correct means: nobody waits for
  ever while hooks that query are few, no connection leaks, the process exits.
* **CRUD.**  Page and total come from two statements; rows affected are
  ignored; what hooks withhold shrinks a page.
* **Query builders.**  Text and arguments are collected apart, by calls in any
  order, and subqueries are renumbered by replacing text.  Correct means: every
  value is bound where it was given, and the clause means what was asked.
* **RBAC.**  Role closure must terminate on any hierarchy, and what it grants
  must bound what is served and stored.

The complete list, at the lines where it bites, is `hazards` in `PROJECT.json`.

## 2. Modules

| Module | Models |
|---|---|
| `TokenLifecycle` | abstract: the life of a refresh token |
| `RefreshTokens` | the token store, the handlers that use it and the cleanup goroutine; implements `TokenLifecycle` |
| `MCRefreshTokens` | symmetry for TLC |
| `RefreshTokensProofs` | theorems about `RefreshTokens` |
| `Migrations` | migrator, lock, tracker and repairs, over PostgreSQL, MySQL and SQLite |
| `MCMigrations` | two sources of one migration each, two processes of two builds |
| `MigrationsProofs` | theorems about `Migrations` |
| `DependencyOrder` | abstract: items come out once each, after the items they need |
| `PluginLoading` | LoadPlugins with the sort of plugins; implements `DependencyOrder` |
| `SourceResolver` | the sort of migration sources; implements `DependencyOrder` |
| `Startup` | Start up to the moment it serves; composes the two sorts |
| `MCStartup` | three plugins, a name without factory and a core source, with every graph between them |
| `StartupProofs` | theorems about the two sorts and `Startup` |
| `RoleHierarchy` | the expansion of roles; used by `Rbac` and `Accounts` |
| `Rbac` | tags and what they let a caller read and write |
| `Crud` | one generated resource: handlers, CRUD calls with their hooks, listings and the links between pages; extends `Rbac` |
| `MCCrud` | articles with drafts, trashed rows and private notes, four callers |
| `CrudProofs` | theorems about `Rbac` and `Crud`, its listings, their links and totals included |
| `Accounts` | registration, login, the user command, role assignments with their audit log, and the guards of routes; extends `RoleHierarchy` |
| `MCAccounts` | one old account, two addresses, a role that inherits another |
| `AccountsProofs` | theorems about `Accounts` |
| `Serving` | the connection pool under requests, hooks and the cleanup, and the shutdown |
| `ServingProofs` | theorems about `Serving` |
| `SqlText` | SQL as a sequence of tokens, its placeholders, and renumbering |
| `Queries` | conditions, expressions and the SELECT statement; extends `SqlText` |
| `Filtering` | filters and orders of a query string; extends `Queries` |
| `Builders` | the five builders and a FilterSet, method by method; extends `Filtering` |
| `Reading` | what a statement means: its text read back with SQL's precedence, against what was asked for; extends `Builders` |
| `MCBuilders` | trees that nest, share no value and reach two-digit placeholders |
| `BuildersProofs` | theorems about `SqlText`, `Queries`, `Filtering` and `Builders` |
| `ReadingProofs` | theorems about what the statements mean: `Reading`, on top of `BuildersProofs` |

### RefreshTokens

A row is one element of `Tokens`: plaintext, hash and id are drawn together and
never repeat.  A handler is an element of `Reqs` whose locals are functions of
it (`arg`, `seen`, `fresh`, `draft`, `out`) and whose position is `pc`:

| Action | Code |
|---|---|
| `StartIssue`, `InsertIssued`, `IssueFails` | Issue from login and registration |
| `StartRefresh`, `Lookup`, `LookupFails` | the handler's entry, `lookup` |
| `Refuse`, `DetectReuse`, `Accept`, `GenerateFails` | Validate's decision on the row it read, and the token drawn before the transaction |
| `RevokeFamily(Fails)` | RevokeAllForUser inside Validate |
| `CommitRotation`, `RotationFails` | the rotation transaction |
| `Deliver`, `LoseReply` | the answer reaches the client or does not |
| `Logout`, `RevokeAllForUser` | revocation from outside |
| `SweeperFires`, `DeleteExpired(Fails)`, `SweeperStops` | the cleanup goroutine |
| `Crash`, `Tick` | the process dies; time passes |

A statement that reports an error may or may not have been applied: both are
behaviours of the `...Fails` actions.  `stored`, `parent`, `dead`, `known`,
`burned` and `contended` are history variables: no guard of a handler step reads
them except for the freshness of a random draw.  `contended` collects the tokens
of which two refreshes were in flight at once.  Revoke and its lookup are one
step in `Logout`, because the UPDATE decides on the row as it finds it.

### Migrations

A migration's effect is the number of times its Up ran without a Down
(`schema`); its row is `record`.  A process (`Procs`) is a server at start-up or
a CLI; `kind` names the operation, `want` what it selects and `todo` the set of
migrations left of its plan, worked off in the order of `Rank` (OrderMigrations)
or, downwards, of `Version` (`At` is the next one).  `Unsettled` are those whose
transaction or record a process still owes.  A step is at most one transaction:

| Action | Code |
|---|---|
| `Start`, `Acquire`, `AcquireTimesOut`, `Release` | entry of the operation and its deferred Release, lock.go |
| `ReleaseFails` | the deferred Release whose error nobody reads: not sent because the context is over, lost with its connection, or executed by another connection of the pool |
| `AcquireAtOnce`, `AcquireAgain` | the call after such a Release: `acquired` is still set, or the pool hands out the connection that kept the lock, which may lock it again (`depth`) |
| `CloseConnection` | the pool closes the connection that kept the lock; nothing says when |
| `CheckForDirtyDatabase`, `VerifyChecksums`, `MakePlan`, `QueryFails` | the checks and `filterPending` |
| `ExecuteUp`, `CommitUp`, `RecordUp` and their failures, `RecordFailed(Lost)` | executeMigration |
| `ExecuteTx`, `CommitTx`, `RecordTx` and failures | executeTransactional |
| `Revert`, `RemoveMigration` and failures | executeDown |
| `ForceMigration`, `Retry` | cmdRepair, without the lock |
| `Crash` | the process dies, the database rolls back and unlocks |

MySQL commits DDL as it executes (`CommitsEarly`), so an execution cut short
leaves a prefix behind (`Interrupted`).  The PostgreSQL lock belongs to a
connection; a context that expires closes it (`ExecuteUpTimesOut`).  `holder`
is the process one of whose connections holds the lock, `acquired` what each
migrator believes.  `kept`, `unlocked` and `excused` are history variables: they name the events after which a
property cannot be asked for, and each is named in the comment of the property
that reads it.  Versions are taken to be distinct.

### PluginLoading, SourceResolver, Startup

`Startup` extends the other two and adds the `stage` Start has reached; the
actions of `PluginLoading` are its steps in stage "plugins", those of
`SourceResolver` its steps in stage "migrations".

| Action | Code |
|---|---|
| `CollectPluginDependencies`, `ValidateDependencies` | the two passes over the configuration, with their errors |
| `StartSort`, `Visit`, `FinishSort` | resolveInitializationOrder; one visit is one round of its loop |
| `Initialize`, `InitializeFails`, `Finish` | the loop of LoadPlugins |
| `RegisterSources`, `NothingToMigrate` | runMigrations: sources, and dependencies looked up among plugins |
| `Resolve`, `EmitSource`, `FinishResolve` | DependencyResolver |
| `Migrate`, `CycleFound`, `MigrationFails` | the migrator's run, one step here; `Migrations` models it |
| `ReinitializeOpenAPI` ..., `SetupEndpoints`, `SetupFails` | the rest of Start |
| `LoadingFails` | os.Exit |

Go's map iteration is the choice of a sequence (`SetToSeqs`) where the order
matters and a set where the code sorts afterwards.  A plugin is its name:
gorest lets a plugin report another name than the one it is registered under,
the model does not.  The order in which dependents released by one visit join
the queue follows the configuration in the code and is left open here, so the
model has a few orders more.

### RoleHierarchy, Rbac, Crud

`RoleHierarchy` and `Rbac` are operators only: the role hierarchy as a least
fixed point (`ResolveRoles`), the first entry of a tag that decides
(`HasPermission`), and `FilterRead` and `ValidateWrite` over all fields.  `Crud`
runs requests (`Reqs`) over one table of `Row`s keyed by `Ids`; `pc` says where
a request is, and a step is at most one statement:

| Action | Code |
|---|---|
| `Submit`, `Reject` | a handler of processor.go up to its call of CRUD |
| `CheckCall` | checkID, ValidateWrite, the Check hook, StateProcessor |
| `Execute` | INSERT, UPDATE or DELETE; its effect may outlive its answer |
| `Written`, `Reread` | AfterQuery, SerializeOne, the answer; Create's second read |
| `Get` | GetByID and GetByIDs |
| `FetchPage`, `OffsetTooLarge`, `Count`, `Estimate` | GetAllPaginated, countTotal, SendHydraCollection |
| `Fail`, `RefuseIdentifier` | a hook, the pool or the driver fails |
| `FollowNext` | a client follows hydra:next |

Hooks are the application's: what they decide by is a constant (`MayRead`,
`InScope`, `Enriched`), and any of them may fail, plainly: a hook that returns
a `fiber.Error` chooses its own answer, which is not modelled.  Serializers and
converters keep every value.  A condition a client filters by narrows a listing
as a hook's does, so `InScope` stands for both.  Listings are ordered by the
key: what an order with ties may do to pages is the database's.  Key 0 is a
malformed identifier, and in a create a key the database draws.  `wrote` and
`walk` are history variables.

### Accounts

`Procs` are requests and runs of the user command, `call` what each is for and
`pc` where it is; `users`, `holds` and `audit` are the tables users, user_roles
and rbac_audit_log.  An id that uuid.New draws is the drawing process.

| Action | Code |
|---|---|
| `Register`, `Create` | handleRegister up to checkEmailExists; the `create` command's checks |
| `Insert` | the INSERT, decided by the unique index |
| `Login`, `Issue` | getUserByEmail with CheckPassword; the tokens |
| `FindAccount`, `Update` | the `password` command |
| `FindRole`, `Assign`, `Remove`, `LogSuccess`, `LogFailure` | AssignRole, RemoveRole and logAudit |
| `Authenticate`, `Guard` | AuthMiddleware, OptionalAuthMiddleware and RoleLoader; RequireAnyRole |
| `Delete` | the application deletes an account meanwhile |

A step is at most one statement, and each may fail before or after it is
applied (`Fail`, `broke`).  `accountsSeen` and `rolesSeen` are history: what the
tables held at some time while the process ran.  It is what "the password the
account had" can mean when the account changes during the login.  Hashing and
signing are perfect, and tokens do not expire on their own: `Authenticate` may
refuse any.  The database is PostgreSQL or MySQL with roles that are there;
`NoRowsIsSql` says whether the driver reports a missing row as sql.ErrNoRows
itself, which pgx does not.

### Serving

`owner` and `queue` are the pool, `pc` and `left` a request's place and the rows
it has still to read, `stage` where main() is.

| Action | Code |
|---|---|
| `Arrive`, `Tick` | a request, or the cleanup's ticker, asks for a connection |
| `Serve`, `Refuse` | the pool serves one who waits (`Turns`), or has been closed |
| `NextRow`, `HookDone`, `RowsDone`, `LastDone` | rows.Next with CheckRead, the hook's own query, rows.Close, the count that follows |
| `Abort` | a scan, a hook or a panic ends the loop: the deferred Close |
| `Swept` | DeleteExpired is done |
| `Listen`, `Signal`, `Drained`, `TimedOut`, `Exit` | Start's last part: listening, the signal, ShutdownWithContext, db.Close, the end |

pgxpool serves who waits in order, database/sql gives a connection to any of
them (`Turns`); they also differ when they are closed: `Refuse` and `Exit`.
A signal that comes before the goroutine listens is left out: `Listen` comes
before `Signal` or not at all, where the code's two goroutines race.
`hooked` is drawn once: the requests whose CheckRead queries.

### SqlText, Queries, Filtering, Builders, Reading

A text is a sequence of tokens.  A placeholder token carries, besides its
number, the value it was written for; the database does not see it, the
properties do.  `ToSQL` of each condition and expression takes the number of the
next placeholder and returns text, arguments and the number after them, as in
the code.  `renumberParameters` finds "$1" inside "$11" as strings.Replace does.
`Trees[h]` are the conditions and expressions of height h at most, among them
subqueries, whose builders hold trees of a height less; `NodeSQL` renders a node
given the rendering of what is below it, and `Rendering` is that function height
by height, up to the bound `MaxHeight`.  `WhereClause` and `ConditionOf` are the
two ways a filter becomes SQL, each with the operator switch it has in the code:
`Bare` are the predicates of columns as they are spelt, `Quoted` those of
columns the dialect quotes.  `Words` are all a statement is written
in besides placeholders, `BoundValues` what callers bind.  A name (`Name`) is a
token of its own kind, because the code quotes identifiers
(QuoteQualifiedIdentifier): a column called `where` begins no clause.  The code
leaves a name with a parenthesis in it as it is; the model takes it for one
token, too.

In `Reading` a row is the set of the predicates that hold of it.  `Reads(rows,
text)` are the rows a text lets through when it is parsed with SQL's precedence,
independently of how it was written: OR divides it before AND, AND before NOT,
and what a bracket encloses divides nothing (`At`).  `Meaning` are the rows a
tree of conditions is meant to let through, `Wanted` those that the calls asked
for.  A subquery that does not build means no row, as 1=0 does, so under Not it
means every row.  Neither is a RECURSIVE operator: `Readings` is a function of the length of
the text, `Senses` of the height of the tree.

| Action | Code |
|---|---|
| `From`, `SelectColumn`, `SelectExpr`, `Distinct`, `Join`, `CrossJoin`, `GroupBy(Expr)`, `Having`, `OrderBy(Expr)`, `Limit`, `Offset`, `AndCTE` | methods of SelectBuilder and CTEBuilder |
| `Where`, `OrWhere` | Where and And; Or |
| `Set`, `InsertColumns`, `InsertValues`, `ValuesMap`, `OnConflictDoNothing`, `Returning` | methods of UpdateBuilder and InsertBuilder |
| `Build` | Build of the five builders, whenever the caller likes |
| `List`, `BuildWhereClause` | a listing's filters and orders; FilterSet's own clause |

`asked` records each call as the caller meant it, apart from how the builder
stores it.

## 3. Runs

Bounds are constants of the modules.  The runs set `CHECK_DEADLOCK FALSE`
because calls, clock, token pool and faults are bounded, or because the process
exits: the bounded model really stops.

| Run | Instance | Shows |
|---|---|---|
| `refresh` | 2 users, 3 tokens, 2 handlers, any number of refreshes of one token, 1 fault | a token whose refreshes do not overlap has one replacement and its replaced_by chain is complete; rotation is atomic; reuse reported after the revocation; `TokenLifecycle` is implemented |
| `refresh_expiry` | clock to 4 at 2 ticks per second, lifetime 2 ticks, under fairness | dead tokens not exchanged; rows kept until expired; expired rows swept |
| `migrations` | 2 migrations whose order of dependency and of version differ, 2 processes of 2 builds, 2 calls of any of 10 kinds, 1 repair, 1 fault, PostgreSQL and MySQL, under fairness | exclusion; truthful records; dirty and modified databases block; every call returns, unless PostgreSQL keeps the lock of a failed unlock |
| `startup` | 3 plugins with every graph of dependencies; every graph of migration dependencies; plugins disabled, missing, unknown, configured twice; any plugin or stage may fail; under fairness | dependencies first and injected, cycles and only cycles refused, both sorts implement `DependencyOrder`, migrations follow, openapi sees every plugin, Start serves or exits |
| `crud` | 3 keys, 2 requests at once, 4 callers, every operation, limits 0 to 3, pages below the first and beyond the last, count mode estimate | nothing forbidden served or written; answers tell what was done; a walk along hydra:next is complete; totals that are no estimates are exact |
| `accounts` | 3 processes, each any of 14 calls; one account at first, any account deleted; any statement fails | one account per address; refusals, passwords, sessions, admissions and changes of roles explained; a true audit log |
| `serving` | 3 requests, 2 of which may query in a hook, the cleanup, 2 connections, both pools, under fairness | when the pool can gridlock; nothing leaks; nobody loses the database before the 30 seconds; requests end (with database/sql, if the cleanup is not served for ever) and so does the shutdown |
| `builders` | 3 methods and a Build of each of 5 builders, 2 kinds of dialect, 7 conditions, 3 expressions | values bound where they were given; clauses mean what was asked; holes of refused conditions do not run; filters' two paths agree but for the quotes of columns |
| `refresh_revived` | 2 handlers, 4 tokens | *violated*: a rotation in flight outlives the revocation of its family |
| `mig_go_transactional` | transactional mode, one migration with an executor | *violated*: recorded without having been executed |
| `startup_core_order` | two plugins that require the core source, which sorts between them | *violated*: the dependency is dropped and a plugin is migrated before the core |
| `accounts_audit` | the instance of `accounts` with a driver whose missing row is not sql.ErrNoRows | *violated*: a promotion to a role that does not exist leaves no row in the log |

Why the bounds are enough.  Three tokens are a login, its replacement and the
replacement's own; two handlers are the fewest that race, and every property
relates at most two handlers or two tokens of a chain.  Two ticks per second put
an expiry between two whole seconds.  Two calls of the migrator are a run and a
rerun or two concurrent runs; the fault is the crash, the timeout or the lost
statement in one of them, and the repair what an operator does about it.  Three
plugins are the fewest with a cycle beside a plugin that is not on it; the names
of their sources sort on both sides of the core's.  In `crud`, three keys and a
default limit of two make a full page, a short one and an empty one; `MaxPage`
and `MaxOffset` (10000 and 1,000,000 in the code) are small so that both are
passed.  In `accounts`, three processes are two that compete and a third that
undoes what one of them did, and deletions undo the rest.  In `serving`, two
connections and two querying hooks are gridlock, one is not, and the third
request and the cleanup compete with them.  In `builders`, three calls are a
condition, one more that rewrites it and one after it, nested conditions do what
more calls would, and eleven values make "$1" a prefix of "$11"; `MaxHeight`
(10) is beyond what three calls put around the deepest tree given; both kinds of
dialect differ in every feature the code asks about.  Requests, tokens and
processes are interchangeable where symmetry is declared, and no run with a
liveness property declares it.

**Fairness.**  `RefreshTokens`: a goroutine that can run does run, the ticker
keeps firing, time passes; SweeperStops is not fair, nobody has to stop the
cleanup.  `Migrations`: weak fairness of each process's regular steps only; no
mishap has to happen, no pool has to close a connection (`CloseConnection`)
and none has to hand out the one that kept the lock (`AcquireAgain`).  Weak
fairness of `Acquire` is enough because calls are bounded: a waiter ends up
without competitors.  `Startup`: Start is one
goroutine that waits for nobody, so weak fairness of its step; no failure has
to happen.  `Serving`: a pool with a free connection serves
somebody, so weak fairness of `Serve` and `Refuse`.  With pgxpool that is the
one who waited longest; database/sql chooses at random, which promises no
waiter anything, and only probability speaks against its being passed over for
ever.  `EveryRequestEnds` says what is left without it: a request ends unless
others are served for ever, and of those there is one, the cleanup, because
requests are finitely many.  Statements and hooks end, so weak fairness of each
request's `Handle` and of `Swept`; the 30 seconds pass (`Drained \/ TimedOut`),
and main() goes on (`Exit`).  Nothing obliges requests, ticks or the signal to
come.  `Crud`, `Accounts` and `Builders` state no liveness: a handler there is
straight-line code that waits for nobody.

**Mutants.**  Each property of a passing run names in `PROJECT.json` a
definition and a faulty form of it (an operator whose name starts with `Bug`)
under which TLC finds the property violated.

## 4. Findings

The four violated runs are disagreements between the code and its
documentation: see `findings`.  The modelling met more, which no run asserts:

* Two overlapping refreshes of one token both commit, and the second UPDATE of
  the old row overwrites `replaced_by` (src/auth/refresh/service.go:168): the
  first replacement is live and on no chain.  `EveryReplacementChained`
  (and `RotatedOnce`, which is proved with it) therefore except `contended`
  tokens.
* With StopOnError off, a migration that times out closes the connection that
  may hold the advisory lock, and executeSequential goes on without it
  (src/migrations/migrator.go:579); on SQLite the lock does nothing, though
  src/migrations/README.md:427 promises one.  `MutualExclusion` therefore
  excepts `unlocked`.
* The deferred Release (src/migrations/migrator.go:50) is sent through the pool
  with the caller's context, and its error is dropped: a context that is over
  does not unlock, and another connection of the pool has nothing to unlock
  (src/migrations/lock.go:81).  The lock then stays while the process lives and
  keeps that connection.  On PostgreSQL every other server waits for ever, which
  `EveryCallReturns` excepts; on MySQL each gives up after 60 seconds.  After an
  unlock that failed `acquired` stays set, and the next call of the same
  migrator does not ask the database whether it still has the lock
  (src/migrations/lock.go:27).
* A total that is an estimate decides whether there is a next page
  (src/pagination/pagination.go:36): an estimate that is too low ends a walk
  early.  `WalkComplete` and `TotalIsExact` ask nothing of estimates.
* As many querying hooks as connections gridlock the pool for good, and with
  pgxpool the shutdown then waits in db.Close for ever; a second signal is
  ignored.  The cleanup is stopped only after db.Close.
* DELETE builds with an invalid condition inside it, where
  src/query/README.md:539 promises an error at Build; what keeps such a
  statement harmless is that it does not parse (`HolesDoNotRun`). SELECT and
  UPDATE look at the top of a condition only. A first map without entries leaves
  ValuesMap's columns to the next one, and Build writes rows of different
  lengths. A subquery that cannot be built is
  written `1=0` with no error, under NotExists as under Exists, and
  src/query/subquery_panic_fix_test.go wants it so.  Under Not it becomes
  `NOT (... 1=0)`: the statement runs as if that condition had been left out, a
  DELETE too.  `ClausesMeanWhatWasAsked` reads such a subquery as no row.
  Refused conditions of a HAVING or an ON are covered by no property.
* The clause of a FilterSet writes its columns bare
  (src/filter/filters_test.go:189 has `status = $1`), its conditions quote them
  (src/query/condition_test.go:26): on PostgreSQL a column of mixed case or with
  a reserved name is found by the conditions and not by the clause.
  `FilterPathsAgree` compares everything but the quotes.
* Raw text with an OR of its own is joined to other conditions without
  brackets (src/query/update.go:41 has "combine conditions with AND"), so that
  `ClausesMeanWhatWasAsked` would not hold of it; `ReadingAssumption` leaves such
  texts out.
  ValidateWindowFrame is never called; CTEBuilder.From and Select validate
  nothing.
* AssignRole does not ask whether the account exists.  The user command takes
  passwords of 8 bytes, the policy of a registration asks for 12.
* A refused authorisation of CRUD ends in HandleError's last line and is
  answered 500, where src/AUTHORIZATION.md has 403.  Create reads the new row
  back by the key in the handler's own copy of the model, which CRUD never
  sets, so unless the caller chose the key the answer is an echo of the request
  (`Reread`, `Echo`).
* The configuration's CacheEnabled and CacheTTL of roles are read by nothing.

## 5. Proofs

The type invariants of Startup, Crud, Accounts and Serving are proved and are
not among the properties of a run; those of RefreshTokens and Migrations are
both.  The theorems hold for all values of the constants that satisfy the named
assumptions of the modules (sentinels outside the sets, bounds in `Nat`, places
and versions of migrations distinct, finitely many names or connections).

*RefreshTokens.*  `TypeCorrect` proves `TypeOK /\ PoolInv`; PoolInv says that a
handler about to insert holds a token nobody stored and nobody else holds, with
a draft for it.  It is what makes rows independent: without it a second insert
could overwrite a row.  `RotationAtomicity` adds that a parent was stored
before its child and that its row, if there, is revoked and of the same user;
`SerialRotation` adds that a token outside `contended` has at most one handler
refreshing it, and no replacement yet while that handler's snapshot of it is
usable; `DeadTokens` and `ReuseReported` relate the row a handler read to the
table, which revocation only ever moves one way; `ExpiryBeforeDeletion` compares
whole seconds with ticks; `LifecycleRefinement` maps each action to a step of
`TokenLifecycle` or a stutter.  That a parent is stored before its child makes
the chain of replacements well founded (`ChainsLeadToLogins`), and that only a
token nobody stored is inserted means that no row comes back to life
(`EndedForGood`); both hold of contended tokens too.

*Migrations.*  `ShapeInv`, `RestInv` and `PlaceInv` are the types and the
operations each place belongs to.  `OwnerInv`: unless `unlocked`, who works
holds the lock.  The others rest on it, because what one process found is still
true later only if nobody else works: `CleanInv` (no record is "failed" while a
checking call is past its check), `ScanInv` (the same for "upAll" until it
plans), `ChecksumInv` (sums are right once verified), `FreshInv` (what is about
to be executed or recorded has no record yet), and `RecordInv`: the schema
agrees with the record of every migration nobody owes anything, and for one
that a process owes the place of that process says what is in the schema
(`Landed`).  RecordMatchesSchema alone is not inductive: a record is written
two transactions after the plan that justified it, and only FreshInv and Landed
connect the two.  Most steps are `Mine`: they leave other processes where they
are; `FreshKept`, `RecordKept` and `RecordBy` turn that into the invariants'
steps.  `LockExcludes`, `FailureBlocks`, `DriftBlocks`, `TypeCorrect` and
`RecordsTellTruth` follow.

*Startup.*  Each sort is proved alone.  `LoadInv` is `SortInv` (the order has
no repetition, holds enabled plugins only, each after its dependencies, and no
plugin of a cycle), `QueueInv` (a counter is the number of dependencies not yet
in the order, the queue holds who waits for none), `EndInv` (how the sort ended)
and `RegistryInv` (the registry is a prefix of the order and what was injected
is what was declared).  QueueInv is what makes SortInv inductive; that a sort
which counted enough has all plugins is a counting argument over finite sets
(`AllSorted`).  `ResolveInv` is the same for sources.  `StartLoads` and
`StartResolves` show that Start implements LoadSpec and ResolveSpec, so all of
this holds of it (`StartKeepsPromises`); `StartInv` adds that sources are
registered once, after the plugins, and gives `MigrationsFollow` and
`OpenAPIComplete`.  They assume finitely many names, distinct source names of
distinct plugins, none of them a core source.

*Crud.*  `RolesExpand` and `MoreRolesMoreRights` are about roles alone: the
expansion of roles is closed under inheritance, and more roles never mean fewer
rights.  `IInv` is `TypeOK` with `Lawful` of each request, which says what the
place a request has reached tells of its operation, of its authorisation and of
what it has written (`Staged`): an answer is about the request's past, so the
promises about answers are not inductive without it.  A step of one request
leaves the others lawful because what they have in common, the table, is not
in `Lawful` (`Unaffected`, `Apart`).  `NothingLeaks`, `AnswersTell` and
`WritersOnly` follow, for every hierarchy, tagging and hook.

*Listings.*  The second half of `CrudProofs` counts rows where TLC tries tables.
A row's place in the order of keys is a bijection between the rows in scope and
1..n (`Positions`), so a page holds as many rows as LIMIT allows and OFFSET
leaves (`PageSize`), and a page that is not full ends the table (`ShortIsLast`).
`PagesInv` is the invariant of a walk while the table stays as it is: a listing
under way has seen exactly the readable rows of the pages before its own
(`Underway`), an answered one those through its own page, and says of the total
and of the next link what the rows justify (`Listed`).  It is needed because
`WalkComplete` speaks of the last answer only, and every page before it was
answered in an earlier state.  A link leads no further than the row after the
page (`LinkMeets`), so nothing is skipped, and an answer without a link has
reached the last row (`LastReached`).  A step of another request that writes
takes the walk out of the invariant (`OthersStep`), as the property does.
`WalksComplete` and `TotalsExact` follow, for every table, page size, scope and
number of requests.

*Accounts.*  `Local` says for each process what its place and answer tell of its
call, of what it has seen and of what it changed; what it has seen only grows,
so a step of another process cannot spoil it (`LocalStutters`).  The tables need
invariants of their own: no two accounts share an address (`UniqueEmails`), an
account a process made carries the address it asked for (`Own`), a role
somebody holds was assigned (`Assigned`) and one that is gone was removed by
somebody (`Removed`), each by a process that is still at it or reported.
The parts of the three properties TLC checks are theorems of their own
(`OneAccountPerAddress`, `RegistrationRefusals`, `SessionsNeedPassword`,
`GuardsNeedRoles`, `RoleChangesExplained`, `AuditIsTrue`), and
`RegistrationsAreExplained`, `AccessIsEarned` and `RoleChangesAreLogged` put
them together.

*Serving.*  `Queued` (who waits is in the queue, once), `Holding` (what each
place owns), `Placed` and `Orderly` (the pool is closed only after the requests
have ended or were given up).  Queued is needed because a pool that served
somebody twice could give a place a second connection.  `PoolNeverGridlocks` is
a pigeonhole argument on top: if every connection were owned by a request that
waits for another, each would be owned by a different request whose hook
queries, so there would be as many of those as connections.

*Builders.*  What every rendering keeps is `Numbers(d, text, args, p)`: the
placeholders of a text are its arguments in order, numbered from p.  It is
proved of a node given its parts and then, by height, of every tree
(`TreesRight`): a list of nodes numbered one after the other (`ChainRight`), a
clause, a SELECT, raw text, CASE, windows.  Two places do not number as they
write: a subquery and a common table expression are numbered from 1 and moved
afterwards, by replacing one placeholder's text at a time.  `Renumbers` proves
that this moves each placeholder once, whatever the number of digits: when "$i"
is looked for, the marks that are left to move are the first i of the text, and
the i-th is the only one among them that begins with it, because those already
moved stand behind it.  An UPDATE, an INSERT and a WITH statement put such texts
together from numbers of their own (`Sound`).  `BuildersInv` carries the types
through the methods: after n calls a builder's trees are at most n higher than
those callers give (`Given`), so that everything it holds has a rendering;
`PlaceholdersAlwaysBound` follows.  `FilterPathsAlwaysAgree` compares two loops
over the same filters, one counting values and one handing on numbers, by their
common partial sums (`Before`), and their two switches case by case
(`FilterNames`, `ConditionIs`): taking the quotes off the columns of one gives
the text of the other.

About what a builder stores, `AskedInv` relates it to the calls in `asked`:
`EachColumnOnce` (a column set again keeps its place and takes the last value),
`RowsAlwaysLineUp` (rows given as maps are in the order of the columns) and
`ConditionsMeanTheirGroups` (whatever conditions mean, as long as an Or holds
when one of its sides does, those stored hold where the groups asked for do).

*Reading.*  These three are about the builder's state; `ReadingProofs` carries
them over to the text that is sent.  Reading a text depends on where its
brackets stand, so the first part is about `Depths`: a text in `Closed` has its
brackets paired, one in `Free(W)` has no word of W outside of them, and both
survive concatenation, bracketing, joining and the replacement of placeholders.
A text joined by AND or OR is read part by part when no part is divided by that
word or one that binds less (`JoinedMeans`): it is here that the brackets which
logicalCondition.ToSQL writes, and leaves out around one condition, are needed.
`TreesMean` follows by height: every condition is written so that it is read as
what it means, and if a refused condition is anywhere in it, so that it is not
read at all.  The second half of that has to be carried along with the first,
since a hole may be the only thing between two ANDs and must not make them
read as something else.

A statement is a sequence of clauses, and a clause is what stands from its word
to the next one outside of brackets; that `ClauseOf` finds the WHERE that was
written, and not one in a subquery, a CTE or a name, is `SelectStands` for
SELECT and the like for the other verbs (`Says`).  `ReadInv` is the inductive
part: what was built is what the builder as it is would build (`AnswerInv`; a
method called after Build takes the answer back), and every condition asked for
is a condition, with the HAVING stored call by call (`GivenInv`).  The
properties of the runs speak of `built` and `asked` alone and are inductive only
through what is between them: the builder `b`.  `ClausesAlwaysMeanWhatWasAsked` (of
statements whose conditions were all accepted), `HolesNeverRun`
and `ValuesAlwaysGoToTheirColumns` follow, for every nesting of conditions,
every dialect and any number of calls.

The last one excepts INSERTs of which a map was empty.  ValuesMap takes its
columns from the first map that has any, so rows before it have no values at
all, and the statement has rows of different lengths, which a database refuses.

The assumptions are what the packages rely on: no word of a statement is "?"
itself; a raw text has a "?" for each of its values, as in every example and
test of Raw, which checks nothing; resources map their fields to columns that
are valid references; callers' trees are low enough for `MaxHeight`, which is
arbitrary.  Where, And, Or, Not and Having are given conditions, as their Go
types have it.  `ReadingAssumption` asks of a raw text that its brackets pair,
that it can be read, that no clause begins in it and that no OR of its own
divides it: one that does is joined to others without brackets (section 4), and
what it then means is not what was asked.

Only model-checked: the liveness properties `ExpiredRowsSwept`,
`EveryCallReturns`, `StartEnds`, `EveryRequestEnds` and `ShutdownEnds`; and the
violated runs.  Liveness under fairness and ENABLED are out of the prover's
reach.

## 6. Not modelled

* Cryptography and random numbers (draws are taken to be fresh), JWT claims and
  expiry, the tables of the password policy.
* Configuration: reading, defaults and range checks of YAML before anything
  runs; it keeps no state and meets no other actor.
* Serialisers, JSON-LD contexts, HTTP headers, logging, OpenAPI documents and
  the response helpers: layout.  The rate limiter is Fiber's.
* Migration files: discovery, SQL per dialect, static validation.
* In `query`: upserts beyond ON CONFLICT DO NOTHING, set operations, recursive
  CTEs, window frames, and slices that two builders share; in `crud`,
  relations.go and the duplicate-key error as CRUD reports it; in `rbac`, checks
  of a single field and the cycle check of a configured hierarchy.
* Hooks that return a `fiber.Error`, which chooses its own answer.
* Below the interface of `database` the drivers are taken to do what
  `database/sql` and pgx promise; introspection and the registry of drivers are
  left out.
* Fixtures, test helpers, code generation and the examples.
