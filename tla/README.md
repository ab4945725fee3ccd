# ToDoD: TLA+ models, model checking and proofs

ToDoD is a to-do server in C++: an HTTP API (Crow) over one SQLite connection,
with user-written Lua handlers that run when a todo is added and queue commands
on todos. This directory holds its TLA+ modules, the TLC configurations that
check them on small instances, and TLAPS proofs about them.

Contents: [inventory](#inventory), [hard behaviours](#hard-behaviours),
[modules](#modules), [runs](#runs), [proofs](#proofs),
[disagreements found](#disagreements-found),
[not modelled](#not-modelled), [plan](#plan).

## Inventory

Paths are relative to `src/src/`.

| part | code | state it keeps | operations | correct when |
|---|---|---|---|---|
| DataBase | `infrastructure/database/database.hpp` | one connection, `mutex_`, at most one open transaction | `access`, `transaction` | every path out releases the mutex and ends the transaction; nobody sees uncommitted rows |
| statement guard | `infrastructure/database/sqlite_statement_guard.cpp` | the cursor and bindings of each prepared statement | destructor: `reset`, `clearBindings` | a statement is always found reset and unbound |
| TodoRepository | `application/ports/repository/todo_repository.cpp` | table `todos` | `create`, `findByID`, `getPage` (`getCount`), `setCompleteStatus`, `setPriority` | a new row is returned under its own id; a page and its total belong to one state |
| ScriptRepository | `application/ports/repository/script_repository.cpp` | table `scripts` | `create`, `getAll`, `findByEvent` | enabled handlers of the event, in id order |
| HandlerScriptService | `application/service/script_service.cpp` | the results of the handlers so far | `runHandlers`, `runCommand_` | a handler applies its whole queue or nothing, and the report says which |
| command validation | `application/service/command_validator.cpp` | none | `validateCommand` | bad ids and priorities never reach the tables |
| ScriptEngine, validation | `application/ports/scripting/script_engine.cpp`, `script_validator.cpp`, `infrastructure/scripting/script_safe_execution.hpp` | the queue of commands of a run | `execute`, `validateScript` | the queue is what the script asked for; the error names what happened |
| execution limits | `infrastructure/scripting/script_limits.cpp` | instruction budget, deadline, limit status | the Lua count hook | every run ends near its limit |
| use cases | `application/use_cases/*.cpp` | none | `createTodo`, `getPage`, `createHandler`, `getHandlers` | the answer is the state the server is in |
| domain | `domain/*.cpp` | none | `TodoDefinition::create`, `HandlerScriptDefinition::create` | accepts what the documentation allows |
| HTTP routes | `http/todo_routes.cpp`, `http/script_routes.cpp` | none | media type, size, JSON, fields, parameters | the same, and the right error otherwise |
| JSON report | `http/json_serializer.cpp` | none | `handlersReportToJson`, `commandToJson` | counters, lists and pointers agree |
| dates | `time/*.cpp` | none | parse, format, to and from timestamps | a date comes back as it was sent |
| documentation | `http/docs_routes.cpp`, `../docs/swagger.html`, `../docs/swagger-initializer.js` | the files in `DOCS_DIR`; in the browser, a cache | serve a file; load the page, fetch the specification | a page is made of one release |
| wiring | `app/application.cpp`, `main.cpp` | owns all of the above | constructor, `run` | - |

How they interact. A Crow worker thread runs a route; the route calls a use case;
the use case calls repositories and the handler service one after the other.
Every repository call takes `DataBase::mutex_` for its own duration
(`access`); a handler's commands run inside one `transaction`, which holds the
mutex from BEGIN to COMMIT. Lua runs **outside** the mutex, on a snapshot of the
todo. So one `createTodo` is: insert + row id (one critical section), look up the
handlers (one), then for each handler a script run (none) and a transaction
(one), then read the todo back (one). Other requests come in between all of them.

The documentation page is apart from all that: its routes read `DOCS_DIR` on
each request, with a `Cache-Control` of their own each, and the page that
`swagger.html` and `swagger-initializer.js` make of the files lives in a browser
whose cache outlives a release. The build copies new files into the directory
one by one, also while the server runs.

`TododApp` starts Crow with two threads (`concurrency`), of which Crow keeps one thread for
accepting connections: as shipped one worker runs the routes. The number is one
constant of the wiring, so the modules take `Workers` as a parameter, and the
runs check both one worker (what is shipped) and two (what the mutex, the guards
and the `DBAccess` tokens are written for).

## Hard behaviours

`PROJECT.json` lists each with its line. In short: interleaving of requests over
one connection (row ids, transactions, pages, prepared statements); partial
failure (a command that fails after others succeeded, a BEGIN or COMMIT that
SQLite refuses, a statement that fails between insert and answer); restarts
between the insert and its handlers; stale snapshots handed to scripts; a script
that never returns, or queues commands and messages nobody counts; integers that
pass through four widths and dates that pass through three units; and a page put
together from files with different cache lifetimes while a build replaces them,
where a missing file (404) may be cached too.

## Modules

| module | models | state and actions |
|---|---|---|
| `HandlerCommands` | a script's queue, the narrowing of `set_priority`, `validateCommand`, the UPDATE statements, the bookkeeping of command results | operators only; `EffectOf` is the declarative effect of a queue, written per row and not per command |
| `TodoData` | rows, inputs, the queries of the repositories | operators only |
| `TodoServer` | workers, mutex, connection, transactions, use cases | one action per SQL statement, script run or answer; the first statement of a critical section takes the mutex and the last releases it |
| `TodoService` | what clients are promised: atomic steps on the committed tables, no mutex, connection or transaction | one action per promise |
| `TodoRefinement` | `TodoServer` implements `TodoService` | the mapping of `pc` and locals to `stage` and `work` |
| `ScriptRun` | one Lua run under the count hook | one action per instruction, queued command, log message, hook call, clock tick |
| `Statements` | the prepared statements of both repositories | one action per bind, step, reset, clearBindings: the grain below `TodoServer`, where one use of a statement is one step |
| `StatementUses` | what a caller takes a use of a statement to be: run on the caller's parameters, or refused, in one step | `Run`, `Refused`, `Return`; no positions, bindings or misuse. `Statements` maps to it (`Stage`, `Given`) |
| `RequestChecks` | the checks of the routes and of the domain, every integer at its width | one action per check |
| `HttpReport` | the JSON of a createTodo, and what a client may conclude from it | operators only; the handlers' results in, a record out |
| `TodoReport` | the answers of `TodoServer` as `HttpReport` shows them | the properties of the answers; `Undisturbed`, the hypothesis of one of them |
| `Dates` | a date from text to time point, column and text again, each with its unit, rounding and width | operators only |
| `DocsPage` | the documentation routes, the browser and its cache, the page, the copying build | `NewRelease`, `Remove`, `Write` (build); `Tick` (copies age); `Open`, `GetPage`, `GetAsset`, `Load`, `GetSpec` (page) |
| `MCTodoServer`, `MCRequestChecks`, `MCDocsPage` | instances for TLC, and statements of the repository that the code does not keep | - |
| `*_proofs` | theorems | - |

Correspondence of `TodoServer` with the code. `holder` is `mutex_`; `conn` is
what the connection sees and `disk` what is committed, so they differ only inside a
transaction; `lastRowid` is `last_insert_rowid` of the shared connection. `pc`,
`request`, `created`, `pending`, `commands`, `results`, `report`, `total` and
`reply` are the locals of a worker's call stack; `known` is a history variable, the
number of handlers stored when the todo was inserted, which no guard reads.
`StatementFails` is the path
SQLite exception -> `StorageError` -> 500, with the lock guard released;
`BeginTransaction`, `RunCommand`, `Rollback` and `Commit` are the transaction in
`runHandlers` with its catch clause. `Crash` kills the process at any point and
starts it again on the same `data.db`.

Correspondence of `DocsPage`. `docsDir` is the directory, `FromServer` is
`serveFile` with the header `CacheControl` gives the route, `Admitted` is
`connect-src 'self'` of the policy header, and `GetSpec` fetches the `url` that
`swagger-initializer.js` passes to the bundle, through its `requestInterceptor`.
`NewRelease` starts the target `todod_docs`; `Remove` and `Write` are what its
`copy_directory` does to a file. `Fails` is a connection that breaks. `opened`
and `early` are history variables: on which release the page was opened, and
whether the present release's bundle was asked for before it was copied. The host is chosen once per
behaviour, because browsers keep their caches by origin. The bundle itself is
external: that it fetches the specification is all that is used of it.

Abstractions. A Lua source is the calls it makes and the ways it may end;
`TodoServer` runs it in one step, and `ScriptRun` justifies that step (it ends,
and leaves a queue only if it ended well). Texts are a title out of two. Integers
are scaled down: an int has `IntMax` as its largest value and a
`std::uint32_t` twice that plus one, so that every width border is within reach.
Validation in `TodoServer` is the priority check and a flag; `RequestChecks`
models the rest. There a media type is `application/json`, something that only
begins like it (the route compares a prefix) or another one; and a date is the
documented form in UTC, the same without leading zeros (which the parser takes),
a date-time the parser refuses (offset, more decimals) or no date. Logs, names, durations and messages are left out.

## Runs

| run | question | properties |
|---|---|---|
| `one_worker` | as shipped, with every kind of script, invalid input and any statement refused: is each answer true and is every request answered? | `TypeOK`, `ReportConsistent`, `ReportAddsUp`, `FailuresAreLocated`, `AnswerIsFinalState`, `EveryRequestAnswered` |
| `two_workers` | two threads, any statement refused and restarts at any step: are requests kept apart, and is the server the atomic service? | `MutexDiscipline`, `Isolation`, `HandlersRunOnceInOrder`, `AnswersNameOwnRow`, `PageMatchesTotal`, `InternalErrorOnlyFromStorage`, `HandlerAtomicity`, `AnswersShowCommitted`, `ImplementsService` |
| `two_workers_live` | two threads whose scripts keep to their own todo: is the answer still the final state, and does somebody always progress? | `AnswerIsFinalState`, `SomeRequestAnswered` |
| `script_run` | any script: does it end, near its limit, with the right blame? | `TypeOK`, `BudgetKept`, `ContextBounded`, `DeadlineKept`, `BlameIsTrue`, `RunEnds` |
| `statements` | shared prepared statements, any bind or step refused: can one use disturb another, and is each use one step to its caller? | `NoMisuse`, `RunsOnOwnParameters`, `QuietWhenFree`, `ImplementsUses` |
| `request_checks` | every combination of checks and width borders: does what is accepted differ from `openapi.json` only where listed, does it arrive unchanged, and does a date come back? | `AcceptedAsSent`, `OnlyNamedDivergences`, `DateComesBack` |
| `docs_page` | an upgrade while pages are opened, reloaded and cached: of what is a page made, when does it break, what does the version in the bundle's URL prevent? | `TypeOK`, `OwnPartsAreCurrent`, `OneReleaseAfterMaxAge`, `BreaksOnlyWhenLost`, `VersionProtectsBundle` |
| `date_range`, `failed_index`, `narrowing`, `error_codes`, `scalar_body` | what the repository says and the code does not do | see below |

Bounds, and why they are enough.

- `MaxTodos = 2`: a command may name its own todo, another one, a missing one or
  id 0; two inserts can race for `last_insert_rowid`; a page can be full, short
  or beyond the end.
- `MaxHandlers = 2`: an order between handlers, a failure of the first before
  the second runs, a handler added during another request. In `two_workers` both
  rows are of one handler, whose script (`Nudge`, two commands) names todo 2, which
  is there or not, depending on the other requests; `one_worker` takes every kind of script.
- Symmetry is used in `two_workers` only, over the workers: all of them run the
  same code, and the run has no liveness property.
- Two workers: the mutex, the connection and the statements relate pairs of
  requests; the proofs cover any number.
- `IntMax = 1` (3 in `request_checks`): priorities 0 to 3, so 4 is already too
  large for the column and 2 already wraps in `set_priority`.
- Queues have up to three commands in `one_worker`, so that a failure has commands
  before and after it.
- `ScriptRun`: interval 3 and limit 7, so that the limit is no multiple of the
  interval; `MaxInstructions` is above what the hook lets a script reach, which
  `BudgetKept` shows, so it does not bound the queue and the log either; the clock
  stops after the deadline has passed.
- `RequestChecks`: `BorderNumbers` has each width's least and largest value and
  the next one outside. For dates `ClockMax = 13`, `NsPerMs = 3`, `MsPerSecond = 2`:
  small, different from each other, and the clock ends inside a millisecond and
  inside a second. `BorderMoments` has the moments around the epoch, where the
  roundings differ, and around both ends of the clock.
- `DocsPage`: `MaxAge = 2` (a copy may be fresh, old or gone); two releases, the
  second with another bundle version, its page copied before its bundle, so that
  the new URL may be asked for while the server still has the old file; two hosts.

Fairness. `FairSpec` of `TodoServer` gives every worker weak fairness on its own
work: the operating system schedules the thread, a Lua run ends (`RunEnds`),
SQLite without a busy timeout answers every statement, and a free mutex is taken
by one of those who want it. It promises no order between waiting workers, and
the code does not either, so with two workers only "some request is answered" is
claimed. Nothing obliges a client to send anything. `FairSpec` of `ScriptRun`
says that the virtual machine keeps executing, not that the script ever returns.

`CHECK_DEADLOCK FALSE` is used where a run ends by design: `ScriptRun` and
`RequestChecks` follow one script run and one request. In `TodoServer`,
`Statements` and `DocsPage` deadlock is checked.

`AnswerIsFinalState` is checked with one worker, or with scripts that touch only
their own todo: with two workers a handler of another request may change the
todo between the last handler and the read-back, and the answer is then right to
show that.

## Proofs

All for every value of the constants under the named assumptions of the modules.

`TodoServer_proofs` (any number of workers, any scripts, any bounds):

- `TypeCorrect`. The invariant is `TypeOK /\ LocalsFit`; `LocalsFit` ties the
  locals to `pc` and is needed because a command's result is typed only if the
  queue and the todo it came from are. Beyond shapes it shows that a stored
  priority always fits its column: whatever a script passes, `ToInt` yields an
  int and `validateCommand` stops the negative ones.
- `MutexCorrect` (`MutexDiscipline`) is inductive with the types.
- `IsolationCorrect` (`Isolation`) needs `MutexDiscipline`, since only one worker
  can be between BEGIN and COMMIT, and the lemma `EffectOfNext`: applying one more
  command to the effect of a prefix is the effect of the longer prefix.
- `HandlersAreAtomic` (`HandlerAtomicity`) is an action property; the commit step
  takes effect as a whole because `Isolation` says what the connection shows.

`TodoAnswers_proofs` adds what the answers say, each from the four above:

- `OwnRowsNamed` (`AnswersNameOwnRow`): until its id is known a worker holds the
  mutex, so `lastRowid` is still its own insert, and two requests in progress
  never have the same row.
- `PagesMatchTotals` (`PageMatchesTotal`): the total a worker has read is the
  length of the table as long as it holds the mutex.
- `ReportsConsistent` (`ReportConsistent`) needs that the results of a running
  handler are those of a prefix of its queue, all applied, and that after a
  failure they are rewritten from such a prefix.
- `HandlersInOrder` (`HandlersRunOnceInOrder`): the handlers run and those waiting
  together are the enabled ones among the first `n`, for some `n` between the
  number at the insert (`known`) and the present one. Handlers are added only at
  the end and never deleted (`ScriptsGrow`), so neither bound moves away.
- `ErrorsComeFromStorage` (`InternalErrorOnlyFromStorage`): tables never shrink, so
  the row of a known id is found.
- `OnlyCommittedShown` (`AnswersShowCommitted`): what the connection shows to the
  holder of the mutex outside a transaction is the committed table, by `Isolation`.

`TodoReport_proofs` carries this into the JSON of the answers:

- `ReportsAddUp` (`ReportAddsUp`). The report is built by a fold over the handlers.
  What a fold computes for every list needs an induction, and the library states
  induction for predicates, which the provers cannot instantiate; it is therefore
  stated of a set of numbers (`Induction`, from the least number missing). The
  invariant of the loop is `TallyTrue`: after `n` turns the counter and the list of
  failed handlers are those of the first `n` executions.
- `FailuresLocated` (`FailuresAreLocated`): an answer shows the report the worker
  had (`Replied`), and in a consistent one (`ReportsConsistent`) at most one command
  failed, so the pointer and the list of commands mean the same command.
- `FinalStateAnswered` (`AnswerIsFinalState`). The inductive invariant follows the
  todo: at the insert its row is what was sent (`FreshRow`), while handlers run it
  is what was sent changed by the executions reported so far (`HeldRow`), and the
  answer keeps that (`AnsweredTodo`). A commit adds exactly the commands of its
  handler, by `Isolation` and `EffectOf`, and the report lists exactly these as
  applied (`FinalTodoNext`). The theorem assumes `Undisturbed`: one worker with any
  scripts, or any number of workers with scripts that touch only their own todo.
  Without it the statement is false, because a handler of another request may
  change the row before the answer. `Received` (a stored script came with a
  request) takes the hypothesis from the requests to the handlers that run.

`TodoRefinement_proofs`: `ServerImplementsService` is `Spec => ImplementsService`.
Under all the invariants above, and the fact that a request in progress has
passed its checks, each action maps to one action of `TodoService` or changes
nothing it shows: a command inside a transaction is a stutter, a commit or the end
of an undone transaction is one step, a crash drops the requests in progress. The
operators that server and service share are first shown equal under the mapping.

`ScriptRun_proofs`: `TypeCorrect`, `BudgetIsKept`, `ContextIsBounded`,
`DeadlineIsKept`, `BlameCorrect`. The invariant adds that instructions executed
and budget left always sum up to the limit plus what the hook has not seen yet,
what each limit status says about budget and clock, and that a command or a
message costs an instruction.

`DocsPage_proofs`: `TypeCorrect`, `OwnPartsCurrent`, `OneRelease`, `BreaksWhenLost`,
`NewBundleRuns`, for every `MaxAge`, any releases, versions and order of copying.
The invariant says of each cached copy that it is of the present release or has
less time left than a release needs to be `MaxAge` old, only vendored files are
cached, and the parts of a page opened on an installed release are of it. For
`NewBundleRuns` (`VersionProtectsBundle`) `BundleInv` adds that what is cached under
the URL of a new version is the new bundle, if nobody asked for it too early.

`Statements_proofs`: `TypeCorrect`, `NeverMisused`, `OwnParameters`,
`QuietBetweenRequests`, `StatementsImplementUses`. The invariant says, for each
place of the worker that holds the mutex, what its own statement and all the other
ones look like: the latter are always reset and unbound. With it every call maps to
one step of `StatementUses` or shows nothing: the binds and the rows before the
last one are stutters, the last step is the use, on parameters that are all of the
caller, and no call is refused for any reason but SQLite's own.

`RequestChecks_proofs`: `TypeCorrect`, `NumbersAcceptedAsSent`,
`AcceptsUpToNamed`, `DatesComeBack`. The invariant lists what a request has passed at each
check; the arithmetic is that a number within the modulus is its own remainder,
so no cast changes a number that was let through. `DatesComeBack` follows the
date through its units with three lemmas on quotients: dividing what was
multiplied gives it back, rounding down twice is rounding down once.

Every safety property of a passing run, action properties and refinements included,
is stated by one of these theorems. Only model-checked: liveness
(`EveryRequestAnswered`, `SomeRequestAnswered`, `RunEnds`), since fairness and
ENABLED are beyond the prover. That the refined modules also make progress is
likewise left to TLC: the refinements are of safety specifications.

## Disagreements found

Each is a run that TLC must find violated.

- `date_range`: a date is validated at milliseconds, but `system_clock` counts
  nanoseconds in 64 bits. `9999-12-31T23:59:59Z` (any date before 1677 or after
  2262) is accepted, and what is stored and answered is another date.
- `failed_index`: `openapi.json` says `failedCommandIndex` is present for
  `command_error`. A refused BEGIN or COMMIT is a `command_error` without one.
- `narrowing`: `set_priority` takes an `int`, so a large Lua integer wraps before
  `validateCommand` and a positive priority is refused as negative.
- `error_codes`: a command on an id that is not positive is reported as
  `INVALID_TODO_ID`, which is not in the documented enum of codes.
- `scalar_body`: a body that is a JSON number, string or literal makes
  `rvalue::has` throw, and Crow answers 500; the documented answer to correct
  JSON with wrong fields is 422.

Named by `OnlyNamedDivergences`, which shows that there are no others in what the
models tell apart. `openapi.json` is stricter than the code: it asks for
`application/json` (a media type that begins with it is enough), forbids
additional properties in `TodoCreate` and `HandlerCreate` (they are ignored), and
asks for a `date-time` (a date without leading zeros passes). It is laxer: it gives
texts no bounds and does not say that title, name and source may not be empty, gives
an event no bound but int32 (there are three), and allows an integer written as
`3.0` and a date with an offset or more than three decimals (all refused).

Seen, and not worth a run: the codes `CommandLimitExceeded` and `LogLimitExceeded`
of `ScriptErrorCode` are never produced; `serveFile` sets `Cache-Control` first, so
that a 404 for a vendored file may be reused for a day, which `DocsPage` models.

## Not modelled

- Third-party code (Crow, SQLite, SQLiteCpp, Lua, sol2, Swagger UI): only what
  the server relies on. Three conversions are mapped to their vendored lines
  (`rvalue::i` and `rvalue::u` of Crow, the integer getter of sol2); the rest is
  marked external.
- Routes that answer 501 and the constant list of events: no state.
- What the documentation page looks like: `DocsPage` ends when the
  specification is there; requests that a reader sends from the page are left out.
- Schema migrations: run offline before the server starts.
- The calendar inside a date: `Dates` takes a text as a number of milliseconds
  since the epoch, or as no date.
- `storage_error.cpp`: no caller looks at the code of a `StorageError`.

## Plan

Done, in this order: `HandlerCommands`, `TodoData`, `TodoServer`, their runs and
first theorems; `TodoService` and the refinement; `ScriptRun`; `Statements`;
`HttpReport`; `RequestChecks`; `Dates`; `DocsPage` with its theorems; the proofs
of the remaining safety properties of `TodoServer` and of the refinement.

The last steps: `TodoReport` with the proofs of the properties of the answers, and
`StatementUses` with the refinement that justifies the grain of `TodoServer`.

Left:

1. Larger instances of `TodoServer`, three workers first. Its safety properties are
   proved for any number; the liveness properties would gain.
2. `AnswerIsFinalState` without `Undisturbed`: the answer is the todo sent, changed
   by the executions of all requests in the order of their commits. It needs a
   history of commits, which the program does not keep.
3. `ScriptRun` as an implementation of the one step in which `TodoServer` runs a
   script (`QueuedBy`, the endings of a `Script`). Today the step is justified by
   `RunEnds`, `BlameIsTrue` and `ContextBounded`.
