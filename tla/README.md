# TrackFlow, formally

TLA+ models of the TrackFlow code base, TLC configurations that check them on
small instances, and theorems about them that TLAPS checks for every instance.

## 1. The system and its parts

TrackFlow is a FastAPI backend (`services/`), a Prefect pipeline
(`data/pipelines/`), Celery tasks (`services/tasks/`), scheduled scripts
(`scripts/`) and two Next.js applications (`uis/backoffice`, `uis/website`).
PostgreSQL holds inventory, telemetry, the report, the run log and `job_runs`;
TinyDB JSON files hold users, profiles, incidents and suppliers; Redis carries
the tasks.

| Part | State | Operations | Talks to | Hard behaviour | What makes it correct |
|---|---|---|---|---|---|
| Job runner (`services/job_runner`) | table `job_runs`, one partial unique index | `run_job`: sweep, lock check, duplicate check, claim, work, record | the script's work; the database | two cron lines, SIGTERM, SIGKILL, outages, an execution swept while alive | one execution at a time, one completion per day, every end on record, no lock for ever |
| Nightly export (`scripts/nightly_export.py`) | CSV file and its `.partial` | export, trigger the pipeline, exit code | job runner, Prefect | overlapping works on one `.partial`, exit codes | the file is whole or absent; the exit code tells the truth |
| Weekly pipeline (`data/pipelines`) | `reporting.pipeline_runs`, the report tables, `run_log_fallback.jsonl` | open_run, load, skip, fail, complete; hooks | Prefect, PostgreSQL | retries, operator retries, hooks, dead processes, clock crossing a week | one run at a time, newest snapshot wins, row and data agree, no end unrecorded |
| Extraction, rollup, health | none of their own | read, compute | database | rows that commit after the cutoff they precede | figures depend on weeks and cutoff only |
| Reporting API (`services/reporting`) | none | read report, trigger run | run log, Prefect | advisory 409 | the slot decides |
| Tasks (`services/tasks`) | result backend, broker queues, `task_dead_letters` | enqueue, status, run, retry, dead letter | Redis, workers, database | lost acknowledgements, redelivery, worker death, database down at the failure | an accepted task ends; every failure leaves a letter; the status tells the truth |
| Inventory (`services/inventory`) | products, orders | create product, record order | database | concurrent outbound orders | stock never negative, sku unique per warehouse |
| Incidents (`services/incidents`) | a TinyDB file, a summary cache | create, update, change status, summary | threads of the API | check-then-write, a summary computed before a write | lifecycle respected, no stale summary cached |
| Identity (`services/auth`, `users`, `profiles`) | TinyDB documents | register, login, reset, change password | threads of the API | check-then-write over one file | one account per e-mail, a reset link works once |
| Telemetry ingest (`services/telemetry`) | table of events | validate, insert ignoring known ids | browser | a batch sent twice | each event stored once |
| Telemetry emitter (`uis/backoffice/services/telemetry-service.ts`) | a bounded queue in the page | enqueue, flush, flush on hide, drop report | ingest | awaits, page hide, a full queue | an event is sent, kept or reported as dropped |
| Browser session (`AuthProvider.tsx`, `api-client.ts`, `auth-storage.ts`) | token in storage or memory, the provider's status | sign in, sign out, check, 401, redirect | API, the other tabs | late answers, tabs that share a token, a browser that refuses storage | one redirect; who signed in is not forgotten; a check ends |
| Lists and forms (`uis/backoffice/components`, `uis/website/components/candidates`) | rows, filters, drafts, messages, requests under way | load, filter, change, retry, submit | API | answers out of order or lost, pages left during a request | what is shown matches what was asked; what is known to be done is not sent again; waiting ends |
| Account pages (`components/auth`, `components/account`) | form, errors, what the page heard | sign in, register, ask for a link, reset, edit, change the password | API | lost answers, spent links, a sign-in that fails after the account exists | what is done is not sent again |
| Utilities (`src/utils`) | none | search, sort, aggregate, validate | | missing values, ranges the wrong way round, stability | they agree with their definitions |

`PROJECT.json` lists the same parts with their files and how far each is
modelled, and under `hazards` each place in the code where one of the hard
behaviours bites, with the properties that watch it.

## 2. The modules

| Module | Models | Checked by | Proved in |
|---|---|---|---|
| `JobRunner` | `run_job`, statement by statement | `MCJobRunner.cfg`, `MCJobRunnerTwice.cfg` | `JobRunnerProofs` |
| `PublishedReport` | what the weekly report promises its readers (abstract) | as `KeepsPromise` of `PipelineRuns` | `PipelineRunsProofs` |
| `PipelineRuns` | flow runs, run log, sweep, load, hooks | `MCPipelineRuns.cfg`, `MCPipelineRunsSlowOpen.cfg` | `PipelineRunsProofs` |
| `TaskQueue` | enqueue, broker, workers, retries, dead letters | `MCTaskQueue.cfg` | `TaskQueueProofs` |
| `StockLedger` | what the inventory promises its callers (abstract) | as `KeepsLedger` of `Inventory` | `InventoryProofs` |
| `Inventory` | product creation, stock movements, the seed | `MCInventory.cfg` | `InventoryProofs` |
| `Incidents` | incidents over the shared file, their cached views | `MCIncidents.cfg`, `MCIncidentsFinal.cfg` | `IncidentsProofs` |
| `TelemetryEmitter` | the page's event queue and the ingest endpoint | `MCTelemetryEmitter.cfg`, `MCTelemetryEmitterLosses.cfg` | `BrowserProofs` |
| `WeeklyRollup` | from the stored events to the rows of the report | `MCWeeklyRollup.cfg`, `MCWeeklyRollupLate.cfg` | `WeeklyRollupProofs` |
| `BrowserSession` | token, provider, guard and sign-in page in the tabs of a browser | `MCBrowserSession.cfg`, `MCBrowserSessionLate.cfg` | `BrowserProofs` |
| `FlowTelemetry` | the hook `useFlowTelemetry`, as operators over a flow | with the forms that use it | `PagesProofs` |
| `IncidentScreens` | incident list, status controls, summary panel | `MCPages.cfg` | `PagesProofs` |
| `IncidentReport` | the incident form | `MCPages.cfg` | `PagesProofs` |
| `SupplierScreens` | supplier directory and page, rate editor, status toggle, create form | `MCPages.cfg` | `PagesProofs` |
| `InventoryOrderForm` | the order form with its product list and stock | `MCPages.cfg` | `PagesProofs` |
| `InventoryLists` | product list and order list | `MCPages.cfg` | |
| `WeeklyDashboard` | the weekly performance dashboard | `MCPages.cfg`, `MCWeeklyDashboard.cfg` | `PagesProofs` |
| `AccountForms` | the six forms of an account | `MCPages.cfg` | `PagesProofs` |
| `CandidatesList` | candidate list and create modal (website) | `MCPages.cfg` | |
| `CandidateDetail` | one candidate's page with its two forms and its notes (website) | `MCPages.cfg` | `PagesProofs` |
| `Pages` | one tab on one of these pages | `MCPages.cfg` | `PagesProofs` |
| `Collections`, `Validations` | `src/utils`: pure functions | `MCUtilities.cfg` | |

### JobRunner

Every execution of `run_job` is a process of its own; executions share only the
table. `rows[e]` is the row execution `e` inserted (an execution inserts at most
one, under its own `run_id`). `pc[e]` is the next line of `run_job`; each action
is one statement of it, and each statement is a transaction of its own, as in
the code: `Sweep` is `sweep_abandoned`, `CheckLock` and `CheckCompleted` are the
two advisory checks, `Claim`/`ClaimRefused`/`Recheck` are `create_job_run` with
its `IntegrityError` handler, `MarkProcessing`, `MarkCompleted` and `MarkFailed`
are conditional updates through `_transition`. Faults are separate actions: the
work raises, a database call raises, SIGTERM (the first one only, at any line),
SIGKILL. A statement that commits without being acknowledged is its own step
followed by `DatabaseRaises` at the next line. `Guarded` and `Unguarded` split
the lines by whether an exception leads to `mark_failed`.

The clock is the database's. `MaxRun` bounds how long a live execution can hold
its row; the code's own bound is the pipeline's three-hour timeout against
`STALE_AFTER` = 6 h. The instance takes `MaxRun > StaleAfter`, so a live
execution *can* be swept.

### PipelineRuns

`pc[r]` is where flow run `r` is, `row[r]` its row of `pipeline_runs` (a flow run
has at most one). `OpenRun` is one step because `open_run` holds an advisory lock
for its whole transaction, as does the load; `Publish` is the committed load with
`complete_run` in the same transaction, and `StaleSnapshot`/`LoadRefused`/
`LoadUnacknowledged` its other ends. `SkipRun` is the separate transaction that
follows a stale snapshot. `Hook` is `_record_unsuccessful_end` with its fallback
file. `ManualRetry` is an operator's retry of a failed flow run in Prefect.
`Crash` is a stop Prefect sees, `Die` one it does not.

The report is abstracted to the cutoff its figures were read at: extraction and
computation are taken as functions of the weeks and the cutoff, so two loads of the
same week and cutoff write the same rows. (What an attempt reads besides, a telemetry
row that commits after the cutoff it was stamped before and the catalogue of the moment,
is in `WeeklyRollup`.) Weeks are numbered; week `w` is the time
`[(w-1) * WeekLength, w * WeekLength)`.

A week may close between `closed_weeks()` and `open_run()` of one attempt. Then a
retry writes newer weeks than its row names: `LoadIsOfTheSnapshot` says how far that
goes, and `SpanMatchesLoad` and `WeeksShowTheNewest` are what it breaks (section 5).

`PublishedReport` is the specification of the report alone: weeks are published
once they have closed, several together or none, and never from an older snapshot
than one on record for them. What is published goes on record, except that the newest
weeks of it may stay off it: `_newer_completed_run` looks at the weeks that rows name.
`KeepsPromise` is the refinement, in which `onRecord` is read off the completed rows.

### TaskQueue

`call[j]` is where `enqueue` is with task `j`, `state[j]` what the result backend
records of it, `broker` the messages not yet acknowledged. One task may have
several messages at once: a retry is a new message, and a publication whose answer
is lost is repeated. `at` says where a message is: queued, or held by a worker
whose code runs (`running`), which is about to write the letter (`failing`) or to
hand it over (`handing`), or which has only the acknowledgement left (`acking`).
The recorder task is a message of kind `letter`.

Celery and Redis are not under `src/`; they are modelled from their configuration
in `celery_app.py` and from what the docs of `services/tasks` say of them. Two
consequences deserve naming. `ChildLost` is the documented gap
(`docs/ASYNC_TASKS.md:173`): Celery records FAILURE and calls no `on_failure`.
`RetryLost` is a retry that cannot be published: Celery rejects the message and
keeps the record at STARTED. The tasks of either kind are in `forsaken`, and the
properties except them. A message that waits for longer than the visibility
timeout is not modelled: the countdowns stay below it, which a test pins.

### Inventory

A request and an execution of the seed are transactions over the same tables.
`draft[t]` is what `t` has written and not committed, `lock[i]` who holds product
`i`'s row, `rows`, `inbound` and `outbound` what is committed: the code only ever
reads sums of movements, so the sums stand for them. One action is one SQL
statement; a `SELECT FOR UPDATE` waits for the row, an insert for an uncommitted
row with its unique key, as PostgreSQL does. `record_order` is shared by requests
and the seed (`LockProduct` to `Add`), as in the code. A product is named by the
request that created it or by the item of the seed. When a transaction ends, its
local variables (`seen`, `at`) are reset, which keeps states together that the
code cannot tell apart. A seed that finds its own products or movements may find them
as an earlier execution stored them, with another owner or by another user
(`SeedDiffers`): whether they differ is left open.

`StockLedger` has no statements, locks, drafts or identifiers of movements: a request
or a seed happens at one instant, or fails without effect, and gets an answer that is
true then (`exists`: the key has an owner; `refused`: the stock is less than was asked;
`created`: it is done; `error`: nothing is promised). A seed adds all its products with
their stock, or finds them all, or is refused because a key of it is taken. Whoever is
unanswered in `Inventory` is `asked` there, wherever it is in its transaction, so every
statement but the commit and the answers is a stutter. `KeepsLedger` is the refinement.

Where a transaction waits is in `Waits`, with what it waits for; the actions say the same
by their guards. `GoesOnIfEnabled` of `MCInventory` compares the two; TLC finds it true on
the instance of the run.

### Incidents

The handlers are plain functions, so FastAPI runs them on threads. `file` is what
the TinyDB file says of every incident. A write reads the whole file
(`Reread`, into `copy[r]`), changes its copy and writes it back (`WriteFile`); the
lifecycle check of `update_status` is a read before that (`Look`). `other` is a
write of another domain's table, which carries the incidents it read along. Reads
and writes of the file are atomic steps, except that a read during a write may
raise (`Torn`; `memory-bank/progress.md:107` reports it): TinyDB's threads share
one file handle, and a half-read file that still parses is left out.

The summary and the list under each filter are `Views`. What they show is
abstracted to `version`, how often the file had been written when they were
computed. `Hit` to `Set` are `list_incidents` and `get_summary`; each call of the
cache is atomic under its lock, and nothing holds that lock between two of them.
Which entries go when there are too many, or too many bytes, is left open, except
that the one just added stays. Expiry may happen at any time.

### TelemetryEmitter

One page, one `TelemetryService`. JavaScript runs a handler to its next `await`
undisturbed, so an action is what runs between two awaits: `Track` includes the
flush it starts, `Delivered` and `GiveUp` everything from the answer to the next
request or the end of `flush`, its drop reports included. `flight` is the batch
`flush` awaits; `flushing` is true exactly when it is not empty. Of a drop counter
the model keeps *which* events were counted, of which the code keeps the number, so
that losing one can be told from counting it.

A request either reaches the endpoint or does not, and its answer may be lost. A
beacon the browser accepted may arrive or not; either way the page has handed it
over (`known`). Closing the page, which ends its memory, is not modelled.

### WeeklyRollup

The state is what is stored: `events`, the insert transactions still `open`, the
`products`, the published `report`, the `completed` runs and the one in progress.
A product may be created, or claimed by the seed, at any moment (`StoreProduct`);
an attempt reads the catalogue as it is, without a cutoff. Everything
between is operators over sets of events, named after the functions of
`weekly_rollup.py`: `SourceEvents` is the query, `Excluded` and `Superseded` what
`prepare_events` leaves out, `Countable` what remains, `Rows` the KPIs on the grid,
`Valid` the gate, `Loaded` the upsert with its delete of stale keys. `Publish`
composes them. `created_at` is stamped when a transaction begins, and `Commit`
comes later, maybe after a run's cutoff.

`FactRows` is the reference: it never excludes or removes an event, but says for
each business fact which report decides and counts facts. A fact is what
`business_key` makes one; texts and their forms are members of small sets, an
invalid one is `NoValue`. A sum of quantities is counted unit by unit (`Units`,
`Delivered`), which is the same number and needs no recursion. The table is taken to be
what its columns make it (`EventsAssumption`): ids unique, quantities integers or absent. Which run may be open when is `PipelineRuns`' subject.

### The browser modules

They share their conventions. JavaScript runs a handler to its next `await`
undisturbed, so a step is what runs between two awaits, every setter of it
included. A request is a record in a set (`reads`, `patches`, `posts`, `calls`):
the API's step and the page's step that hears the answer are separate, so answers
arrive in any order, and a request may fail before or after the API did what it
asked. `active` (or `current`) is the effect's cleanup flag: an answer for a
superseded or unmounted effect changes nothing. What the JSX shows or disables is
an operator (`FormShows`, `ListShows`, `SubmitEnabled`, ...) whose fields guard
the operator's actions, so that a control that is not on screen cannot be used.
Variables marked `history` are read by properties only; those marked `bound` cap
the requests.

- `IncidentScreens`: `stored` is the API's; `moves` are the PATCHes of the rows'
  controls, applied to the row at once and taken back on failure; `summary` is the
  number of changes counted when it was read. Other operators change incidents too.
- `IncidentReport` and the other forms report to a `flow` of `FlowTelemetry`, whose
  operators are the hook's functions; `balance` counts what it reported.
- `SupplierScreens`: `rows` carry the record shown and what the row's rate editor
  holds. The detail page is the same module with one row and no filter.
- `InventoryOrderForm`: `stock` is what was read, for which product and attempt;
  the API refuses what exceeds `current`, which other orders move.
- `InventoryLists`: the product and order lists; `WeeklyDashboard`: the week asked
  for, the figures held, and the buttons between weeks.
- `AccountForms`: the six forms share one shape. `ApiOutcomes` says what the API may
  make of each request, `Hears` is the rest of each `handleSubmit` after its await.
- `CandidatesList`, `CandidateDetail`: the website's pages over the records API; the
  detail page has two forms over one record, whose loads and saves overlap. Status and
  stage are in both forms, and any field may be left blank, which the details form
  refuses to save and the other one does not. `"blank"` is a list in error whose message,
  and retry, a silent refresh has taken away.
- `BrowserSession`: `storage` is the token all tabs share, `memory` the fallback of
  each; `calls` carry the token of the moment they were sent. A provider is mounted
  with a protected page, and `going` is a navigation that has not ended yet. Its retry
  goes back to waiting even when nobody is signed in and the redirect is already under
  way: `CheckEnds` says that waiting ends in an answer or in that navigation.

`Pages` puts one of these pages on screen: its neighbours are unmounted, so pages
share names and no state, and a variable the page lacks is `None`. The parameters of
the pages are its own, with a bound per page where a page counts requests; `MCPages`
gives them values.

### Utilities

`Collections` and `Validations` have no state: each operator is a function of
`src/utils`. Text is a record of what `trim().toLowerCase()` leaves and of how it is
spelled; a validator yields the set of fields it names. `MCUtilities` builds a list
item by item, and a record whose author corrects the fields named.

### Mutants

An operator commented `Mutant` stands before the definition it is a faulty version
of. No specification uses it; replacing the definition by it must refute a property.

## 3. The runs

| Run | Question | Result |
|---|---|---|
| `job_runner` | Do the promises of `run_job` survive every interleaving of two executions and every fault? | holds; 585 604 states |
| `pipeline_runs` | Slot, report, run log and the promise to readers with two flow runs, retries, operator retries, deaths and a closing week | holds; 1 693 983 states |
| `task_queue` | Does an accepted task end, and does a failure leave a letter, through redelivery, retries and deaths? | holds; about 230 000 states |
| `inventory` | Do two requests and two seeds under READ COMMITTED implement the ledger, is the seed all or nothing, and does nobody wait in a ring? | holds; 276 305 states |
| `incidents` | Is a list or summary ever older than an answered write? | holds; 111 257 states |
| `incidents_final` | "`resolved` and `discarded` are final" | refuted: a write of another table that read the file earlier puts a resolved incident back to in_progress; two operators' moves do the same |
| `telemetry_emitter` | Does no event vanish, and does the queue always move on? | holds; 75 475 states |
| `weekly_rollup` | Does a run publish each fact of its snapshot once, whenever it gets to publish, and do late events inflate nothing? | holds; 78 976 states |
| `browser_session` | Do two tabs of one browser redirect once, keep who signed in signed in, and end every session check? | holds; 106 620 states |
| `browser_session_late` | "Clear an invalid token once": is it the refused token that a 401 clears? | refuted: a late 401 clears the token of a newer sign-in |
| `pages` | For each of nine pages: is what it shows what was asked for, is what it knows to be done not sent again, does waiting end? | holds; 258 173 states |
| `utilities` | Do searches, sorts, the numeric report and the validators agree with their definitions on every small list and record? | holds; 18 608 states |

More configurations are kept to be run by hand (`tlc -config X.cfg M`):

| Configuration | Module | Shows |
|---|---|---|
| `MCJobRunnerTwice.cfg` | `MCJobRunner` | two completions of one day, without any fault |
| `MCPipelineRunsSlowOpen.cfg` | `MCPipelineRuns` | a retry publishing newer weeks under its first attempt's row |
| `MCTelemetryEmitterLosses.cfg` | `TelemetryEmitter` | an event removed unsent after the page hid during a request |
| `MCWeeklyRollupLate.cfg` | `MCWeeklyRollup` | an event that an attempt reads and the one before it did not, and one hidden from every run by a backfill's cutoff |
| `MCWeeklyDashboard.cfg` | `WeeklyDashboard` | the dashboard that loads for ever |
| `MCTaskQueueMore.cfg` | `MCTaskQueue` | holds: `FailureSettles`, and three invariants that are proved |
| `MCTelemetryEmitterMore.cfg` | `TelemetryEmitter` | holds: `TypeOK`, `StoredOnce`, `DropsAreReported` |

### Bounds, and why they are enough

- *JobRunner*: two executions. Every property relates one execution to one other
  (a holder and a challenger, a swept row and its sweeper). Three tasks are two
  dates of one job and a second job, so same-date, same-job and unrelated pairs
  all occur. `StaleAfter = 1`, `MaxRun = 2`, `MaxClock = 2`: a row can be young,
  exactly at the limit and past it. The theorems lift the bound.
- *PipelineRuns*: two flow runs with two attempts each and one operator retry
  each. The clock starts just before a week closes (`WeekLength = 3`, from 8 to
  10), passes the close at 9 and lets a row reach `AbandonAfter = 2`;
  `MaxLife = 1` is below it, as the flow's timeouts are below `ABANDON_AFTER`.
  `Asked` has the default window, a closed week and the one that closes on the
  way, so `InvalidWeek` occurs. Runs are symmetric.

- *TaskQueue*: one task, since tasks share no state; a retry of its own and one of
  the recorder's, so that the first, a middle and the last attempt all exist for
  both; up to three messages of the task in flight (the publication repeated, and a
  retry besides) and two faults, so that a fault can hit the handling of another.

- *Inventory*: two requests that compete for one unit left, or race the seed for its
  sku, and two seeds whose locks on two products meet. Quantities 1 and 2 are below,
  at and above the stock. One item moves no stock, so the branch that skips a
  movement of nothing occurs. The theorems lift the bound.

- *Incidents*: three requests: a stale view needs one reader that computes, one
  writer and one later reader. Two views and a cache of one entry make them evict
  each other; every stored status is an initial one. Incidents only matter one at a
  time; the second is the one to create. The theorems lift the bound.

- *TelemetryEmitter*: a queue of three and batches of two, so a full batch, a partial
  one and a full queue occur; four calls of `track()`, so one meets the full queue;
  one retry, so the first and the last attempt differ. The queue must have room for
  a report of each of the three reasons (the code's has 500): with less, a failing
  endpoint would keep two counters from ever being reset, which
  `EmitterAssumption` excludes.

- *WeeklyRollup*: a history with three counted orders, one of them by a clock that is
  ahead, a delivery told twice, a crossing, a count that may be repeated, and one event
  for each reason of exclusion; two more events, each an order or a count of the same
  fact, so that it is told up to three times, in either order, in one week or two. One
  product without an owner gets one. Two runs, since a stale key needs one before. For
  the late events one event more and three runs.

- *BrowserSession*: two tabs share the storage or are both denied it (`blocked`); two
  sign-ins, so an older and a newer token exist; five requests, enough for a call of
  the old session to be answered after a sign-in of the new one in another tab.

- *Pages*: two to five requests a page
  beyond its first: the answer that is late, the one that overtakes it and a retry.
  One incident and a filter it may enter or leave; two suppliers, of which one is created
  while the page is open; two products and a stock of at most one, so that a refusal
  for lack of stock occurs; four weeks of which two are calculated, so that both ends
  of the range and a week without figures occur; three candidates of two statuses,
  two of them to be registered, so that a filter may exclude the new one; two notes, one
  of them to be written; a field of a candidate holds one text or is blank, so that
  either form can change what the other shows.

- *MCUtilities*: lists of up to three items, among them equal prices, a missing price,
  an invalid date and a text spelled two ways; criteria with ranges either way round
  and open at either end. A comparison with an invalid date is no number, so a list with
  one may be sorted in any order: `Sorted` is the set of lists a sort may yield,
  and `SortIsLexicographic` is about fields without an invalid value. Records with up to
  two wrong texts and each other field wrong or right, a missing list of needs included.

Deadlock is checked in every run but those of the session, the pages and the utilities;
`Over` is the stutter of a finished instance. In those three it is not: a page whose
requests are answered and whose operator does nothing has stopped, and rightly so.

### Fairness

`JobRunner` (`Recovers`: after a crash the next execution gets the job done),
`TaskQueue` (`AcceptedEnds`, `FailureSettles`), `TelemetryEmitter` (`EventsLeave`,
`DropsAreReported`), `BrowserSession` (`CheckEnds`) and `Pages` (`WaitingEnds`)
state liveness. In `JobRunner`,
`FairSpec` has weak fairness of each launched execution's own
steps: a process that is neither killed nor blocked runs on, database calls
return or raise, and the work returns because the export bounds its pipeline by a
timeout. Launches, faults and the clock have none. In `TaskQueue` it is weak fairness of the
work on each message identity: a worker is there to take what is queued, and the
task's soft and hard time limits end what it took. The calls of `enqueue` have
none, since an API process may die in one. In `TelemetryEmitter` it is weak fairness
of the interval, of the sleep between retries and of the answer: timers fire while
the page lives, and browsers end a request sooner or later. `Track` and `Hide` have
none. In `BrowserSession` and `Pages` it is weak fairness of `Hear`: a request is
answered, or fails, sooner or later, whichever it is; requests are bounded, so each
has its turn. What people do, navigations and other tabs have none.

## 4. The proofs

All theorems are checked by TLAPS with no assumption beyond the constants' and
those in their statements.

*JobRunnerProofs.* `IInv` is the inductive invariant: types, `OneActiveRow` (at
most one active row per job, which the index enforces at the insert and no update
undoes), and for each execution `RowInStep` (where `run_job` is determines its
row's status, *unless a sweep took it*) and `RowSane`. `WorkExclusive` alone is
not inductive: that two executions cannot both be working says nothing of the
lines before the work, which is what `RowInStep` adds. From it:
`WorkIsExclusive`, `ReturnsAreTruthful`, `FinalRowsStay`,
`RerunsNeverWork`, and `FailuresAreOnRecord`: by `RowInStep` an execution has no active row
where it may end in any other way. `TurnedAwayByTheFresh` is about two statements, the sweep
and the lock check after it: `SweptClean` says that whatever is active for an execution
that has swept was fresh then, or has been claimed since. `ShortRunsExclude` assumes `MaxRun <= StaleAfter` and proves
unconditional exclusion: the argument the comment on `STALE_AFTER` makes.

*PipelineRunsProofs.* In layers, each the invariant the next one stands on:

1. `Slot` (types, one running row): `OpenShape` says all that `open_run` does to
   any row. Gives `SlotIsExclusive`, `RowsNeverMoveBack`, `SlotComesBack`.
2. `Recorded` adds how a flow's place and its row correspond. Gives `NoEndIsLost`.
3. `Spans` adds when weeks were computed: those of an attempt about to open its row
   no earlier than the row's cutoff, those of a row no later. A load then writes its
   row's weeks or those of its row's cutoff. `SameWeeks` is the arithmetic: if the
   window ends by the cutoff, the weeks computed now are those of the cutoff. Gives
   `LoadsAreOfTheSnapshot`.
4. `Fresher` adds `ReportIsNewest`. `PublishShape` says what a load changes: gives
   `NewestSnapshotWins`. With `NamedAreOldest` (the weeks off record are the newest
   written) and `PublishIsPromised` it gives the refinement `ImplementsPromise`.
5. `Alive` (under `MaxLife < AbandonAfter`) relates a live run's age to its
   row's. Gives `NoFirstLifeIsSwept`.

*InventoryProofs.* Five invariants, each on the types (`TypeInv`).

1. `StockParts`: who reads or changes a product's sums holds its row (`Locked`), so
   what it read still holds (`Reads`) and no draft would overdraw if committed now
   (`Balanced`); `NeverOversold` alone is not inductive, as it says nothing of
   drafts. `RollbackStock` and `WriteStock` are the two ends of a transaction. Gives
   `StockNeverNegative`.
2. `KeyParts`: keys are unique over all that anybody sees (`UniqueKeys`), products
   keep their key (`KeysStay`). Gives `SkusAreUnique`.
3. `SeedParts`: what is behind a seed in its three loops is in its draft or
   committed (`Progress`). Gives `SeedsAreWhole`.
4. `HoldParts`: who holds a row or has a product in its draft is past its first wait, and
   a seed past its first product holds that product (`HasFirst`), so one seed at a time
   is (`SeedsAreSerial`). A transaction that waits, waits for a request, which then waits
   for nobody, or for the one seed in its turn, which waits for requests only: this gives
   `NoWaitingRing`, though `SomeoneGoesOn` itself says nothing of who holds what.
5. `DraftParts`: what drafts hold, exactly. A request has written one thing, right before
   its commit; a seed has written the movements whose identifiers it holds, each once, and
   nothing at all if its products were there. With 1 to 4 (`LedgerInv`) it gives
   `ImplementsLedger`: the commits are the ledger's steps (`CommitOfRequest`,
   `CommitOfSeed`), each answer is true when it is given (`LookStep`, `NotFoundStep`,
   `RefuseStep`, ...), and a seed is never short of its own stock (`SeedBalance`).

*IncidentsProofs.* `Recent` is the inductive part: what is cached is at least as
recent as the last answer, and so is what a reader is about to cache, *as long as
the generation it read is the current one*; an answer moves the generation first.
`ServedIsRecent` alone says nothing of views not yet served. `Fits` adds that the
cache is finite, which its limit needs. Gives `TypesHold` and `ReadsAreRecent`.

*TaskQueueProofs.* `IInv` holds the types and, per message, `Honest`: as many errors
on record as the message has retries behind it, and a letter wherever one is to be
written or handed over. Per task it holds `Called` (a call that has not begun has left
no trace, one that may be answered 202 has a record), `Carried`, `Recorded` and `Tells`,
the parts of the properties. No property is inductive without `Honest`: that a failure
has its letter follows only if who carries the letter has one. `Handles` is the step of
all worker actions: a message is moved, at most one is added, and what the step owes
the message's own task is all that each action has left to show; `Calls` is the same
for `enqueue`. Gives `AcceptedAreCarried`, `FailuresAreRecorded`, `LettersTellAttempts`
and `MarkerIsFirst`.

*BrowserProofs.* Of the session: `Redirected` adds to `OneRedirect` that a provider that has not
left has redirected nobody. `Kept` adds to `SignInIsNotForgotten` where the token is:
in a tab's memory only while the browser refuses storage, and in every answered sign-in.
Gives `RedirectsOnce` and `SignInIsKept`.

Of the emitter, an instance there whose `EmitterAssumption` each theorem names:
`EmitterInv` is `TypeOK` and `StoredOnce` (`StoredAtMostOnce`). `ContentsSplit` says that
what a batch takes of a queue and what is left are all there was, and `ReportedKeeps`
that `reportDrops` loses no counted event. The reports are made in any order of the
reasons, and `OrdersAreWhole` is why none is left out: an injection between finite sets
of one size is onto. `EventsStay` is then one case per action, and gives `NoEventVanishes`,
which is `NothingVanishes`; its exception for a page that hid is what `BatchInFront` uses.

*PagesProofs.* A page is on screen alone, so each keeps an invariant of its own:
`OpensOnePage` and `StepsOfOnePage` say that a step of all of them is a step of the one
on screen, which stays there. The one assumption is `WeeksAreNumbered`. Most of the
properties are about what an answer finds, so their invariants are about the requests
under way:

- `FiltersInv`: a read that can still be heard is one under the filters chosen now.
  `ListMatchesFilters` alone says nothing of the answer that will come.
- `SummaryInv`: a count that can still be heard is at least as large as what the list had
  confirmed when it was last asked for, and no confirmed change is above `changes`.
- `RowsInv`: what is stored was held, so is what any answer carries, and a row that shows
  what was not held belongs to a control that is still saving, which alone can take it
  back. One step of it per kind of request.
- `Balanced`: the flow is of its type and has one beginning open while it lasts; the
  lemmas say that every function of the hook keeps it.
- `SupplierInv`: the rows of an answer have no editor open, so none brings a draft.
- `OrderFormInv`: stock is held, and read, for no later attempt than the form's; while
  the refusal stands, what is held is of an earlier one.
- `DashboardInv`: a read that can be heard is of the week in the heading, and an answer
  is of the week asked for, if one was asked for.
- `AccountInv`: a form that is `settled` is `Locked` (submitting, sent, or with a link
  that was refused), and an answer finds it locked.
- `CandidatePageInv`: at most one read of the record can be heard, and none once the
  forms are on screen, which is while either is typed in; otherwise a late read would put
  the record under the edits.

*WeeklyRollupProofs.* `RollupInv`: the stored events and those still open are one table,
and a run's weeks follow one another and are over. That every fact has one deciding
report (`FactIsDecided`) needs a first element of a finite, totally ordered set:
`HasFirst` proves it by well-founded induction over its subsets, and `DecidesIsTotal`
shows that the order of `duplicate_mask`, reversed for discrepancies, is total among the
reports of a fact. `CountingDecides` then says that `duplicate_mask` leaves the deciding
reports and no others, by which

1. `CountsAgree` and `VolumesAgree` match reports to facts one to one (`SameSize`), key
   by key and unit by unit; `WeekBounds` is the arithmetic that makes the query's two
   timestamps and the week of an event agree. With `GateOpens` (the gate refuses no rows
   the transform makes) this gives `FactsArePublished`.
2. `OneMoreReport`: an event more leaves as many reports of each other type, and of its
   own as many or one more. Gives `LateEventsCountOnce`.

Only model-checked: the properties of the utilities (`SearchIsConjunction`,
`SortIsLexicographic` and `SearchesAgree` are about recursion over sequences,
`OneRoundIsEnough` about the corrections the instance makes) and the liveness properties
(`Recovers`, `AcceptedEnds`, `FailureSettles`, `EventsLeave`, `DropsAreReported`,
`CheckEnds`, `WaitingEnds`). Proved and no longer run, since the theorem says more than an
instance: the types of `JobRunner`, `PipelineRuns`, `Inventory` and `Incidents`,
`FinalIsFinal`, `OnlyLostRunsStayActive` and `LockIsTemporary` of
`JobRunner`, `RowsMoveForward`, `ReportIsNewest`, and of `Inventory` `OneProductPerKey`,
`SeedsTakeTurns` and `NeverOversold` (which `KeepsLedger` implies).

## 5. What disagrees with the code's own account

Found by registered runs:

- `incidents_final`: the lifecycle is checked on a copy, and the file is rewritten
  whole from another.
- `browser_session_late`: "on a 401 clears it" (`api-client.ts:264-266`), but what is
  cleared is whatever is stored by then. Two tabs and three requests suffice: one tab
  sends with an expired token, the other signs in again, and the late 401 signs both out.

By configurations kept to be run by hand:

- `MCJobRunnerTwice.cfg`: "one completed run per day" (`nightly_export.py:12-13`,
  `docs/NIGHTLY_EXPORT.md:142`) is a check made before the claim (`service.py:280`) and
  never repeated: two executions of one date pass it before either claims, the first
  works and completes, and the second claims the free slot.
- `MCPipelineRunsSlowOpen.cfg`: an attempt recomputes its weeks from the clock
  (`pipeline.py:310-311`), its row keeps those of the first (`run_log.py:184-205`). If a
  week closes between `closed_weeks()` and `open_run()`, a retry publishes newer weeks
  under a row that names the older ones, and a run of those newer weeks alone that
  comes back later with an older snapshot is not told that they were written since:
  "already published a newer snapshot of the same weeks" (`pipeline.py:307`) is asked of
  the rows alone (`load.py:100-106`).
- `MCTelemetryEmitterLosses.cfg`: `flush` removes as many events as it sent, not the ones
  it sent (`telemetry-service.ts:166-167`). What is queued during a request, after the
  page hid and its beacons emptied the queue, is removed unsent and uncounted.
- `MCWeeklyRollupLate.cfg`, `SnapshotHolds`: "the same window and cutoff always read the
  same rows" (`extract.py:18-19`, also `PIPELINE_DESIGN.md:356`, `947`), but `created_at`
  is the start of the inserting transaction, so a row stamped before the cutoff may
  commit after an attempt has read, and the next attempt reads it too. The catalogue
  is read again by each attempt as well (`extract.py:165`), and has no cutoff at all.
- `MCWeeklyRollupLate.cfg`, `LateIsDetected`: one cutoff stands for what earlier runs saw, whatever weeks
  those runs looked at (`run_log.py:103-106`): an event that arrives before a backfill
  of an older week is counted as late by no run ("detected, not lost",
  `PIPELINE_DESIGN.md:859`).
- `MCWeeklyDashboard.cfg`: after the most recent week failed to load, choosing it again
  (`WeeklyPerformanceDashboard.tsx:282-286`) sets `loading` and leaves `requestedWeek`
  as it is, so the effect that would answer does not run: the page loads for ever, its
  buttons disabled.

Noticed while reading, not run: `create_job_run` raises when the holder that
refused its insert finishes before the second look (the script then exits 1, not
0); an exception between the claim and the inner `try` leaves the row `pending`
for six hours although `run_job` promises to mark it; a reopened failed run keeps
its first `started_at`, so it may be swept while alive, which the comment on
`ABANDON_AFTER` excludes (`OnlyRetriedRunsAreSwept` shows it is the only case); `enqueue` may raise
`TaskQueueUnavailable` ("nothing was enqueued") although Redis took the message,
and the task then runs while its status answers 404 until a worker starts it; if
the queue has room for some of the drop reports only, those are sent and their
counters kept, so the next report counts them again (`telemetry-service.ts:274`);
with late acknowledgement a worker that dies after FAILURE is stored and before it
acknowledges has its message delivered again, and `task_track_started` puts STARTED
over the failure, although `services/tasks/service.py:30-31` says that a status never
moves backwards; a fact told again in another week is counted once by a run of both
weeks and once in each by two runs of one week, such as a backfill, although
`PIPELINE_DESIGN.md:281` says that the superseded report is not counted.

Noticed in the utilities: the comparator of `sortByField` and `sortByMultipleFields`
(`collections.ts:257-269`, `321`) yields no number for an invalid date, which `sort` takes
for a tie: later fields are not looked at, and the order is not transitive.

Noticed in the browser pages, by design of the page or left out of its properties: the
directory lists a supplier that was created or changed although the filter excludes it
(`SuppliersListPage.tsx:146`); two changes of one supplier that are answered out of
order leave the older record on screen (`:139`), and a change taken back overwrites a
fresher row; a list read before a PATCH and answered after it shows the status of
before; a candidate's PATCH and PUT each fill both forms with their own answer, and so
wipe what was typed meanwhile (`CandidateDetailPage.tsx:168-174`), the edits of the form
that was not saved included; a registration whose answer was lost leaves the form as it
was, so the candidate can be registered again; one slot names the note being deleted, so the button of a second one is enabled
again by the first; what is typed during a submit is cleared with the form; a report
whose answer was lost is sent twice by who sends it again; signing in as somebody else
in another tab mixes two accounts on the profile page; nothing supersedes
`refreshCandidates`, and while it reads, the list shows neither its error nor the retry
(`CandidatesListPage.tsx:118`).

## 6. Not modelled

- *Identity* (`services/auth`, `users`, `profiles`). Its rules are checks before writes
  to a TinyDB file that threads rewrite whole, so that writes lose one another:
  `Incidents` models that file, and `incidents_final` shows the loss. A reset link spent
  twice or an e-mail registered twice follow from the same two steps; a rule about these
  files could only be stated of one thread at a time.
- *Nightly export*: the CSV file and its `.partial`, which two overlapping works share;
  what a rename over an open file leaves is the file system's.
- *Reporting API, suppliers API*: reads, and one-document updates with the storage
  hazard above. What pages see of them is part of the pages' modules.
- The pandas statistics (`collection_health.py`, `analysis.py`), the other seeds and the
  CSV import: parsing and figures over rows already read.
- Wiring (error envelopes, configuration, e-mail), wording, formatting, logging, layout.
- The website's copies of the account pages and of the session, the static pages, and
  the wrappers of `src/utils` that fix an argument.
- The run-log fallback file is taken to be writable: the code logs and goes on if it is
  not.

## 7. Plan

1. Done: `JobRunner`, `PipelineRuns`, `PublishedReport` and their proofs.
2. Done: `TaskQueue` and its proofs.
3. Done: `Inventory`, `Incidents` and their proofs.
4. Done: `TelemetryEmitter`, `WeeklyRollup`.
5. Done: `BrowserSession` and its proofs; the pages (`Pages`) and their proofs.
6. Done: the proofs of `WeeklyRollup` and of `TelemetryEmitter`.
7. Done: `Collections` and `Validations` against reference definitions.
8. Done: that Inventory's transactions never wait in a ring, and the refinement of
   `StockLedger`.
9. Left: the export's file.
