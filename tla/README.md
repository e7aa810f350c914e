# TLA+ verification of the workshop back end

The repository is a NestJS back end for a car repair shop: service orders (OS)
with a status machine, budgets that a client approves or refuses, a parts
stock, and the registries of clients, vehicles, services and admins. It runs as
several replicas over one PostgreSQL database, through TypeORM. This directory
models the parts whose correctness depends on *order and time*, from the domain
rules to the pipeline that replaces the replicas, checks them with TLC on small
instances, and proves the main safety results with TLAPS for instances of any size.

Contents: [the system](#1-the-system) · [modules](#2-modules-and-their-correspondence-to-the-code) ·
[runs](#3-runs-bounds-and-results) · [divergences found](#4-where-the-code-and-its-documents-disagree) ·
[proofs](#5-what-is-proved) · [limits](#6-abstractions-and-what-is-not-modelled) · [plan](#7-plan)

Run `tlc -config MCWorkshopConcurrent.cfg MCWorkshop` (likewise for every entry of `PROJECT.json`)
and `tlapm WorkshopProofs.tla`, from this directory.

## 1. The system

### Inventory

| Part | State | Operations | What makes it correct |
| --- | --- | --- | --- |
| `ServiceOrder` entity (`domain/service-order`) | status, `budgetId`, history, in memory | `changeStatus`, `setBudget`, `clearBudget`, `StatusHistory.record` | only moves of the matrix; execution needs a budget; the history chains |
| Service-order use cases | table `service_orders` | open (with or without items), change status (admin or webhook), edit, soft delete | every save is a legal move, also after a failure half way; nothing waits for a budget that does not exist |
| Budgets (`domain/budget`, `application/budget`) | table `budgets` | quote, re-quote, approve, refuse (admin or webhook), soft delete | decided once; linked only when approved; versions differ; execution only on an approved budget |
| Parts (`domain/part`) | `parts.stock_quantity`, `sku` | register, decrement by approvals, `PATCH stock`, edit, soft delete | never negative; units in = units in stock + units taken; unique SKUs |
| Clients and `/me` | table `clients`; tokens issued outside | register, edit, (in)activate, soft delete; `/me` reads | one live client per document; access ends when the admin says so |
| Rate limit | a `Map` per process, `lastSweep` | `hit`, `get`, `sweepExpired` | bounded acceptance, truthful `Retry-After`, bounded memory |
| Business metrics | cache, load in flight, `lastLoadOk`; the exporter's last values | scrape callbacks, `snapshot`, `load`, timeout | `up` vouches for the numbers; scrapes end; recovery |
| Vehicles, services | tables `vehicles`, `services` | register, edit, rename, soft delete | no two live rows with the same plate or name |
| Admins, login, seeder | table `admins`, environment | login, register, seed at boot | unique e-mails; no replica serves without its first admin; replicas can boot together |
| Value objects | none | CPF/CNPJ, plates, budget lines | the official check digits; keys are looked for as they are stored |
| Reports, listing, metrics SQL | none; timestamps of the histories | average time, operational report, stays per status, waiting orders, orders per day, active orders | equal to what a stopwatch would have measured; no finished order missed; listed until the work is done |
| Guards, tokens and secrets (`interfaces/http/guards`, `infrastructure/auth`) | secrets each process read when it booted; tokens and secrets held outside | boot, rotate, log in, sign, admit | a handler is reached by exactly those the access table names |
| Public consultation | none | find the client, list its orders | only the live holder of the document is looked up |
| Migrations (`infrastructure/database`) | the schema, the table `migrations` | run pending (Job, boot, command line), revert | the schema is what the journal says; complete means what the entities need |
| Deployment (`ci-cd.yml`, `k8s/`, `main.ts`, `instrumentation.ts`) | image, replicas, the pipeline's step | Job, apply, rollout, undo, boot, SIGTERM | no new replica on an old schema; deployments and boots end; requests in flight are answered |
| Demo data (`scripts/seed-demo.ts`) | rows created through the API | register, open, decide, move | every call is accepted; orders reach their target |
| HTTP plumbing, logging, health, generators of documents | none of their own | — | — |

### How the parts interact

A request is one `async` function in one of the replicas. It awaits repository
calls; each call is one SQL statement or, for `save` of a loaded entity, a
SELECT followed by an UPDATE. **No use case opens a transaction or takes a
lock**, there is no version column, and every `await` lets another request, of
this replica or of another one, run. So the unit of interleaving is the
statement, and between two statements a request works on entities it read
earlier.

What is hard about it:

- *stale saves*: `save` writes the columns in which the entity in memory
  differs from the row as it is *then*, so a stale entity reverts what others
  wrote, or mixes its columns with theirs;
- *checks before awaits*: PENDENTE, availability of stock, free document,
  latest version are all tested on a copy and used one or more awaits later;
- *partial failure*: opening an order, quoting and approving write several
  rows; a failed statement or a dead pod leaves the first ones written;
- *time*: fixed windows and their sweeping; a cache, a shared load and a timer;
- *what was read once*: secrets are read from the environment at boot, by each
  replica when it happens to boot, and by the issuers of tokens at other times;
- *replacement*: old and new replicas run side by side on one schema; several
  replicas may migrate at once, and which migrations are pending is read without a
  lock; a Job can fail, be retried or outlive the pipeline's patience; two
  listeners answer SIGTERM.

`PROJECT.json` lists these hazards line by line with the properties aimed at each.

## 2. Modules and their correspondence to the code

```
ServiceOrder         the entity, pure operators
   |
Workshop             requests over the tables orders, budgets, parts
   |   \------------- WorkshopProofs       (TLAPS)
   |   \------------- MCWorkshop           concurrent
WorkshopAudit        + the auditor's books; implements OrderLifecycle
   |   \------------- WorkshopSerialProofs (over WorkshopProofs)
   |   \------------- MCWorkshopAudit      serial, race_stock, race_execution
OrderLifecycle       the abstract specification of orders and budgets

ClientAccess         requests on clients, /me, the public consultation
   |   \------------- MCClientAccess       race_access
Access               + routes, guards, secrets, replicas, tokens
       \------------- AccessProofs (both modules), MCAccess (access)

Registry             rows known by a key, the seeder
ValueObjects         CPF/CNPJ, plates
   |   \------------- RegistrationProofs   (both modules)
SeedDemo             the demo script, over ValueObjects and ServiceOrder
MCRegistration       registration: Registry, ValueObjects and SeedDemo

Migrations           schema, migrations, whoever runs them
   |
Deployment           + pipeline, replicas, boot, shutdown
   |   \------------- MCOperations         operations, shutdown
BusinessMetrics      cache, load, gauges      (run metrics)
       \------------- OperationsProofs     (Deployment and BusinessMetrics)

RateLimit            -- RateLimitProofs, MCRateLimit
Reports              -- ReportsProofs, MCReports (over ServiceOrder's matrix)

SumTheorems          sums over finite sets, for every proof that needs one
```

### ServiceOrder

`ALLOWED_TRANSITIONS`, the guards (`CanChangeStatus`) and the effect
(`ChangeStatus`) of `ServiceOrder.changeStatus`, `SetBudget`, `ClearBudget`, and
`advanceToAwaitingApproval` of `CreateBudgetUseCase`. A record with the fields
`row`, `status`, `budgetId`, `history` is both the entity and its table row.

### Workshop

| Code | Model |
| --- | --- |
| tables `service_orders`, `budgets`, `parts` | variables `orders`, `budgets`, `parts`; `row` is `absent`, `live` or `deleted` (`deleted_at`) |
| a running use case: its locals and the await it stands at | `req[w]`, a record with `op`, `step` and the entities read so far |
| `CreateServiceOrderUseCase` | `StartCreate` / `StartCreateWithItems`, `InsertOrder`, `InsertBudget`, `SaveOrder`, `UpdateOrder` |
| `CreateBudgetUseCase` | `StartQuote`, `ResolveLines`, `FindLatest`, `InsertBudget`, `SaveOrder`, `UpdateOrder` |
| `ApproveBudgetUseCase`, webhook approve | `StartApprove`, `ReadPart`*, `SavePart`*, `SaveBudget`, `FindOrder`, `SaveOrder`, `UpdateOrder` |
| `RefuseBudgetUseCase`, webhook refuse | `StartRefuse`, `SaveBudget`, `FindOrder`, `SaveOrder`, `UpdateOrder` |
| `ChangeServiceOrderStatusUseCase`, webhook status | `StartChangeStatus`, `SaveOrder`, `UpdateOrder` |
| `PUT /service-orders/:id` | `StartEditOrder`, `SaveOrder`, `UpdateOrder` |
| `AdjustStockUseCase`, `PUT /parts/:id` | `StartAdjustStock` / `StartEditPart`, `SavePart` |
| `DELETE` routes | `RemoveOrder`, `RemoveBudget`, `RemovePart` |
| a failing statement, a dead pod | `Interrupt` |

A step whose only outcome is an error that wrote nothing is left out (the
request might as well not have arrived). The read that opens a request and the
computation up to its next await are one step.

*Why orders save in two steps and budgets and parts in one.* The UPDATE writes
the columns found different at the SELECT. Budgets and parts have one column
that changes here. If the SELECT finds it equal there is no write, which is the
same as writing the same value at the time of the SELECT; otherwise the write
happens at the UPDATE. Either way one atomic write explains it. An order has
three such columns, and two requests can each contribute some of them to one
row. A history that gained an entry always differs, because its timestamp is
new: hence `dirty` starts with `"history"`.

### WorkshopAudit and OrderLifecycle

`WorkshopAudit` adds three history variables (units brought in, units spilled
by interrupted approvals, decisions saved per budget) that record the steps. One bound
of the model refers to them: `MaxSupply` refuses a stock entry that would bring in more. `OrderLifecycle` is what the
service desk promises, in atomic steps without requests: `Open`, `Quote`,
`Decide`, `Link`, `SendToApproval`, `Move`. The mapping reads `stage`,
`linked` and `asked` (how often the program itself sent the order to approval:
the "system" entries of its history) off the order rows, and `owner` and
`verdict` off the budget rows.

### ClientAccess

Registration (`existsByCpfCnpj`, then INSERT under the partial unique index),
`PUT` and `PATCH status` (read, then SELECT and UPDATE of the differing
columns), soft deletion, the external token issuer, and `MeController`, which
checks that the client is active and then reads. `barred` is a history
variable: the clients an admin was *told* are INATIVO or deleted. `Editors`
bounds how many workers may be an admin editing a client. `StartConsult` and `List` are the
two reads of the public consultation, which asks for the document and not for the status.

### Access

| Code | Model |
| --- | --- |
| the controllers with `@UseGuards` and `@Roles` | `AllRoutes`: class, handler, guards, roles, one operator per controller |
| `JwtStrategy` and `JwtAuthGuard`, `RolesGuard`, `WebhookAuthGuard` | operators of the same name, `Validate`; together `Admits(s, r, cred)` for the secrets `s` a replica holds |
| the `Authorization` header and the `token` field of a body | `Credentials`: records that also say whose they are (`of`), which no guard looks at |
| the Secret of the cluster; `resolveJwtSecret`, read while a replica boots | `env`, `Rotate`; `Boot` copies it to `pod[p]` and fails without a JWT secret |
| `POST /auth/login`, its token of an hour | `Login`, `AdminTokenExpires` |
| the CPF function, with a container that keeps the secret it started with; the partners | `ColdStart`, `SignClient`; `TellPartner` (all external) |
| controllers calling use cases | `Administrate`, `Consult`, `Me`: actions of `ClientAccess`, enabled only where some replica `Calls` the route |

A secret is a number that grows as it is rotated, 0 while unset. Signatures and the hour of a
token are the library's: a token is as good as the secret it was signed with, until it
expires. `AccessByRole` compares the guards with the table of `docs/api/acesso-por-papel.md`
in *both* directions, on every replica, and takes a credential made with another secret than
the replica's to prove nothing.

### Migrations and Deployment

| Code | Model |
| --- | --- |
| `QueryRunner` calls of `up` and `down` | sequences of statements (`Up`, `Down`), each with the objects it adds and drops and the flaw in the rows that would refuse it |
| tables, columns, unique and partial indexes, indexes, foreign keys, checks | `schema`, a set of objects; `Accepts` and `Effect` are PostgreSQL's |
| the `@Entity` classes | `ENTITIES`, the objects they name |
| TypeORM's executor: pending ones read once, one transaction each (Job) or for all (boot) | `Begin`, `RunNext`, `EndRun`, `InterruptRun`; `journal` is the table `migrations` |
| `migration:revert` | `UndoLast` |
| rows that break a constraint: orphans, two rows with a deleted key | `ImportOrphans`, `ReuseKey`, `MendOrphans` |
| `ci-cd.yml`: Job, wait, apply, rollout status, smoke test, undo | `Push`, `StartJob`, `RetryJob`, `JobFails`, `JobCompletes`, `Apply`, `RolloutEnds`, `RollBack` |
| the Deployment (2 replicas, `maxSurge 1`, `maxUnavailable 0`) | `StartPod`, `Terminate`, `Crash` |
| `DB_MIGRATIONS_ON_BOOT`, the retry of the database module, `listen` | `onBoot`, `MigrateOnBoot`, `Boot` |
| `enableShutdownHooks`; `process.on('SIGTERM')` of `instrumentation.ts` | `CloseServer`; `FlushTelemetry` |

A transaction is one step: the first DDL statement of each migration takes a lock no second run can hold,
up to the end, so two runs of one migration cannot interleave inside it. (`AddForeignKeys` counts orphans
before that; ADD CONSTRAINT checks the rows again under the lock.) TypeORM takes no lock *between* transactions. `JobFails` and `RollBack` also stand for the limits of the
pipeline's waits, so they may happen at any moment of the wait; a Job that is not over in time goes
on running, as in the cluster. The "old" image is a release that knows the first two migrations.

### SeedDemo

The script's data (`CLIENTS`, `VEHICLES`, `SERVICES`, `PARTS`, `ORDERS`) with the columns the API
looks at, its two tables of paths and its calls in order: `Begin`, `Register`, `OpenOrder`, `Decide`,
`Patch`, `NextOrder`. The API's answers are the operators of `ServiceOrder` and `ValueObjects`, plus
unique keys, owners and stock. Runs may overlap and be killed (`Kill`).

### RateLimit

`KeyOf` is the key choice of `canActivate`, `Hit` the whole guard: sweep, window
renewal, count, refusal with `Retry-After`. `hit()` has no await, hence one
step. Time is kept as ages (`now - windowStart`, `now - lastSweep`), the only
thing the code computes, so the model is finite without stopping the clock.
`recent` and `retry` are history variables for the properties.

### BusinessMetrics

The cache, the load in flight and `lastLoadOk` of one replica, and what the
cumulative exporter still exports. `Snapshot(g)` is `snapshot()` called by the
callback of gauge `g`; `ReadAnswers`, `ReadFails` and `Timeout` settle a load. Callbacks
of a scrape are started in one synchronous pass, so nothing settles before the
pass is over and the clock turns at most once within it. A snapshot is
represented by its age.

### Registry

The four tables known by a key (vehicles by plate, services by name, parts by
SKU, admins by e-mail), one of them at a time (`kind`). They differ in what the
check before a registration looks for (`Probe`), what the constructor stores
(`Stored`) and which operations exist: only services are renamed, admins are
neither edited nor deleted, and only admins are seeded. A key is a word with or
without blanks and in the kept or another case, which is all the code's
normalisations (`trim`, `toUpperCase`, `toLowerCase`, `Plate.normalize`) tell apart.

| Code | Model |
| --- | --- |
| the `Register...UseCase`s, `AuthController.register` | `StartRegister`, `Insert` |
| `PUT` of vehicles, services, parts; `UpdateServiceUseCase` | `StartEdit` / `StartRename`, `Save` |
| `DELETE` routes | `Remove` |
| `AdminSeeder.onModuleInit`, awaited by Nest before it listens | `StartBoot`, `SeedInsert` |
| a dead pod, a failed statement | `Crash`, `Interrupt` |

### Reports

`AverageExecutionTimeUseCase` with its two reads (`BeginReport`, `EndReport`), the
execution times of `OperationalReportUseCase`, the three queries of
`ServiceOrderMetricsQuery` and the `where` of `findAllActive`, as operators over
timestamped histories. Orders move along the matrix of `ServiceOrder`, one change
at a time and on one clock. `watch` is a history variable: stopwatches that run
while the model's clock ticks and know nothing of timestamps. The invariants
compare the two.

### ValueObjects

`field` and `typed` are what is being typed and how far it is. `CpfCnpj.create` after punctuation is taken out, `Plate.create`, and the plate
`RegisterVehicleUseCase` looks for. A behaviour types a stem or a plate symbol by
symbol, so that the invariants visit every input up to the bounds.

## 3. Runs, bounds and results

All passing runs explore their state space completely. Every property of a
passing run has a *fault* in its module (an operator whose comment starts with
"Fault:") that replaces a definition by a plausible mistake and makes TLC report that property.

| Run | Instance | What it shows |
| --- | --- | --- |
| `concurrent` | 2 requests, 1 order with its first budget, 1 further budget, 1 part with 1 unit, histories up to 5 entries, stock up to 1, no creation of orders and no deletion but of budgets; or nothing open at the start, 1 order opened, quoted, refused, moved, deleted, histories up to 4 | whatever two requests do to each other, stocks stay non-negative, links point to decided budgets of the same order, histories record legal moves, decisions are not undone; no order the program sent to approval lacks a budget, whichever write was the last before a stop |
| `serial` | 1 request at a time with interruption at every await, 1 order, 2 budgets, 2 parts, histories up to 6 | with requests one at a time and failures anywhere, the tables implement `OrderLifecycle`; the units balance; versions are unique; the last entry of a history is the status |
| `race_stock`, `race_execution` | 2 requests, 1 order, 2 budgets, 1 part, 1 unit | documented promises that two concurrent requests break (section 4) |
| `access` | 2 workers of which 1 may edit, 2 clients, 1 document; 2 replicas, secrets rotated up to 2 times | the access table holds on every replica whatever was rotated when; documents stay unique, deletions final, access ends at once, as long as edits of a client do not overlap |
| `race_access` | 2 workers, both editors, 1 client, without guards | two overlapping edits give an inactivated client its access back |
| `rate_limit` | limit 2, window 3 ticks, second 2 ticks; one account spelled two ways from two addresses, one client, one address | at most 2 x limit per window length whatever the spelling or address; `Retry-After` can be trusted; the `Map` forgets; nobody is locked out for ever |
| `metrics` | 2 series, cache 4 ticks, timeout 2, event-loop lag 1 | `up = 1` bounds the age of every exported series; the database is read once per cache while healthy and once per scrape while not; scrapes end; the gauge recovers |
| `registration` | each of the four tables, 2 requests, 3 rows, 2 words in 4 spellings each, 2 replicas, any or no configured e-mail; or stems of 9 and 12 digits out of {0, 7}, each with all 100 completions, and plates of up to 8 symbols of 5 classes; or the whole demo data with 2 runs of the script | keys of live rows differ in meaning whatever was checked; no replica serves before its first admin is stored; replicas that boot together all come up in the end; the check digits are the official ones; a plate is looked for as it is stored, and loads again; a run of the script ends in its targets, is killed, or fails at its first client |
| `operations` | 2 replicas desired and 1 to surge, the migration Job, 1 crash or failure of the database, fresh or old base, migrations in the Job or on boot; any number of deployments, reverts and mends | the schema is always the replay of the journal, and a complete journal is what the entities need; no replica of the new image answers without it; every deployment ends and a failed one leaves the old image; replicas that race to migrate come up |
| `shutdown` | the same | a replica told to stop drops a request in flight (section 4) |
| `reports` | 2 orders with 11 history entries between them, 2 ticks of clock, window of 1 tick, alarm after 1, days of 2 ticks with midnight off by 1 | times computed from timestamps are those the stopwatches measured; the two computations of the average agree; a report read in two steps misses no finished order; orders leave the active listing for good |

*Why the bounds suffice.* Every race of the tables needs two requests: one that
holds a stale copy and one that changes the row; a third adds no new kind of
stale copy, and the invariants proved in section 5 hold for any number. One
order is enough because requests on different orders meet only at parts and one
part is shared by both budgets. Two budgets give re-quoting and two versions.
A history of five entries covers opening (3), a way into execution and back (2);
`serial` has one more. Stock 1 with budgets asking for 1 is the case in which two
approvals compete for the last unit. A limit of 2 separates "first", "last
accepted" and "refused"; a window of 3 with seconds of 2 ticks makes the
rounding of `Retry-After` visible. Cache > timeout > 0 and a lag of 1 keep the
order of the real constants (60 s, 5 s). Three rows let two registrations and a
rename, or two registrations and the seeder, be under way at once. Eleven entries
let one order pause or be re-budgeted before it is finished (7) while another
moves, or two be finished (5 each); 2 ticks put stays inside, across and outside
a window of 1. Stems of 0 and 7 reach every remainder modulo 11, and the theorem
of section 5 covers all digits. Secrets of two values each beside "unset" let a replica,
the function, a partner and a token disagree pairwise. Two replicas and one to surge are the
smallest cluster in which one is replaced while enough serve and in which two race to migrate; one crash can
fall on any of them, or be the database's during any transaction. One replica's requests are
followed (`Watched`); replicas are alike.

State constraints are not used: every bound is a named constant in a guard (`MaxHistory`,
`MaxStock`, `MaxSupply`, `MaxLag`, `MaxSecret`, `MaxCrash`, `Watched`) or a saturation
explained in the module (`Age`, `Limit + 1`). Three MC modules restrict which steps are taken, each
saying so in its header. `MCWorkshop` (`InScope`, an action constraint) has behaviours of two kinds, those that
decide on an order that is there and those that open one. `MCAccess`: while secrets and replicas change, at most one client is
registered and one request in flight (`Quiet`); more of either only once everybody has read the same
secret (`Settled`); and not both secrets reach their last value in one behaviour. `MCRegistration`
checks three machines that share nothing in one run: each behaviour is of one of them. Workers of
`concurrent`, replicas and clients of `access`, and the orders of `reports`, are interchangeable (symmetry sets; these runs check
no liveness).

*Fairness.* `Reports`, `ValueObjects`, `SeedDemo` and `Access` have safety properties only. `Deployment` assumes
that the pipeline's next step happens (GitHub runs it, and each wait of it has a limit), that the
cluster replaces replicas (`StartPod`, `Terminate`), that a replica that boots goes on, and that who migrates goes on;
nobody has to push, crash, revert, mend rows or call. `ReplicasComeUp` excepts replicas kept back by
orphaned rows, which nobody must mend. `Registry` assumes that a pod that is down or whose boot failed is
started again and that its boot goes on (the Deployment restarts it); nothing of
requests. `EveryReplicaBoots` has the end of crashes as a hypothesis. `Workshop` and `ClientAccess` have none: a request may stop at any
await for good, and all their properties are safety. `RateLimit` assumes only
that time passes (`WF(Tick)`); `NoLockout` takes the caller's persistence as a
hypothesis, because nobody is obliged to call. `BusinessMetrics` assumes that
time passes, that timers which are due fire, that callbacks which were called
run and that a collected response is written: what Node's event loop gives. It
assumes nothing of the database, which may hang for ever, and nothing of the
scraper; `Recovers` has both as hypotheses.

*Deadlock* is checked for `rate_limit` and `metrics`. The others
may stop: their finite sets of ids and their bounds get used up.

## 4. Where the code and its documents disagree

Each is a run in which TLC finds the documented statement violated by what the code does.

1. `race_stock`: "Estoque insuficiente bloqueia a aprovação inteira" (README.md:328-329).
   Two approvals both find the last unit; each writes *the stock it read* less
   what it asks, so both are approved and the stock is 0, not -1.
2. `race_execution`: "Só um orçamento `PENDENTE` aceita decisão" (README.md:328) and
   "`EM_EXECUCAO` só é permitida com orçamento aprovado" (README.md:379). An approval and
   a refusal of one budget both read it PENDENTE before either is saved; the order is
   linked to a budget that ends RECUSADO, and `changeStatus` only asks for a link.
3. `race_access`: "Cliente inativado ou excluído perde o acesso na hora"
   (README.md:263). A `PUT` that read the client before its inactivation writes
   ATIVO back. (Deletion is not affected: `deleted_at` is in no save.)
4. `shutdown`: Nest "fecha o servidor HTTP e o pool do TypeORM antes de sair, em vez de
   derrubar conexoes em aberto durante um rolling update" (main.ts:22-24; deployment.yaml:139-141 counts
   on it). The second listener of SIGTERM, instrumentation.ts:51, ends the process
   when the telemetry is flushed, whatever the server still has to answer.

Two more statements of the documents hold only in part; no run is kept for them:

- the gauges are "lidos do banco no maximo uma vez por minuto por replica" (business-metrics.ts:22). Only a load
  that succeeds is cached: after a failure or a timeout every scrape sends the three queries again.
  `ReadsAreRationed` is what holds: once per cache while loads succeed, once per scrape while they do not;
- `status_history` has "uma entrada por transição com o horário" (modelo-er.md:172). `HistoryTellsStatus` holds of
  one request at a time. With two (`INVARIANT HistoryTellsStatus` in `MCRaceExecution.cfg` shows it), both start the
  execution of an order, the second finds at its SELECT that only its history differs, and before it writes another request
  has moved the order back: the row says AGUARDANDO_APROVACAO, its history ends in EM_EXECUCAO and the move back has no entry.

Things a reader of the code may not expect, which no document denies:

- an order delivered between the two reads of the average counts twice (`ReportIsPlausible`
  is what holds);
- the migration that drops `clients.vehicle_ids` breaks replicas of the old image that still
  serve; the repository says so (modelo-er.md:199-207), and an undo brings back
  the image and not the schema (ADR-003). Hence `NewPodsWork` speaks of new replicas only;
- the demo script offers `SEED_FORCE=1` for a base that is not empty (seed-demo.ts:286-290), but a
  forced run fails at its first client, and an interrupted run cannot be
  completed by another (`SeedReachesTargets` says how runs end).

## 5. What is proved

The proof modules extend the components' modules. What they assume is the
`ASSUME`s of those modules (constants are of their sort, `NoOrder` is no order, the null id is no
budget's, demands and initial stocks are naturals, a timeout is shorter than the cache ...), which
the runs evaluate too, and the hypotheses a theorem states itself:

| Hypothesis | Where | Why |
| --- | --- | --- |
| `OneAtATime`: there is at most one worker | `WorkshopSerialProofs` | two requests in flight break the statements (`race_execution`, `race_stock`, section 4) |
| `OneEditor`: at most one worker edits clients | `AccessEnds`, `AccessEndsBehindGuards` | two break the statement (`race_access`) |
| `IsFiniteSet(Budgets)`, `IsFiniteSet(Orders)` | theorems about sums and averages | a sum over an infinite table means nothing |

Everything else is for any number of requests, rows, replicas, keys and gauges. None of
the invariants is inductive as it stands; the strengthening is named with each.

**WorkshopProofs** (arbitrarily many requests, orders, budgets and parts).

- `TypeCorrect`. `Typed` adds that a request stands at a step of its own
  operation with the ids that step uses (`RequestShape`), and that every saved
  budget has an order (`Owned`).
- `StockSafe`: needs that an approval at `saveParts` or later, and an adjustment,
  hold a stock that *covers* what they ask. That is about the copy in memory,
  so no interference can break it: negative stock is excluded without locks,
  although over-approval is not (race_stock).
- `LinkSafe`: needs that the budget of an approval past `saveBudget` is decided,
  and that every order entity in memory links to none or to a decided budget of
  its own; stable because decisions are.
- `DecisionsStand`: budgets only leave PENDENTE; ids are fresh, so no insert
  overwrites a row.
- `HistoryLegal`: every entity in memory has a legal history, whatever it was
  read from, because `ChangeStatus` is only reached through the matrix.
- `QuotedSafe`: a request that will write a "system" AGUARDANDO_APROVACAO into an order has
  inserted its budget first.

**WorkshopSerialProofs** (`OneAtATime`; any tables, and a failure, a deletion or a stop at
any await). `SerialInv` adds to `LinkInv` that the entity in hand is *one change* away from its
row (`OneChange`), that what an UPDATE leaves out is in the row already
(`DirtyCovers`), and that decision, version and links in hand are current.

- `ExecutionSafe`, `HistoryTells`, `VersionsUnique` follow from it.
- What is proved of `Workshop` is used in `WorkshopAudit`, whose steps are steps of `Workshop`
  (the lemma `AuditIsWorkshop`; not the converse, because `MaxSupply` refuses an arrival that would bring in more.
  The theorems hold for every `MaxSupply`). `DecidedOnceSafe` counts decisions against `budgets[b].status`.
- `StockIsBalanced`: `StockBooked` follows units through the awaits of an approval, part by part;
  `ApprovedCovered` is that with `StockSafe`.
- `ServingImplementsLifecycle`: the refinement of `OrderLifecycle`, one lemma per statement that
  writes (`InsertOrderMaps`, `InsertBudgetMaps`, `SaveBudgetMaps`, `UpdateOrderMaps`), everything else a stutter.
  The delicate one is `UpdateOrder`: by `OneChange` and `DirtyCovers` the partial write of a row is a whole step
  of the abstract order.

**AccessProofs**. Of `ClientAccess`: `DocumentsSafe` (live rows have a document, and a registration under way
its own unused id), `DeletionsStand`, and `AccessEnds`: with one editor, an edit in flight holds the row as it is
(`EditsAreCurrent`) and who is barred is inactive (`BarredAreInactive`). Of `Access`: `AccessRefines` shows that guards,
secrets and replicas only restrict who starts a request (`AccessSpec => Spec` of `ClientAccess`: every step maps
to a step or a stutter), which carries the three over. `AccessIsByRole` needs that no replica is up
without a JWT secret (`BootedHasSecret`: else a token "signed" with nothing would pass) and then
compares every guard with the table, route by route and credential by credential.

**RateLimitProofs**: `RateTypes`, `RetrySafe` (a ticking `Retry-After` covers what
is left of the window that refused: `RetryCovers`), `ForgetsSafe` (`SweptLately`: a kept
bucket is never older than one window plus the time since the last sweep) and `BurstSafe`. `BurstInv` splits
what was accepted of a key in the last window where its bucket began: since then at most what the bucket
counts, before at most the limit. When the bucket is renewed or swept, what was "since" has become "before".

**RegistrationProofs**: `DistinctSafe` and `FirstAdminSafe` of `Registry`. The index compares keys letter by
letter, so it alone does not make *meanings* distinct; the invariant adds that only
canonical keys are stored or on their way to the table (`Canon`), that each registration
under way has an unused id of its own, and that nothing edits or deletes admins (`Owned`),
without which the first admin could go while a replica serves. `DocumentsOfficial` of `ValueObjects`:
the code computes the check digits of CPF (`sum * 10 % 11`, 10 read as 0) and of CNPJ
(`11 - sum % 11`, below 2 read as 0) in two
ways; both are the one digit that completes the sum to a multiple of 11, or 0, for every sum.
`PlatesAlwaysLoad`: taking separators out commutes with raising letters (`WithoutUpper`), and a text without any is left alone
(`WithoutNone`), both along the text, whatever its length.
`SeedSafe` is about any number of overlapping, forced and killed runs of `seed-demo.ts`. The order of the calls
is what protects them: the document of the first client is unique, so only the run that registered it
goes on (`Leads`, `OneLeads`), and the others are refused there (`RefusedAtOnce`), before anything else was written
(`BlankUntilLed`). `Stands` then says what the one leader has behind it at each call. It needs lemmas about the script's
data: the two digits the script computes are those `CpfCnpj` checks, for any base that is not one digit repeated
(`CpfIsValid`); each path is steps of the transition matrix that end at the target (`PathIs`, `WalkOn`); no two approved
orders ask for the same part (`ApprovedAre`), which is why no approval finds too little stock (`TakenIs`).

**OperationsProofs**. Of `BusinessMetrics`: `UpTellsCurrent` (what a gauge exported, the cache and the load in flight
are all no older than the cache period plus the longest a load and the loop can take, or `up` is 0) and
`ReadsAreRare`. Of `Deployment`: `MigratedFirst`. Its invariant `DeployInv` says that whoever migrates leaves out nothing
that is not in the journal (`RunsCover`; which migrations are pending is read once, and the journal only grows while
anybody runs, whoever else writes it), that with a Job the image is only
applied when the Job is through (`JobMigrated`), and that without one a replica listens when its own
run is (`PodsMigrated`). Reverting by hand keeps it only because of `Maintained`.

`SchemaFollowsJournal`, of the same module: in whatever order runs, reverts and interrupted batches interleave, the schema
is the replay of the journal. The invariant, `SchemaInv`, says more than that: the journal records each migration at most
once and the first migration first, and the schema is `Closed` of the *set* that is recorded, what those
migrations create less what they drop (`ReplayIs`: the replay of such a journal is that, in whatever order it
lists them). The two steps are that an `up` PostgreSQL accepts was not recorded yet
and comes after the first, because of the objects it adds and drops (`AddOne`, and `AddBatch` for the single
transaction of a boot), and that a `down` takes its `up` back (`TakeLast`). The five migrations are unfolded
statement by statement for it (`MigrationsAre`, `Created`, `Gone`); that the result does not depend on which four come
after the first is `ClosedMore` and `ClosedLess`. `CompleteIsEnough` adds that the five together make exactly the objects the
`@Entity` classes name (`AllMakeEntities`), and `NewPodsFindTheirSchema`, with `MigratedFirst`, that a pod of the
new release that listens finds them.

**ReportsProofs**. `MeasuredInv` relates the timestamps of every order to the stopwatches that ran meanwhile: each stay
of the history (`StaysAgree`), the work (`WorkAgrees`), and how long ago and how many midnights
(`ClocksAgree`). From it `LeftForGood`, `AgesAreRight`, and, sums being what they are (below), `ExecutionTimesRight` and `DurationsRight`.
`ReportsPlausible` has an invariant of its own, `ReportInv`, on what a report between its two reads owes:
an order finished before is among those read, or was delivered and will be in the second read.

**SumTheorems**. The code's sums are `MapThenSumSet`, which adds in an order of its choice. The lemmas show that a sum is known by
what each element adds: `TotalStep` (take one out), `TotalSame`, `TotalDisjoint`, `TotalBounds`,
`TotalRenamed`. The library's induction theorems take an operator, which the installed provers cannot
instantiate; `LeastNatural` and `LeastSubset` (among bad sets there is one whose smaller parts are
good) take their place, and `GoesOn`, for what goes from each number to the next. `StepsExist` gives the value of a function
defined by recursion along a sequence (`Execute`, `Effects`, `Replay`), `KeepsExist` that of `Without`.

### Only model-checked, and why

- All liveness: `NoLockout`, `ScrapesEnd`, `Recovers`, `EveryReplicaBoots`, `DeployEnds`,
  `ReplicasComeUp`. Fairness and `ENABLED` are out of the prover's reach.

Every safety property and action property of the passing runs is stated by a theorem.

## 6. Abstractions, and what is not modelled

- *TypeORM and PostgreSQL* are external: `save` of a loaded entity is a SELECT by
  id (soft-deleted rows included) and an UPDATE of the differing columns, never
  of `deleted_at`; a single statement is atomic; partial unique indexes cover live rows.
- Descriptions, prices, service lines, stock warnings and timestamps are left
  out. A budget's lines are the total quantity per part (`requiredByPart`).
- `changedBy` is `"system"` (the literal of the use cases) or `"staff"`.
- Quantities are integers. The code does not convert the body of `PATCH stock`,
  so a string could reach `incrementStock`; that is listed as a hazard.
- Ids are never reused (random UUIDs): `FreshOrder`, `FreshBudget`.
- The rate limit is that of one process (the code accepts N times the limit for
  N replicas, in writing) and the clock does not go backwards. One scrape at a
  time; gauge callbacks in any order.
- `Registry` leaves out the owner a vehicle must have when it is registered (an
  early return; owners can be soft-deleted later without any check) and assumes
  that the password configured for the first admin meets the policy, without which
  no replica ever boots. It starts from a migrated base; `Deployment` is about how it gets there.
- `Access` follows the requests on clients; the other controllers are there with
  their routes, guards and roles. bcrypt, the policy of passwords and the JWT library are external: login
  is that with the right password.
- `Migrations` leaves out types, defaults and nullability of columns, and `synchronize`, which only a
  developer's base uses. The effect of DDL is PostgreSQL's, modelled from the statements the repository sends.
- `Deployment` leaves out building the image, Terraform, the gateway and the autoscaler's choices (`Desired`
  is fixed); the smoke test is one more reason for `RollBack`.
- `SeedDemo` leaves out names, prices and passwords, and takes the script to be alone with the API.
- `Reports` leaves out counts per status, low stock and the sort order of the listing,
  and assumes one clock: timestamps of several replicas are taken as comparable.
- Budget totals are sums of decimal prices, for which TLC has no type; the punctuation of documents is
  stripped character by character before anything modelled here. Both are left out, and so are
  DTOs, error filters, logging and the answer of the health probe: no state.
- `generate-postman-collection.ts` and `export-swagger.ts` are offline programs that print metadata of the
  controllers as JSON: nothing is shared, nothing can interleave, the output is layout.

## 7. Plan

Done, in this order: `ServiceOrder`, `Workshop` with its proofs, `WorkshopAudit` over
`OrderLifecycle`, `RateLimit`, `BusinessMetrics`, `ClientAccess`, `Registry`, `Reports`,
`ValueObjects`, the consultation, `Access`, `Migrations`, `Deployment`, `SeedDemo`; then the proofs of
every safety property of the passing runs. What could still be proved:

1. what two requests in flight do *not* break: which part of `OrderLifecycle` `Workshop` still implements
   without `OneAtATime`;
2. the owner a vehicle keeps: nothing is claimed of it so far.

What could still be modelled: counts per status and low stock of the operational report, the sort
order of the active listing.
