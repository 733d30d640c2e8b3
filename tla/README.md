# Filament Tracker: a TLA+ verification project

Filament Tracker is a Go modular monolith that watches Bambu Lab printers, opens
a job for every print, and keeps count of the plastic left on every spool. This
directory holds TLA+ modules translated from its source, the TLC runs that check
them on small instances, and theorems that TLAPS proves for every instance.

Run from this directory: `tlc -workers 2 -config ledger_lan.cfg MCFilamentLedger` for a
run (section 4 names the module of each); `tlapm FilamentLedgerProofs.tla` for a module
of proofs (section 5).

## 1. Inventory of the system

### 1.1 Who runs at the same time

`internal/bootstrap/app.go` starts these goroutines, and all of them read and write the
same repositories. A repository `Update` writes the whole row it is given; there
are no transactions, row versions or locks around a service call.

| Actor | Code | What it writes |
|---|---|---|
| Monitor ticker | `infrastructure/printer/bambu/monitor.go` | jobs, spools, printers, events |
| Cloud-sync goroutine | `bootstrap/app.go:209-215` | printers, then everything a poll writes |
| HTTP handlers | `internal/delivery/http` | everything; `/api/bambu/cloud/sync` polls too |
| Scheduler | `worker/scheduler.go` | jobs and spools, whole rows; alerts |
| Runtime synchronizer | `usecase/runtime/synchronizer.go`, `bootstrap/app.go:180-197` | manual jobs, printers and spools, whole rows |

### 1.2 Components

| Component | State | Operations | Talks to | What makes it correct |
|---|---|---|---|---|
| **Filament ledger** (`usecase/printjob`) | `CurrentWeight` of a spool, `ConsumedWeight`, status, progress, estimate, draft flag of a job | `SyncFromBambu`, `Start`, `ConfirmDraft`, `Pause`, `Resume`, `Delete` | job, spool and product repositories | grams are neither minted nor moved in passing; one open job per task id; a closed job stays closed; a failed print gives back exactly what was not printed; a job whose print ended closes |
| **Spool service** (`usecase/spool`, `usecase/inventory`) | spool rows, transactions | create, update remaining, consume, delete, `MarkUsage` | ledger, alerts | a status that agrees with weight and use; a transaction for every consumption |
| **Snapshots** (`infrastructure/printer/bambu`: `cloud.go`, `monitor.go`) | none | build and merge what REST, MQTT and LAN report | monitor | REST and MQTT polls map to the same job; a stale percentage does not win |
| **Matching** (`usecase/printjob/matcher*`) | none | pick product and spool for a print | ledger | only a spool with plastic left is linked |
| **Runtime synchronizer** | none of its own | `syncPrintJobs`, `syncPrinters`, `syncSpools` | job, printer, spool rows | derived statuses agree with the jobs; nothing written in between is lost |
| **Scheduler and alerts** (`worker`) | `emptyAlerted`, `lowAlerted` | periodic sync, stock alerts | job and spool rows, notifications | one alert per crossing, and one at every later crossing |
| **Monitor** | session cache, last statuses | `PollOnce`, reconnects | cloud, ledger, printers, notifications | what ends is reported; an offline printer recovers |
| **Printers and cloud account** (`usecase/printer`) | printer rows, tokens, `CloudEnabled` | sync from cloud, saved-account sync, verify, logout | cloud API, secrets box | after a logout no token is used or written back |
| **Notifications and SSE** | subscriber map, recent events | publish, subscribe, unsubscribe, prune | every publisher, SSE handler | no send on a closed channel; order per subscriber |
| **Sessions and authentication** | session map, attempts per address | login, logout, touch, bootstrap admin | users, middleware | a disabled user keeps no session; the attempt limit limits |
| **Administration** | users, sites, memberships | create, disable, set password, set sites | sessions | a change of rights reaches open sessions |
| **Live remaining stock** (`usecase/spool/remaining.go`) | none | `LiveRemaining` | spool and job rows, UI | what is shown for an open job is what the ledger would return |
| **Products, pricing, prediction** | product rows | CRUD; pure arithmetic | ledger, UI | - |
| **Repositories** | Postgres tables or memory maps | row reads and writes | everything | whole rows, in the orders that the callers rely on |
| **Migrations** (`repository/postgres/migrate.go`) | `schema_migrations`, the schema | `ApplyMigrations` | Postgres; every container before it serves | a file takes effect once, whole and in order, whoever else applies it |
| **Secrets, cache, HTTP, bootstrap, web UI** | - | encryption, write-only cache, routing, wiring, rendering | - | - |

### 1.3 Hard behaviours

* Several sources describe one print under different ids, at different ages, with
  or without a weight. A poll of any kind may be the first or the last to see it.
* Grams live in two rows. Every start, re-estimate, completion, failure and
  deletion updates them in turn, and each can find the spool short, or gone.
* The same snapshot is reported again and again until the plate is cleared; the
  same file may be printed again under the same task id, or a print be seen under another id.
* Whole-row writes by five actors: any of them may write back an old row.
* Wall-clock completion of manual jobs competes with pause, resume and delete.
* A request reads a user row, checks a password for a tenth of a second, and makes a
  session of the copy; meanwhile the row is deactivated, or given other sites.
* Tokens of the cloud live in the account row, in every printer row, in the monitor's
  cache and in the locals of whoever is at work; a logout has to reach them all.
* A poll of the cloud reads three things at three times, and one of them lags.
* Containers of two releases start at once and look for unapplied files without a lock.
* Alerts are remembered in memory while the rows they are about are stale copies.

`PROJECT.json` lists every hazard at its line, with the properties that cover it or
the reason why none does.

## 2. Plan, and what became of it

| # | Module | Models | Main properties |
|---|---|---|---|
| 1 | `FilamentLedger` | ledger, job API, spool weights, snapshots, manual jobs | jobs, grams and closing |
| 2 | `FilamentAccount` | abstract double-entry account, refined by 1 | `LedgerImplementsAccount` |
| 3 | `Sessions` | login, sessions, users, sites, password resets | who is out stays out |
| 4 | `CloudAccount` | the cloud account, connections of printers, ticker, monitor, synchronizer, logout | no token after a logout; links heal |
| 5 | `CloudPoll` | what a cloud poll reads, and the merge | nothing is closed that goes on |
| 6 | `Notifications` | history, channels, event streams | what a stream may lose |
| 7 | `StockAlerts` | spool status, alerts, the two loops that write stale rows | alerts are earned, and come |
| 8 | `LiveStock` | the remainder of a spool that the pages show | it agrees with what the ledger will do |
| 9 | `SchemaHistory` | abstract history of a schema, refined by 10 | `MigrationsImplementHistory` |
| 10 | `Migrations` | containers that race to apply the files of their releases | once, whole, in order, and in the end |
| 11 | `*Proofs` | theorems about 1, 3 to 8 and 10, that 1 implements 2 and 10 implements 9 | section 5 |

2 is composed with 1 by refinement. 5 takes apart the one step that a poll is in 1: the
snapshots that 5 lets a poll hand over are those that 1's feeds `mqtt` and `rest` stand for, and
more. 4 and 5 share the monitor's tick: 4 has its tokens and rows, 5 its reads. 7 has the
status column that 1 leaves out. 8 reads the variables of 1 and adds none. 10 ends where
the others begin, with a process that serves.

Considered and left out:

* The ledger calls split at their repository operations. The program has no
  transactions, so nearly everything one would like to say of a crash inside a call, or of
  two pollers at once, is false, and no document of the repository says otherwise. The
  hazards say so one by one; the part whose outcome somebody cares about, what
  a poll may have read, is `CloudPoll`.
* Pricing and prediction: display arithmetic, which nothing else reads.

## 3. The modules

### `FilamentLedger`

State, and what it stands for:

| Variable | Code |
|---|---|
| `grams[s]` | `Spool.CurrentWeight` |
| `stocked`, `bought` | the spool rows that exist; the ids ever used (uuids are not used again) |
| `jobs` | the rows of `print_jobs`; `task` is `ExternalTaskID`, `est` is `EstimatedWeight`, `consumed` is `ConsumedWeight`, `draft` is `IsDraft`, `finished` says that `FinishedAt` is set |
| `nextJob` | fresh ids; their order is that of `created_at`, by which the Postgres lookup of a task id orders |
| `stocktakes` | history only: changes when a person alters a weight, so that the account can name that step |
| `plate`, `onPlate`, `feed` | the environment: what each print really did, what the printer shows, and how a poll reaches the printer |

Actions: `Poll(snap)` is one poll of the monitor down to and through `SyncFromBambu`
(`SyncNew` creates the row and goes on in the same call, `SyncExisting` takes the
newest row of the task); `Start`, `ConfirmDraft`, `Pause`, `Resume`, `Delete` are the job API;
`RuntimeSync` is one pass of `Synchronizer.Sync` over manual jobs; `CreateSpool`,
`UpdateRemaining`, `Consume`, `DeleteSpool` are the spool API; `BeginPrint`, `PrinterStep`,
`ClearPlate`, `Relink` are the printer and its network, which are outside the
repository. A service call is a chain of operators on its own copy
`w = [job, grams]`, in the order of the code: `EnsureDraftLinked`, `WeightApplies`
(the early return when the spool row is gone), `ApplyJobWeight`, `ApplyStatus` with
`FinalizeComplete` or `FinalizeCancelOrFail`, and the write of both rows.

The five feeds are the shapes a snapshot can have:

| Feed | Code | id | progress | weight |
|---|---|---|---|---|
| `lan` | local telemetry | LAN | live | unknown |
| `stale` | local telemetry, percentage ahead of the print | LAN | 100, read as 99 while live | unknown |
| `mqtt` | cloud task list and telemetry | cloud | live | known |
| `rest` | cloud task list alone | cloud | 0, or 100 when completed | known |
| `offline` | device list alone | the device's | 0, or 100 when completed | unknown |

Ids (`TaskId`). The local network names a print by its `task_id` or `subtask_id` (`monitor.go:466-469`), the cloud by
`cloud-task-<id>` (`cloud.go:93-97`, `154`), the device list alone by `cloud-<device>` (`cloud.go:139`): an id is a record of its
kind and its print, or `DeviceTask`. A print in `Nameless` has no `task_id`: local telemetry shows its file name with
`GcodeStartTime` (`monitor.go:470-471`). Such a file may be printed up to `MaxRuns` times; `start` of its plate is the run whose start time is shown, and
may be blank or that of the run before until the printer fills it in, also in the middle of a print. So one id may come back for the next run, and one run may be seen
under two ids. `Relink` changes the feed: the connection comes and goes, and a person links a printer to the cloud or back. Each
id then gets a row; no property denies it. Nameless prints are not combined with the feeds `mqtt` and `rest` (`OtherConstants`): the cloud names a print
by its task list, whatever the telemetry says.

Abstractions. Matching chooses any spool with plastic left, or none: the score is
data, and every choice is explored. A guess of the weight (product or time
heuristic) is a member of `Guesses`. Product validation rejects weights that are
not positive (`usecase/product/service.go:38`), hence `GramsArePositive`. Status
`calibrating` is folded into `preparing`; `queued` is never written by these paths, and
a draft is a flag. The source of a job is implied by its task (`NoTask` for manual
jobs). The spool's status column is left to `StockAlerts`. Repository calls do not
fail, and a call is one step; what a poll reads before the call is `CloudPoll`'s.

### `FilamentAccount`

What the ledger promises, without jobs, polls or printers: a holder takes from one
spool as long as it lives, and what it gains the spool loses. Plastic leaves the
books by `Overdraw`, `Forfeit` and `Remove` only; only a stocktake may put on a spool
what no holder gave back. `FilamentLedger` maps `hold` to `ConsumedWeight`, `from` to `SpoolID`.

### `LiveStock`

What `LiveRemaining` of `usecase/spool/remaining.go` adds to the weight of a spool, over the rows of the ledger: for every open job
on it (`OpenJobsOf`) the share of its estimate that is not printed (`NotYetUsed`), or of its hold if there is no estimate. A percentage is a
natural number and the share is rounded down; the code multiplies by a binary fraction, so that a share that is whole may come out
one gram less, which `RefundIsShown` allows. The code reads 100 percent as 99 if time is left: rows written by a
poll have been through `SanitizeJobProgress`, which does the same.

### `Sessions`

| Variable | Code |
|---|---|
| `places`, `users`, `resets` | rows of `sites`, of `users` with `user_sites`, and of `password_reset_requests` |
| `sessions`, `drawn` | `Store.items` of `infrastructure/session`, and the random ids drawn so far |
| `fails`, `blocked` | `Service.loginFails` of `usecase/auth`: the counts, and the names whose minute of silence runs |
| `req` | the goroutine of each HTTP request: the step it is at, and its locals |
| `tried`, `answered`, `late` of a session | history |

A request is a chain of steps with the locals that the handler has, and any other
request may run between two of them. Login is `LoginArrives` (`checkLoginRate`), `LoginReads` (the user
row, or its absence), `LoginRefused` or `LoginGranted` (bcrypt, `recordLoginFail`, the store's `Create`).
A cookie goes through `Authenticate` (`Store.Get`, which drops an expired session), `Touch` and
what the handler does (`SetActiveSite`, `Logout`). Administration is `AdminReads`, `AdminWrites` (the whole row
from the copy) and `AdminInvalidates`; a password reset adds `ResolveReads` and `Resolve`; `CreateUser`
and `AssignSites` are the two statements of user creation. `Expire`, `Unblock` and `Restart` are the
clock and the process.

Abstractions: a hash is the password it is of, a cookie is its session id, roles do not
change (no call changes them), each session id is drawn once. `Managed`, `Assignments` and
`NewPasswords` bound what administrators do.

### `CloudAccount`

| Variable | Code |
|---|---|
| `account` | the one row of `bambu_cloud_accounts` |
| `printers`, `made` | the rows of `printers`: serial, connection, and what they keep of the account |
| `cached` | `Monitor.cloudSessions`, as their keys |
| `go` | what each goroutine is at, with its copies of rows: the ticker of `App.Start`, the monitor, the synchronizer, and the requests of people |
| `good`, `drawn` | external: the tokens the cloud accepts, and how many it has handed out |
| `calm`, `alone`, `revoked` | `calm` ends disturbances, for liveness; the others are history |

`SyncFromCloud` is `Sync`: fill in from the saved account, log in or verify a code, list the devices
with one retry, save the account, read the rows, write them one by one, then poll. `Monitor.tick` is `Tick`:
list, and for each printer sign in if it has no token, poll, mark off line. `LogoutCloud` and
`ResetCloudSessions` are `Logout`. `Connects` and `Verifies` are the form of one printer
(`validateConnection`, `applyConnection`, `authenticateCloud`): a blank password or token keeps that of the row, the e-mail is what was
typed, and a row with a token needs neither password nor code. `SynchronizerStarts` and `SynchronizerWrites` are `syncPrinters`, which derives a status from
the jobs: the rows marked off line, and any others, are written back with everything else that was listed.
A sync writes the status that the device list gives, off line included. Every write is of a whole row from the goroutine's copy.
`PassTimesOut` (the ticker and the synchronizer have timeouts), `Restart` and `Expire` may happen anywhere.

Abstractions: a password is known or it is not, a status is off line or not, and a field of a copy
that is overwritten before use is blank. Left out: a code that is only sent again, sealing of secrets, the pool of MQTT
clients. Assumed of the cloud and of people: a login does not hand out, and nobody types, a token from before a completed logout,
so that a token found later was kept by the program.

### `CloudPoll`

`printer` is what is true, `cache` what MQTT brought last (a state that was true once: a message brings the state of its moment, may be late by any time, and states in between may be skipped), `poll` what each poller
has read, `row` the status of the newest job row of each task id. `ListDevices`, `GetTasks`
and `GetData` are the three reads of `pollCloudPrinter`, with the functions of `cloud.go` that build and
merge snapshots (`SnapshotFromCloudDevice`, `SnapshotFromCloudData`, `MergeCloudSnapshots`) as operators; `SyncFromBambu` is what
becomes of the row. The printer begins, works, ends and is cleared between any two of them, calls fail
(until `calm`), and the task list may be missing.

Abstractions: the live states (preparing, calibrating, printing, paused) fare alike in this
code and are one; of the remaining time only whether there is any. The device list and the task
list are assumed to tell the truth at the moment of the call, and MQTT is assumed to bring each print's
reports in order.

### `Notifications`

`items`, `published` and `expired` are the history of `usecase/notification` with its time to live; `subs`, `buffer`, `site`, `held`
are the streams: who is subscribed, what its channel holds, the active site of its session, and the event its
handler is writing. `Publish` (append, prune, offer to all channels under one lock), `List`, `Subscribe`,
`Unsubscribe`, `Receive` and `Write` are the service and the SSE handler; `Age` and `Restart` are the
clock and the process. An event is its number and the site it names, if any. `sent`, `missed`, `since` are
history. `Filter` is what the loops of `pruneLocked` and of `/api/notifications` keep of a list; `Kept` is
such a loop, event by event.

### `StockAlerts`

`spool` is the row (weight and status), `active` says that its job has an active status, `sched` and `sync` are the copies that
the scheduler's and the synchronizer's loop work on, `lowAlerted` and `emptyAlerted` are the maps in
memory. People weigh the spool (`UpdateRemaining`, `Consume`), print jobs take and return plastic; the scheduler lists jobs
(`SchedLists`), writes one back, unless that fails (`SchedTouchesJob`), lists spools, and writes the row with its status and the
alerts (`SchedWrites`); the synchronizer does the like without alerts. A failing statement or a
timeout ends a pass of the synchronizer (`SyncGivesUp`). One spool is enough: the
loops treat each spool by itself.

### `SchemaHistory`

What migrations promise: a schema is changed by one file after another, each once, each when the files of its release that sort
before it are there. No process, row or transaction.

### `Migrations`

| Variable | Code |
|---|---|
| `schema` | external: the files whose changes Postgres shows to others, in the order they took effect |
| `versions` | the rows of `schema_migrations` |
| `proc` | each container: where in `ApplyMigrations` it is, the files it has passed (`done`), the file in hand, and whether its transaction has changes (`pending`) |
| `calm` | ends disturbances, for liveness |

`Start` lists the files; `Skips` and `Begins` are the two answers of `migrationApplied`, which reads outside the transaction; `Executes` runs the statements that
`SplitSQLStatements` leaves of a file, `Records` inserts its row, `Commits` commits. `Serves` is the second half of the container's command (`migrate && exec app`). `Fails` is every error
return, a kill, and a restart with another release: Postgres undoes what was not committed. Of a file the model knows its number and whether it wraps itself in `BEGIN` and `COMMIT`, as 001 to 009 do: these must not
reach the database, and `Executes` says what would happen if they did. Assumed of Postgres: an insert waits for a transaction that has inserted the same key (`Claimed`), and then finds
the row; statements that meet those of another transaction on the same file wait or are refused (`Collides`). The table of versions is there from the start: it is created in one
statement, on its own, whose failure is a failure like any other.

### `MCFilamentLedger`, `MCSessions`

Constants for TLC that a cfg cannot write: weights and tasks by name; the sets of sites a
new user may get, and the symmetry of session ids and requests.

## 4. The runs

| Run (module) | Expected | Question | Bounds |
|---|---|---|---|
| `ledger_account` (`MCFilamentLedger`) | pass | Does every call, of every actor and feed, keep the books? `TypeOK`, `DraftHoldsNothing`, `HoldWithinEstimate`, `LedgerImplementsAccount` | 1 job row, 2 spools that may be deleted, 1 print, 4 feeds, a guess below the cloud weight and one above, so that re-weighing goes both ways |
| `ledger_lan` (`MCFilamentLedger`) | pass | On local telemetry, also if it ran ahead: does a failed print give back exactly the unprinted grams, and did the pages show that beforehand? `FailedReturnsUnprinted`, `StopKeepsPrintedGrams`, `RefundIsShown`. Is a file that is printed again under the same id kept apart from its closed job? `OneOpenJobPerTask`, `ClosedJobStaysClosed` | 2 job rows, 1 spool that covers one job and part of another, a file printed twice, whose start time comes at once, later or never, progress 0, 50, 100 |
| `ledger_live` (`MCFilamentLedger`) | pass | Does what must happen happen? `CompletedJobCharged`, `EndedPrintIsClosed`, `ShortJobIsToppedUp`, and `PollsGoOn`: a poll with a job to close or to top up can run | 2 job rows, a spool smaller than the task, refills of 20 g |
| `cloud_refund` (`MCFilamentLedger`) | violation | `FailedReturnsUnprinted` when the cloud knows the weight | 1 job row |
| `offline_close` (`MCFilamentLedger`) | violation | `EndedPrintLeavesNoJob` when the printer is seen off line | 3 job rows |
| `sessions` (`MCSessions`) | pass | Is who lost a right out, whatever requests were in flight? `RevokedUserIsOut`, `EndedSessionNeverReturns`, `ActiveSiteIsAssigned`, `GuessesBounded`, `ClosedTicketIsAnswered` | 2 requests at once, 2 session ids, an administrator and a user, 2 sites, 1 ticket, a limit of 2 |
| `cloud_account` (`CloudAccount`) | pass | Do whole rows written from copies keep connections consistent, and does a logout leave no token? `ConnectionIsOneOf`, `NoTokenAfterLogout` | 1 person with 2 requests beside ticker, monitor and synchronizer, 1 row, 2 tokens |
| `cloud_heals` (`CloudAccount`) | pass | Does the account get a token that works for good, and the device a working link again and again? `HealsAfterExpiry`, `PassesEnd`: every pass of a loop ends, and `StepsGoOn`: no goroutine waits | 1 request, 1 row, 2 tokens |
| `cloud_poll` (`CloudPoll`) | pass | Is a print closed only when it ended, and in the end? `LiveStaysLive`, `OnlyEndedAreClosed`, `EndIsReported` | 1 poller, 2 prints, progress 0, 50, 100 |
| `notifications` (`Notifications`) | pass | What may a stream lose? `StreamsLoseOnlyOverflow`, `HistoryKeepsFresh`, `TakenIsWritten` | 2 streams with channels for 2 events, 3 events in a life of the process |
| `stock_alerts` (`StockAlerts`) | pass | Are alerts neither repeated nor forgotten, and does the status come right? `AlertsAreEarned`, `StatusSettles`, `ShortageIsAnnounced` | 2 changes of weight, 1 restart, weights 0, 1, 2 |
| `migrations` (`Migrations`) | pass | Do racing containers change the schema as one would? `RecordedIsApplied`, `ServedSchemaIsComplete`, `MigrationsImplementHistory`, `EveryoneServes` | 2 processes, a release of files 1 and 3 and one of 1, 2, 3; file 1 wraps itself |

**Bounds of the ledger.** Jobs interact only through the spool they
share and the task id they share. Two spools tell "the spool" from "another one".
One covers the print and one does not, so each `Lesser` goes both ways; in `ledger_lan` the one spool covers a first job and not a
second. Two rows let a task close and reopen as a new row, or run next to a manual job; that no third row of
the task changes anything is what the theorems say, for any number of rows. `ledger_lan`
has one file without an id, printed twice (`MaxRuns`): its first run with a start time is what a print with a `task_id` is. A
third progress value separates "some was printed" from nothing and all.
`MaxJobs` bounds the rows created in a behaviour, and is a guard of `Start` and
`SyncNew` and no part of the program; a liveness property counts only states where
there is room. `ledger_live` has no deletable spool: `WeightApplies` fails for ever once
the spool of a running job is gone, a hazard listed in `PROJECT.json`.
`ledger_account` runs `Spec`, the others `CoreSpec`, where a person pauses and resumes open jobs only
(`PauseOpen`). `Pause` and `Resume` do not look at the status they replace (`service.go:149`) and so
reopen a closed job; the hazard is listed, and the books are kept all the same.

**Other bounds.** `sessions`: every race of this code is between two requests (a login or a cookie, and an
administrator; two administrators; two logins), and two are in flight; the limit is 2 instead of 5 and
only one user is edited, which keeps every order of fail, success and silence. `cloud_account`: two requests are a sync and
whatever comes after it, a logout or another form, across three loops that never stop and that sync, poll and write back on their own; the run leaves `Calm` out
(`BusySpec`), which only takes steps away;
two tokens tell an expired one from its successor, and one row is what one device needs
(`RowLimit` makes further inserts fail, as the database may). `notifications`: a
channel for two instead of 16, and a list of two instead of 50, overflow with three events. `stock_alerts`:
two changes let a spool fall, rise and fall across a restart. `cloud_poll`: two prints
are needed for the first to be left over in MQTT when the second is live. `migrations`: a
race is between two; the new release has a file in the middle that the old one lacks, so that files may also take effect out of their numbers' order. Two pollers, more users and larger
limits are too much for TLC and are what the proofs of section 5 cover.

Runs say `CHECK_DEADLOCK FALSE` where the model really stops: in the ledger with every row used up, in
`Sessions` with every id drawn, in `CloudAccount` with no request, printer or account left, in `Migrations` when everyone serves and nothing is killed any more.

**Fairness.** The ledger's `FairSpec` assumes `WF_vars(PollNext)` and nothing else: the monitor polls on a
ticker as long as the process runs (`monitor.go`, `bootstrap/app.go`). No fairness of people,
printer or network is assumed. `LuckySpec` replaces it by strong fairness, more than
the ticker gives; it serves only the refutation in `offline_close`, which is so not due
to unlucky timing. `CloudAccount` assumes weak fairness of each goroutine's `Step`: Go runs a goroutine that
can go on, and the three tickers fire for ever; what a person begins is not fair, and the cloud's answers and expiry are not.
`CloudPoll` assumes it of each poll, and of `MqttBrings`, which is external: messages
arrive in the end. `Notifications` assumes that the handler of an open stream goes on, `StockAlerts` that both loops do. `Migrations`
assumes it of the steps of each process, `Start` included: `docker-compose.yml:58` restarts the application's container, which migrates before it serves, unless a person stops it.
Properties of the form `<>calm => <>[]...` say what holds when disturbances (people, failing
calls, restarts) end; the steps of the loops never do. Weak fairness says nothing of an action that is not
enabled. In the ledger and in `CloudAccount` it is not plain when that is so: `PollsGoOn` and `StepsGoOn` say with ENABLED that no error path or
early return stands in the way of what must happen. They are invariants of their runs, and premises of the
theorems about liveness. The steps of a poll in `CloudPoll`, of the loops of `StockAlerts` and of a stream that has work in
`Notifications` can always be taken, by the form of their guards, and the theorems state what fairness then means.

**What the new properties except.** `RevokedUserIsOut` excepts a session whose login read the row before it
was deactivated (`late`): nothing in the code ends it. `NoTokenAfterLogout` is about a logout
across which no other goroutine began or was at work: a sync in flight does write its token back.
`OnlyEndedAreClosed` excepts a print that began after the poll had read the device list:
it is given the end of its predecessor until the next poll. `EndedPrintIsClosed` is about the job of the id that polls see the print under now. `HealsAfterExpiry` excepts
a device that lost its row when `RowLimit` left no other, and says of rows only that each device has a working link again
and again: the monitor may mark a stale copy of the row off line with its old token, the synchronizer takes the mark away from a copy of its own, and so on,
so that a good row never lasts. The account row, which those two do not write, is healed for good. Each exception is a hazard in `PROJECT.json`.

**Violations.** In `cloud_refund` a print fails after some progress, the first poll
refunds the unused grams, and a later poll of the same failure weighs the job
before looking at its status (`bambu_sync.go:65`) and reserves again, up to the estimate or what the spool has. The project's
description says that the unspent plastic returns to stock (`О_ПРОЕКТЕ.md:59-60`). In
`offline_close` a poll over MQTT opens and charges a job, its print fails, and the printer goes off line; the next poll carries no task list
(`monitor.go:270`), so the snapshot has the per-device id, a second row is opened and closed at once, and the
first stays open with its grams, against the comment at `monitor.go:269`.

**Mutants.** Each property of a passing run has one mutated operator, defined
next to the original and marked `Mutant`; with it TLC finds the property violated.

**Types.** Every module has a type invariant, `TypeOK`, and a theorem that it holds for all values of the constants. The runs of
`CloudAccount`, `CloudPoll`, `Notifications`, `StockAlerts` and `Migrations` leave it to that theorem; those of the ledger and of `Sessions`, where it
says more (no spool below zero, no request without its row), check it too.

## 5. The proofs

Eight modules, for every set of spools, prints, users, sites, devices, streams, goroutines and processes, and for every
bound:

| Module | Theorem | States |
|---|---|---|
| `FilamentLedgerProofs` | `SpecIsSound` | `Spec => []Sound`, the inductive invariant |
| | `SpecTypeOK` | types; in particular no spool goes below zero |
| | `SpecDraftHoldsNothing` | a draft holds no grams, and who holds names a spool |
| | `SpecHoldWithinEstimate` | no job holds more than its estimate |
| | `CoreSpecClosedJobStaysClosed` | nothing reopens a closed job but a person who pauses or resumes it |
| | `RefundIsShownHolds` | the pages count for an open job what the ledger would return, to a gram |
| | `SpecImplementsAccount` | `Spec` implements the double-entry account of `FilamentAccount` |
| `FilamentJobsProofs` | `OneOpenJobPerTaskHolds` | one open job per task id, with any feeds |
| | `CompletedJobChargedHolds` | a completed cloud print is charged its weight, if no spool is deleted and the feeds are among `mqtt`, `rest` and `offline` |
| | `FailedReturnsUnprintedHolds` | a print that failed and was not printed again keeps no more than it extruded, if no feed knows a weight (`lan`, `stale`, `offline`) |
| | `StopKeepsPrintedGramsHolds` | a failed print keeps what it extruded, if no feed is `rest` |
| | `EndedPrintIsClosedHolds` | liveness: a print that ended closes the job of the id it is seen under, with any feeds |
| | `ShortJobIsToppedUpHolds` | liveness: a short job is topped up, if the feeds are `mqtt` and `rest` |
| `SessionsProofs` | `TypesHold`, `RevokedUserIsOutHolds`, `EndedSessionNeverReturnsHolds`, `ActiveSiteIsAssignedHolds`, `GuessesBoundedHolds`, `ClosedTicketIsAnsweredHolds` | every property of the run `sessions` |
| `CloudAccountProofs` | `TypesHold`, `ConnectionIsOneOfHolds`, `NoTokenAfterLogoutHolds` | types, and every property of the run `cloud_account` |
| | `HealsAfterExpiryHolds` | liveness: the account gets a token that works and keeps it, and every device, of any number, a working link again and again |
| `CloudPollProofs` | `TypesHold`, `LiveStaysLiveHolds`, `OnlyEndedAreClosedHolds` | types, and the safety properties of the run `cloud_poll` |
| | `EndIsReportedHolds` | liveness: the end of a print is reported, with three pollers |
| `NotificationsProofs` | `NotificationsInvHolds` | the inductive invariant |
| | `TypesHold`, `StreamsLoseOnlyOverflowHolds`, `HistoryKeepsFreshHolds` | types, and the safety properties of the run `notifications` |
| | `TakenIsWrittenHolds` | liveness: what a channel took is written, if it has at most 16 places |
| `StockAlertsProofs` | `TypesHold`, `AlertsAreEarnedHolds` | types, and the safety properties of the run `stock_alerts` |
| | `StatusSettlesHolds`, `ShortageIsAnnouncedHolds` | liveness: status and alerts come right in the end |
| `MigrationsProofs` | `MigrationsInvHolds` | the inductive invariant |
| | `MigrationTypesHold`, `RecordedIsAppliedHolds`, `ServedSchemaIsCompleteHolds` | types, and the safety properties of the run `migrations` |
| | `MigrationsImplementHistoryHolds` | `Spec` implements `SchemaHistory` |

**Assumptions.** The named ASSUMEs of the modules, which TLC evaluates on every run (`NamesAreDistinct`,
`GramsArePositive`, `OtherConstants`; `SessionConstants`; `NoneIsNoRow`, `NoAccountIsNone`; `CloudConstants`;
`CloudPollConstants`; `NotificationConstants`, `NoneIsNoEvent`; `StockConstants`; `MigrationConstants`), and what the theorems say
themselves:

* in `FilamentJobsProofs`, which feeds there are and that no spool is deleted; and `CoreSpec` instead of `Spec`,
  so that only open jobs are paused and resumed. This is where the code stops to
  keep the property: `cloud_refund` and `offline_close` show it for two of them, and a deleted spool is
  a hazard in `PROJECT.json`;
* `Pollers = {ticker, loop, request}` in `EndIsReportedHolds`: the ticker, the cloud-sync goroutine and a
  request of `/api/bambu/cloud/sync`, the callers that the code has. `Capacity <= 16` in `TakenIsWrittenHolds`:
  `Subscribe` makes channels of 16. Each is there because the argument takes one temporal step for every
  poller, or for every place of the channel, and temporal induction over a number is not to be had;
* `PassesEnd` in `HealsAfterExpiryHolds`: a pass
  of a loop over a list ends. TLC checks it on `cloud_heals`; that a loop over a list of
  any length ends is once more induction over a number;
* a premise `[]EndIsPolled`, `[]TopUpIsPolled` (the parts of `PollsGoOn` of the ledger) or `[]StepsGoOn` in theorems about liveness.
  ENABLED is opaque to the prover, so that
  what it says of an action is taken from the invariant, which TLC checks on the runs of section 4;
* fairness written out, in `StatusSettlesHolds`, `ShortageIsAnnouncedHolds`, `TakenIsWrittenHolds` and `EndIsReportedHolds`: in place of the weak fairness of
  an action whose ENABLED the prover cannot see they say what it comes to. Each loop and each poller takes steps for ever (`LoopsGoOn`, `AllGoOn`); MQTT has nothing to bring again and again, or brings
  again and again (`MessagesArrive`); a stream has no work again and again, or goes on again and again (`KeepsGoing`). The guards of those actions are
  one program counter, one channel or one comparison each, from which ENABLED is read off. From fairness to the property everything is proved.

**The ledger.** `Sound` is `TypeOK`, `DraftHoldsNothing` and `HoldWithinEstimate` together. The bound by
the estimate is not inductive alone: a weight report sets the estimate of a job without
a spool and leaves its hold, which stays within the estimate only because such a job holds
nothing, and that is what `DraftHoldsNothing` says; both need the types. The argument goes from the inside out:

1. arithmetic: `ExtrudedIsNat`, `UnusedIsWithinHold`;
2. one lemma per operator on a working copy: it takes a sound row and stock to a sound
   row and stock (`ReserveIsSound` ... `StatusIsSound`), the way a call composes them;
3. `PutIsSound`: a sound row put back keeps all rows sound, and one lemma per action;
4. `StepIsSound` gathers them, and the theorem is `Init`, step and PTL.

`CoreSpecClosedJobStaysClosed`, a fact about two states, rests on `WeighingKeepsStatus` and `PollKeepsClosed`: linking and
weighing leave the status alone, and `ApplyStatus` leaves a closed job alone.

**The shown stock.** `SharesMeet` is the arithmetic: of a weight `w` at a percentage, what is printed and what is not, each rounded as its package
rounds it, add up to `w` or to a gram less. A hold within the estimate (`HoldWithinEstimate`) then returns no more than is shown
(`RowIsShown`), which is why the page may overstate but, but for that gram, not understate.

**The refinement of the account.** `SpecImplementsAccount` compares a working copy with the row and the stock its call began with. `Even`
says that plastic moved only between the job and one spool, and by equal amounts
(or that the spool is gone and the job gave some up). Reserving, linking, weighing and
stopping keep a call even (`ReserveIsEven` ... `StopIsEven`). `FinalizeComplete` may
not: it records the reported weight also when the reservation fails. `Weighed` is why that
is an overdraft of an empty spool and nothing else: `applyJobWeight` ran in the same
poll and left the job at the reported weight or its spool empty. `CallIsBooked` turns an
even or overdrawn call into `Transfer`, `Overdraw`, `Forfeit` or a stutter, and each of
the other actions has a lemma of its own.

**The jobs.** `Follows` and `PollFollows` say once what a poll does to the row it finds or makes, `OtherStep` what every
other action may do to a row; the theorems add an invariant each. `OlderAreClosed`: only
the newest row of a task may be open. `AllPaid`: a
closed row of a cloud task is charged. `AllStopped`: a failed row keeps at most
what the plate extruded, and `PlateKeeps` says that the plate does not take it back unless the file is printed again, of which the theorem does not speak.

A job that is left open after its print is the newest row of its task (`Single`), and so the row that
a poll meets (`PollMeetsOpenRow`); any poll that changes something closes it (`PollClosesEnded`), and with
`[]EndIsPolled` and fairness one comes. `ShortJobIsToppedUp` goes the same way: such a job names a spool (`AllLinked`), and a poll
that brings a weight reserves what the spool has (`WeightTopsUp`, `PollTopsUp`), and every other step leaves the job as short as it was, or ends the matter.

**Sessions.** `Inv` is `TypeOK`, `SessionsFit` (a session has a drawn id and a user that exists) and `RequestFits` (what
a request carries at each step). Beside it stand the facts that each property needs about what is in
flight: `AnswerFits` (who is about to close a ticket has answered it), `SiteFits` and `OneAssigns` (a
copy of the sites is no larger than the row, and one request writes them), and `GuessFits`
(before silence the count of refusals is ahead of the guesses; in it, the guesses and those still in flight
are below the bound).

**The cloud account.** `Fresh` is what was handed out since the last logout that ran alone. The invariant says that every
token in a row, a session, a copy or a local is `Fresh` (`Rows`, `Locals`), and `AloneFits` why a logout may raise
`revoked`: alone, the others carry nothing, and `LogoutFits` says that the printers it has no copy of any more have
nothing of the account left, and the rest is taken when it resets. `RowFits` has LAN and cloud
exclude each other in rows and in the copies that are going to be written.

For healing, `Roles` says at which steps each of the loops may be: only the ticker syncs, the monitor polls, the synchronizer writes. `AloneMoves` lists what
they do when people and the cloud leave them alone: the sync of the ticker (`SyncMove`, `WriteMove`), and writes of whole rows that keep their ids (`PollsWrite`). No row goes away then. The argument needs nothing
of what those rows say, since stale ones may come back for ever. From its next pass the ticker knows the password (`TickerSignsIn`, `Signed`); a pass saves a token that works, and
every later one keeps it (`AccountHeals`); and a pass that begins has every device before it (`OnTheWay`, `WayGoesOn`) and writes a row with the
good token for each (`WriteLinks`), so that, were a device from some time on without a working row, no pass could end (`DeviceHeals`).

**The poll.** `ReadSoFar` is what a poll may hand over given what it has read, and `CacheWasTrue` that MQTT's
picture is one of the past; the merge is then a finite case split. For `EndIsReported`: once all is calm the printer
does not change, so MQTT catches up (`MqttCatchesUp`); each goroutine gets rid of what it read before
(`GetsUpToDate`), in any order; from then on everything that is handed over agrees with the printer, the next poll
closes the row, and none opens it (`EndGetsClosed`).

**The alerts.** `EmptyEarned` and `LowEarned` count alerts against
lives of the process and refills, with a claim for the spool that is short now and for the
stale copies that say so. For liveness: calm ends what people and jobs do (`CalmLeavesLoops`), each loop then drops its old
copy (`LoopsLearn`), one of them writes the right status, and no later copy says otherwise (`RowIsMended`); what is short then is told or
already was.

**Notifications.** `NotificationsInv` says of each stream what `Trail`, the events written, held and waiting, may be: numbers that
rise, above the one at which it opened and up to the last, and, unless something was missed, every event of the history that
is the stream's. Each action adds to the end of the trail, moves its parts, or takes out an event of
another site (`WriteKeepsTrail`, `TakeKeepsTrail`, `DropFromTrail`, `OfferedTrail`). The history needs to know what `Filter`
leaves of a list of any length. `SetInduction` is induction as a fact about sets of numbers, from the least
element of a set; with it `FilterPicks` shows that the loop picks exactly the wanted events, in their order
(`Picked` names the places they had). For `TakenIsWritten`, `ComesNearer` moves an event one place towards the head of its channel, over two
steps of the handler, and `SixteenPlaces` puts the places together.

**Migrations.** A process looks a file up before its transaction begins, so that what it found may be old when it writes. `Works` says what
it has behind it when it works on a file, `Passed` that what it passed is recorded (rows are never taken back), and `Holds` that whoever
has inserted the row of a file, and has not committed, is the only one, while the file is not recorded: an insert waits for a claim and is refused by a row.
So a commit adds a file that is new, after those that sort before it, and that is a step of `SchemaHistory`; no other step changes the schema, because
`SplitSQLStatements` leaves no `COMMIT` (`NoCommitInside`). `QuietStep` serves the steps that write nothing.

**Only model-checked.** `EveryoneServes`: a process passes a release of any length, which is induction over its files. And what theorems about liveness take for granted: the invariants about ENABLED (`PollsGoOn` and
`StepsGoOn`), and `PassesEnd`, that a pass over a list ends. ENABLED is opaque to the prover,
and a loop over a list of any length needs temporal induction over a number.

## 6. What is not modelled

| Part | Why |
|---|---|
| Products, pricing, prediction | sequential CRUD, and arithmetic for display that nothing else reads |
| Secrets box, cache | encryption without state; a cache that is written and never read |
| Bootstrap, configuration, command-line tools | wiring and environment; the tickers it starts are the fairness of the modules |
| Web UI, QR codes, routing, rendering | no state of the system |
| Formats of MQTT messages, LAN telemetry and cloud answers, the pool of MQTT clients | data and I/O; what they bring, and when, is in `FilamentLedger` and `CloudPoll`. A missing client is a poll that has the REST snapshot only |
| SQL and in-memory repositories | their orders, whole-row writes and upserts are in the actions that rely on them |

A ledger call is one step: it is not split at its repository operations (section 2). Nor do
properties speak of what the code is known to do and no document of the repository
denies; each of the following is a behaviour that a reader of a passing run should not take to be excluded:

* the pages count the whole estimate of a job also when its spool covered a part of it: of a job of 60 g begun on 40 g, which holds
  40 and leaves 0, they show 60 (`RefundIsShown` says what holds instead: to a gram, what is shown is no less than what the ledger would return, and
  no more for a job that holds all of its estimate);
* two polls at once may both miss the lookup of a task and create two rows;
* the scheduler and the synchronizer write back rows they listed before, so that a reservation made in
  between is lost;
* an administrator's write from an older copy undoes a deactivation;
* a sync that is in flight during a logout links the printers again;
* events of the monitor name no site, and readers with an active site do not get them; the
  history is cut to its limit before it is filtered by site;
* the server's write timeout of 60 seconds ends every event stream, which the browser opens again;
* a print that is seen under several ids (the printer is linked to the cloud or back, is off line, or shows the start time of a file late) may have a row for each, and
  only the row of the id seen last is closed;
* a manual job that the clock completed keeps the hold it began with;
* the monitor and the synchronizer may write the old token or serial of a printer back for ever, between the passes of a sync that put them right;
* another cloud account saved without a logout is refused by the primary key of the only row.
