# Habeny in TLA+

Habeny (`src/app`) is a FastAPI server that deploys LXC containers running SIEM
agents, simulates attacks and log traffic in them, benchmarks SIEMs, and keeps
the records, alerts, backups, accounts and audit log that go with that. This
directory holds TLA+ models of the parts whose behaviour depends on order:
what interleaves with what, and what a stop, a crash and a restart leave behind.

## The system

One server process runs everything. Within it:

* `async def` route handlers run on the event loop and are atomic between
  awaits; `def` handlers and `asyncio.to_thread` work run in threads;
* each deployment has a pool of worker *processes*, which report to it through a
  queue (step messages) and through futures (results);
* a maintenance thread flushes records every 10 s, checks alerts every minute,
  and prunes and backs up every hour;
* notifications are delivered by a daemon thread with retry timers;
* SIGTERM/SIGINT call `begin_shutdown` from the signal handler: running work is
  told at once, open requests may finish until a deadline, then the process exits;
* a privileged helper process does the LXC calls when the server is not root;
* commands (`habeny token`, `db`, `backup`, `license`) are processes of their own
  on the same data directory.

| Component | State | Operations | What makes it correct |
|---|---|---|---|
| Deployment (`services/deployment.py`, `routes/agents.py`) | progress records, futures, queue, containers, `lifecycle_status` | deploy, list, start, stop, delete | every name accounted for once; workers bounded; stop and restart leave nothing half-made unmarked |
| Installers (`installers/`) | package cache and its lock | cache, copy, install | one download at a time; every install ends |
| Lifecycle (`services/lifecycle.py`, `server.py`) | stop flag, deadline | begin, time left, recover | a stop ends; cut-off work is marked |
| Records (`services/records.py`, `state.py`) | dicts in memory, the `records` table, digests | set, change in place, save, flush, prune, load | the disk follows memory and never goes back; nothing in use is pruned |
| Log schedules (`services/logs.py`, `routes/logs.py`) | schedule records, asyncio tasks | start, stop, run, interrupt, resume | a stopped schedule stays stopped; an interrupted one resumes |
| Simulations (`services/simulation.py`, `detection.py`) | simulation records, threads | run, stop, interrupt, check detection | ends once, as what ended it |
| Benchmarks (`services/benchmarks.py`) | rows, running phases | run, stop, clean up | a stop is heeded; rows left behind are closed |
| Teams and limits (`services/tenancy.py`, `routes/teams.py`) | owners, limits | check, record, assign, forget | limits hold |
| Agents and groups (`services/agent_info.py`, `routes/groups.py`, `db.py`) | agents rows, groups | number, merge, rename, delete | a name keeps its number; no lost update |
| Audit (`services/audit.py`) | hash chain, anchor | append, prune, verify | an intact chain verifies |
| Notifications and alerts (`services/notify.py`, `alerts.py`) | queue, active alerts, channels | fire, clear, deliver, retry | the last message says how things are |
| Accounts (`services/auth.py`, `oidc.py`, `routes/auth.py`, `routes/users.py`) | users, sessions, tokens, flows | set up, sign in, change, revoke | one administrator remains; identities stay apart |
| Second factor (`services/totp.py`) | secret, last step, recovery codes, challenges | enable, sign in, disable | a code is used once |
| Licensing (`services/licensing.py`) | key file, trial, alert | install, status, check | the alert follows the license |
| Backups (`services/backup.py`) | archives, the data | make, prune, restore | a recent one exists; what is replaced is kept |
| Upgrades (`migrations/`, `services/instance.py`) | schema version, copies, lock | migrate, downgrade, restore | the version says what the tables are |
| Hosts (`services/hosts.py`) | hosts rows | probe, add, edit, delete | a stored token and fingerprint work together |
| Helper and LXC (`helper/`, `core/`) | sockets, threads, containers | one call per request | an answer is the answer to its call |

## Modules

| Module | What it is |
|---|---|
| `Deployment` | requests, workers, progress records, container routes, stop, crash, restart |
| `DeploymentProofs` | its theorems: types; the loop; the accounts; inside containers; what a crash leaves |
| `Packages` | installs by threads and forked processes, the package cache and its lock |
| `DurableRecords` | abstract: what a store of records that survives restarts promises |
| `Records` | one `PersistentStore`; implements `DurableRecords` |
| `RecordsProofs` | types, digests, loads, prunes, stops, the refinement |
| `LogSchedules`, `LogSchedulesProofs` | recurring log uploads and their theorems |
| `Audit`, `AuditProofs` | the hash chain and its theorems |
| `Simulation`, `SimulationProofs` | runs and detection checks, and their theorems |
| `Accounts` | first-run setup, users and roles, sessions, tokens, single sign-on |
| `SecondFactor` | authenticator codes, recovery codes, challenges of one account |
| `Registry` | numbers, groups, deletion marks, owners, teams and limits of containers |
| `Notifications` | one alert, and its notices on their way to the channels |
| `Benchmark` | phases, stops, failed saves, clean-ups |
| `Backups` | backups by three kinds of makers, pruning, restores |
| `Upgrades` | migrations, downgrades and restores of the database by several processes |
| `Licensing` | installs, trial, days, the license alert |
| `Hosts` | edits of other servers' rows that ask the server before they write |
| `Helper` | calls of the privileged helper |
| `MCDeployment`, `MCInstalls`, `MCRecords`, `MCLogSchedules`, `MCAudit` | instances for TLC: constants, restricted and fair specifications, symmetry |
| `MCAdministration`, `MCServices` | instances of many components, side by side |
| `RegistryProofs` | theorems about `Registry` and `Upgrades` |
| `AdministrationProofs` | theorems about `Accounts`, `SecondFactor`, `Hosts`, `Helper`, and all of `MCAdministration` |
| `ServicesProofs` | theorems about `Notifications`, `Benchmark`, `Backups`, and all of `MCServices` |

`<Module>_<run>.cfg` (or `<Module>.cfg`) is the configuration of a run of `MC<Module>`; those of `MCInstalls`
and `Packages` are `Deployment_live.cfg` and `Packages_cache.cfg`. Definitions
named after a bug ("Mutant of ...") are not used by a specification: each one
replaces the definition named in its comment to confirm that a property can fail.

`MCAdministration`, `MCServices` and `MCInstalls` put components side by side that
share no state. A variable `part` is chosen at the start and says which of them
takes steps; the others keep their initial state, of which one is enough. So the
states of such a run are the sum, not the product, of those of its parts, and its
invariants hold of each part as if it were alone. That a behaviour of the whole is one
of each component's own specification is a theorem (`AdministrationImplementsEach`,
`ServicesImplementEach`). Registry is taken in three
parts: rows and groups with writers of whole rows; two deployments at once
against limits; and teams that change during a deployment.

`PROJECT.json` lists the components, the runs, the source lines each definition
models, the hazards with the properties that cover them, and the theorems.

How the code's scheduling appears everywhere:

* a coroutine or a blocking call on the event loop is one action from one await
  to the next, *unless* something that does not wait for the loop can see the
  middle of it: the signal handler, the maintenance thread, another thread, a
  worker process or a command. Then it is split, and `loop` (or `handler`) says who
  holds the loop;
* the stop signal may come between any two actions; a crash too;
* `mem` is the dict of a store and `db` its rows. A record that was put or saved
  is in both; one that was changed in place waits for a flush, and a crash before
  that loses the change. `Records` shows this of one store in detail, and the
  other modules take it from there;
* a variable marked "history" records what a user was told, what was cut off, or
  what cannot be promised of a behaviour any more (`excused`, `mixed`, `troubled`),
  for the properties. Guards read one only to keep ids fresh (`refused`) or to
  bound what comes from outside (`altered`).

### Deployment

`deploy_agents` (`Prepare`, `PrepareRefused`, `Finish`), the loop of
`run_deployment_workers` by its phases (`LoopCheck`, `Cancel`/`Abandon`, `Submit`,
`Wait`, `Drain`, `Record`, `LoopAgain`), the worker process that makes one
container (one action per LXC call), `progress_event` (`Event`), the container
routes, and the process: `BeginShutdown`, the deadline, `Exit`, `Crash`, `Start`
with `recover_interrupted_deployments`.

Abstractions:
* the installation of a container succeeds, fails or raises, at any time (`Packages`
  has what it does in between);
* `Prepare` checks and marks all names at once; at most one listing is in flight
  for a container (`seen`); the thread-pool mode (the same loop, without broken
  pools) is left out;
* which finished record is evicted is left open; flushes of running progress
  records between saves are left out, so a restart finds the record as it was
  when the deployment began, and interrupted;
* `pending` is kept while the process is down, only to say what was cut off;
* a stop signal right after the flag was read lets the loop hand out up to
  `workers` containers more, as in the code. The property is of the loop once it
  has *noted* the stop.

### Records

One store with its lock. `Put`, `Change` (in place, without the lock), `Save` and
its `Dump`/`Write` under the lock, `Pop`, the flush key by key, the prune, the last flush
of a stop, `Exit`, `Crash`, and `Start`/`LoadSave`/`Loaded`. The database may
refuse a write or a deletion (`ErrorNext`). Between the load and the first request
("starting") interrupted log schedules are resumed, or end, however old their rows are
(`Resume`). A record being serialised while
another thread changes it is either torn (its save is deferred) or whole. The
content of a record is the number of its version; what matters beside it is
whether its status is active.

`Durable == INSTANCE DurableRecords` maps a record to the number of its version;
`IsDurable` is the abstract specification: rows never fall back, only what was
deleted disappears, and a start brings back what is on disk, with marked records
as new versions.

Bounds: ids are fresh, except that a finished record may be put back by a late
detection check; `MaxVersion` versions of a record, the last of them not active
(so that every behaviour may go on). 4 is the least number at which a job
resumes a record that a restart had marked.

### LogSchedules

The task of a schedule (`created`, `sleeping`, in a pass), cancellations on their
way through `call_soon_threadsafe` (`calls`) and thrown into the task
(`cancelled`), the handlers, the signal handler, and `resume_log_schedules` at
the start, schedule by schedule. Uploads block the loop. The interval is not
modelled: a sleeping task wakes at any later moment. Each schedule has a
container of its own.

`ended`/`forgotten` are stops by users, and those that a crash undid; `owed` and
`owedNew` are what the next start has to resume. A creation whose save fails is
answered with an error and leaves its record as "starting" (`CreateFails`);
nothing is promised of it. Times are kept only where something reads them.

### Audit

`record` takes the time, then `append` waits for the write lock and adds a row in
one immediate transaction; `prune` is one too. `verify` reads the anchor, and
then the rows. A digest is the sequence of what was hashed (no collisions). One
alteration from outside may change a row, take out a row that is not the newest,
or swap two. That the newest rows are missing cannot be told from the table
alone (the copies in the server's log are for that), so this is not among the
alterations.

### Simulation

An attack run is a coroutine that awaits a thread for each second of traffic,
reads the status one last time and sets it. A signal may come between that read
and that write: `AttackOver` reads (`seen`) and takes the loop, `AttackEnds`
writes and gives it back. A syslog run does the same on a thread of its own, so
that anything may come in between (`SyslogOver`, `SyslogEnds`); in turn, it may
end while the main thread is about to write over the status it has read
(`StopMeanwhile`, and `EndsMeanwhile` in `BeginShutdown`). A custom log run sets
its outcome whatever the status is. Checks of what the SIEM detected (`check`)
are made for a run that completed, after a delay, and on request; both may be
under way at once, each in a thread, and end with an answer, an error that is
recorded, or an exception that is not.

Abstractions: a second of traffic may take longer, so a run may end after any
number of seconds from 1 to `Duration`; one requested check at a time; counts of
events, `completed_at` and `status_before_restart` are left out; pruning and the
single saves of a load are in `Records`.

### Packages

`ensure_cached` with the lock of a process, `wget -O` into the cached file (which
is emptied first and filled from the beginning), what the four installers do with
the file, and the script. A process that is forked has a copy of the lock as it
was (`Inherited` if a thread of the server held it). A file is `empty`, `tiny`
(less than the 1000 bytes UTMstack's installer asks for), a `part`, or `whole`.
`InstallsCutOff` ends the process and its downloads at any moment, and
`DeleteCache` empties the cache. A script may fail at any time; it
cannot succeed with a package that is not whole.

### Accounts and SecondFactor

Handlers of `routes/auth.py` and `routes/users.py` never await: one holds the loop
(`handler`) until it ends, and is one step if it makes one transaction. First-run
setup is four (`SetupChecks`, `SetupCreates`, `SetupRemoves`, `SetupFinishes`), a change
of a password and of its sessions two (`NewPassword`, `PasswordChanged`), and roles
and deletions are split from the check of who asks: a kill may separate them, and so do
threads and processes, since the
callback of the identity provider is a thread (`SsoReads`, `SsoCreates`,
`SsoSyncs`, `SsoReadsAgain`, `SsoSignsIn`, one database call each) and `habeny
token create` a process (`CliReads`, `CliCreates`). Both use an id some time after they
have looked it up; `IdentitiesApart` says that it is still the same account or none,
which rests on ids that are never given twice. Roles are numbers; `Claims`
is the role the provider's groups give. Sessions are their owners, tokens their
owners and roles; expiry is a step of its own like a sign-out.

In `SecondFactor`, an app's code is a pair of a secret and a time step, and a
recovery code one of a set; the clock goes on or is set back by any amount. `AppCode` is
`matching_step` (the steps before, now, and after; later than the last used), and
`Accepts` the claim in the database. Turning the factor on, and its reset by an
administrator, are two transactions: `enable_totp` or `disable_totp`, and then
`delete_user_sessions` of the browsers in `pending` (`SignedOut`). In between the second may fail
(`SignOutFails`) or the process be killed (`Restart`); browsers that were to be signed
out and were not are "left" from then on, and `OnlyWithCode` does not speak of them.

### Registry

The names that exist are listed in a thread between the first part of
`deploy_agents` (`Ask`) and its checks (`Accept`, `Refuse`), both on the loop.
`ReadRow` and `WriteRow` are the two halves of `write_agent_metadata`.
Benchmarks create containers of their own (`routes/benchmarks.py:57-58`) and count
them against the limit at that time too; they are left out, as one more of two requests at once.
`excused` are the users and teams whose limit cannot be promised any more: two
requests were checked at once, an administrator moved containers or lowered the limit, the
user changed teams, or a request records as its user's a container that another one is
still to make (`Contended`).

### Notifications and Licensing

An alert is fired or cleared under the lock, and its notices queued after
(`caller` is what a thread is about to queue) for the channels that are enabled and
want the event: a channel has its events, and one that gets problems only is never told
that an alert cleared (`picks`). When the channels cannot be read, no notice is made
(`EmitFails`). The dispatcher takes one notice
at a time, looks whether its channel is still there and enabled, and delivers or
hands it to a timer, whose put waits for room. Alerts do not interact, so one is
enough. The license's alert is in `Licensing` too: there each check reads the
files and the accounts first (`CheckRead`) and tells what it read (`CheckTold`),
while installs go through one temporary file by `open`, `write`, `replace`.

### Benchmark

`run_benchmark` from sleep to sleep: `Begin` and `PhaseOver` end with the first
sample of a phase, or the end. A stop sees a task that sleeps and sets
"stopped" in memory, which `PhaseOver` looks at before the next phase sets
"running" again. `Finish` may fail to save, and then nothing after it happens.

### Backups and Upgrades

A backup is staged, then named by the time (`TakeName`), then packed, and appears under its name
when that is done (`Write`). It has its name, the hour of that, the hour of its file, and whether the schedule made
it: backups are listed and pruned by name, and the schedule goes by the file's hour.
`_lock` excludes makers within the server only, so that a command may take a later name and
be done earlier. Packing a scheduled one takes `Slowest` hours at most, others any time. Names are all different and
in the order of their times: two labels within one second, and a clock that is set
back, are left out. A restore takes the files and
then the directories, each from `clear` (rmtree of what a former restore put
aside) over `aside` to `put`, and may end at any point, also with a directory
copied in part. In `Upgrades` a database is its `user_version` and the
migrations its tables show; copies are kept to `KEEP_BACKUPS`, and `file` is the
copy a restore is to open, followed as newer ones push it back. The lock of the
data directory is the server's alone: commands look whether it is held when they
begin.

### Hosts and Helper

An edit reads a row, asks the host with what is to be stored (`Probe`), and writes
the whole row (`Save`); hosts change their certificates and tokens at any time.
`accepted` is what a host was seen to take together. The helper serves a call in
a thread on a connection of its own; a client that waited too long closes it and
goes on, while the thread does too; the helper may die between any two steps, with
its operations carried out or not.

## Runs

TLC with 2 workers; the largest instances take about three minutes.

| Run | Instance | Distinct states | What it shows |
|---|---|---|---|
| `deploy_core` | 3 containers, 1 deployment, 2 workers | 668 K | results are accounted for once, whatever is cancelled, abandoned or lost; what a crash or the deadline cuts off is marked at the next start, if nobody lists the containers meanwhile |
| `deploy_pair` | 1 container, 2 deployments, 1 tracked record | 288 K | eviction never drops a record in use; two deployments of one name never work inside one container |
| `deploy_live` | 1 container, 1 deployment, users at work; or installs by 2 threads and 1 forked process | 97 K | a stop ends, also with workers that hang; a request ends if its workers do; every install ends |
| `records_safe` | 2 records, 4 versions, database errors | 887 K | prune spares what is in use, also what was resumed after a long downtime; a clean stop loses nothing else than late changes; `DurableRecords` is implemented |
| `records_flush` | 2 records, 2 versions, no errors | 18 K | a change in place reaches the database |
| `logschedules_timed` | 1 schedule of 2 ticks, creations that fail | 27 K | stops hold over restarts, what had begun is resumed; it ends, not early, over any number of restarts |
| `administration` | see below | 1049 K | the audit log, accounts, second factor, rows and limits, upgrades, hosts, helper calls |
| `services` | see below | 146 K | simulations, notices, benchmarks, backups and restores, the license |

`administration` by its parts:

| Part | Instance | Properties |
|---|---|---|
| audit | 2 writers, 4 entries, times 0..2, retention 1 | `OkIsGenuine`: an "ok" is genuine; `AlarmsAreReal`: an alarm is, unless a prune overtook the verification |
| accounts | 2 users, 2 names, 1 identity, 2 sign-ins at the provider | `AdminRemains`, `SetupOnce`, `IdentitiesApart` |
| factor | 3 time steps, 3 secrets or sets, 2 browsers, 1 challenge of 2 attempts | `CodesOnce`, `OnlyWithCode` |
| rows | 2 names, 1 group, 1 deployment, 1 writer of whole rows | `NumbersStay` |
| limits, teams | 1 owner in a team or not, 2 names, limits 1 and 2; 2 deployments at once, or changing teams | `LimitsKept` |
| upgrades | releases of 2 and 3 migrations, 2 commands beside the server, 2 copies kept | `SchemaIsKnown` |
| hosts | 1 host, 2 tokens, 2 certificates, 2 editors | `StoredWorked` |
| helper | 2 clients of 2 calls | `OutcomeIsTrue` |

`services` by its parts:

| Part | Instance | Properties |
|---|---|---|
| simulation | 1 simulation of any kind, 2 seconds, 2 checks at once | `StopHolds`, `CutOffIsInterrupted`, `RunsEnd`, `ChecksSettle` |
| notices | 2 threads, 1 channel, any events, a queue of 1, 1 retry, 2 notices | `LastNoticeHolds`, `NoticesSettle` |
| benchmark | 2 benchmarks of 2 phases, 3 starts | `StopsAreHeeded`, `BenchmarksEnd` |
| backups | 3 makers, 3 names, 2 kept, an interval of 2 of 3 hours, packing a scheduled one takes 1 hour at most | `FreshBackup` |
| restores | 1 file, 1 directory, 2 restores | `ReplacedIsKept` |
| license | 1 install by each way, 3 days, trial and grace of 1, 2 changes | `LicenseAlertSettles` |

Runs that find what the documentation says violated:

| Run | Property | What happens |
|---|---|---|
| `listing_hides_cutoff` | `CutOffIsInterrupted` | `get_agent_info` stores "running" or "stopped" over the "starting" of a container that is being deployed; after a crash the next start does not mark it. admin-guide.md:107-109 says it does. |
| `logschedules_resume` | `SchedulesResume` | the signal comes before the first step of a schedule's task; that step sets "running" over "interrupted", the cancellation then looks like a user's, and the schedule is not resumed. admin-guide.md:553-554 says it is. |
| `audit_pruned` | `PruningKeepsVerifiable` | a prune commits between the two reads of `verify`, which reports the pruned entries as missing. privacy.md:49-50 says that pruning keeps the chain verifiable. |
| `package_downloads` | `DownloadedOnce` | two worker processes, each with a lock of its own, find no package and both download it into the same file. cache.py:24-25 says that concurrent containers wait for the first download. |

The passing runs keep these apart: `deploy_core` checks `CutOffIsInterrupted`
with nobody listing, `RunningResume` leaves out tasks that had not begun, and
`AlarmsAreReal` leaves out a verification that a prune overtook.

Other disagreements with the documentation, seen while modelling, without a run:

* a custom log run sets "completed" or "failed" over a user's stop and over an
  interruption (`simulation.py:300`); user-guide.md:160 says that Stop ends a run
  early. So `StopHolds` is about attack runs. The same may happen to a syslog
  run stopped between its last read of the status and its write;
* a container whose worker raised, whose pool broke or whose result could not be
  saved stays "starting" after its deployment has ended
  (`deployment.py:420-426`, `185-187`, `442`), and a later restart marks it
  interrupted, though lifecycle.py:76-77 says that "starting" means cut off;
* a syslog run that completes while the signal handler is at its record is
  announced as completed and shown as interrupted;
* a detection check that ends with an exception other than `DetectionError` (a
  refused connection to a plain `http://` address; a database error) is shown as
  "checking" until the next restart; a planned check of a run that is stopped or
  failed is shown as "waiting" as long, where user-guide.md:183-184 describes a
  check after the run;
* a slower older check writes its result over that of a newer one;
* `routes/simulations.py:301-302` says that checks are for attack simulations,
  but the records of the other kinds have the two fields it looks at;
* a simulation whose first save fails is answered with an error and shown as
  running until a restart;
* a quota is checked against the containers that exist, so two deployments in
  progress may pass it together (`tenancy.py:101-120`; user-guide.md:91-93 says
  that a deployment that would exceed it is refused);
* the same with requests that are checked one after the other: when containers of
  one user are deleted while that user deploys the same names again, another user's
  request for those names takes them as its own (`routes/agents.py:162-166`), and
  the first request's workers then make containers that count for the second user
  without having been asked for by them. This came out of the proof of `LimitsKept`,
  which was not inductive without it; it takes two users, more than the run has;
* of two deployments with the same base name, the one that fails a name because it
  exists, or cancels it while it is still queued, writes "error" over the "starting"
  of the one that is making it (`deployment.py:223`, `185`), so that a crash then
  leaves it unmarked. So `CutOffMarked` is about deployments that share no names.

Packages:

* the partial file of a download that was cut off, or went over its time, is a hit for every later
  install: deployments of that agent fail until somebody deletes the cache;
* UTMstack's installer may remove a small file while another copies it;
* a worker process forked while a deployment in threads holds the lock of the
  cache never gets it, and its deployment hangs until a stop.

Containers and groups:

* a row read before a rename or deletion of its group, or before the container was
  deleted, is written back whole (`agent_info.py:42-64`), and undoes that;
* a name that was deleted and is deployed again keeps `deleted_at`: it is listed
  with its group, but left out of the group's counts, bulk operations and
  assignments (`db.py:198-207`, `routes/groups.py:168`).

Accounts:

* when the process is killed, or the second transaction fails, between turning the second factor on and
  signing the other browsers out (`routes/users.py:132-133`), those stay signed in by password
  alone until their sessions end, though the factor is on; so do all after a reset
  by an administrator (`users.py:324-325`), and after a change of a password
  (`users.py:74-75`), of which admin-guide.md:231-234 says that it signs out. `OnlyWithCode` leaves
  those browsers out;
* a sign-in at the identity provider before first-run setup makes an account, which is
  no administrator's unless the provider's groups say so, and setup is then refused:
  there is no administrator (`routes/auth.py:226-240`; admin-guide.md:235-236
  says there is always one). `AdminRemains` says there is one once there was;
* the role of an account of the provider follows its groups at every sign-in,
  except the last administrator's;
* after the accounts are removed as admin-guide.md:332-337 says, the setup token
  is there only from the next start on.

Benchmarks, notices and the license:

* a benchmark whose last save fails is shown as running until the next restart;
* a stopped benchmark ends as "aborted" only when its phase is over;
* a channel that gets problems only is told that an alert began and never that it
  cleared (`notify.py:334-336`), so its last message goes on saying so, by design of that setting;
  `LastNoticeHolds` is of the channels that get the event that tells how the alert is;
* a notice is lost, without a retry, when the channels cannot be read
  (`notify.py:337-339`), or its own one later, from the
  database; a retried one may arrive after a later one, so that the last message of
  a channel is not how things are; two threads may queue theirs in the order
  opposite to their changes;
* two license installs at once share `license.tmp` (`licensing.py:194-198`): the
  key may be damaged, or one of them end in `FileNotFoundError`;
* the trial starts with the oldest account there still is (`licensing.py:204-220`),
  so it is longer when that is deleted;
* the alert that a host is unreachable is known by the host's name: when that is
  renamed or deleted, it stays until a restart (`hosts.py:251-263`). A plain
  `http://` host that refuses connections raises an `OSError` that
  nobody turns into a `HostError` (`hosts.py:71-73`), and ends that minute's checks.

Backups and upgrades:

* the newest backups are kept whatever their labels, so manual ones push scheduled
  ones out (`backup.py:167-176`);
* a backup is named before it is packed (`backup.py:150-158`): a scheduled one that takes
  long, while others take later names and are done first, is the oldest of the list when it is
  done and may be pruned at once, by itself. The schedule has then passed without an error and no
  file may be left that was written within the interval. What is left was named less than
  the interval and that packing time ago, and that is what `FreshBackup` says;
* when the clock was set back, a new backup may be pruned
  at once and none is due;
* a restore that is tried again puts what the first left over the `*.before-restore`
  of the original data;
* `habeny db restore` of the oldest of the copies kept first makes a copy of the
  current database, which deletes the file it was to restore (`migrations/__init__.py:120-170`; admin-guide.md:431);
* two processes that migrate an empty database at once, and a restore or downgrade while a
  server starts, can leave tables that are not what the version says (`mixed`).

Hosts and helper:

* a rename of a host during a change of its token writes the old token back;
* a `create()` that timed out on the client goes on in the helper, and leaves a
  container the server was told nothing of.

Records: one record whose write is refused every time keeps those after it in the
order of the flush from being written (`records.py:121-122`); `records_flush` has no errors.

### Why the bounds are enough

Deployments interact through one pool, one record and one name at a time: three
names on two workers give a queue, busy workers, and one name left over when
another is recorded or abandoned, and two deployments of one name are all there
is to a collision. The theorems hold for any number. In `Records`, two records
are what a flush or a load that has come past one and not yet to the other
needs. A schedule meets others only on the loop, which they hold for a while:
nothing happens to it then but the signal, so one is enough, and the theorems
hold for any number. Four audit entries and three times allow timestamps out of
order, a prune to nothing and a new row after it, and a gap in the middle. Simulations do not touch each
other's records and share only the loop, so one of any kind is enough: while
another holds the loop, nothing happens to it but what threads and the signal
handler do at any time. Two seconds are one to be stopped in and one not to be
begun.

A backup's three names are two of users that push out a scheduled one, in any order of
their packing. Two accounts are what a last administrator and another need; two sign-ins and one
identity race for one account. Three time steps are the window of `matching_step`, before,
now and after, and three secrets or sets allow a second enrolment and new recovery
codes. Two names and two requests are what passes a limit together. Rows of hosts do not
interact, so one is enough. Releases of two and three migrations allow an upgrade by
more than one step, a downgrade and a copy of a newer schema; with two copies kept the
older one is pushed out by the next. A queue of one notice is full at once, and one retry shows
that attempts are counted. Keeping two backups lets two manual ones push the
scheduled one out. Three days are a trial, its grace and what comes after; two changes are
two installs at once, or an install and a restart. Two threads and a forked process are
the two ways a package cache is shared. A second call of a client is what the late answer of the first could be
taken for.

### Fairness

* `StopEnds`: the handler's thread runs on, the deadline passes, and the process
  exits when it has. Nothing is assumed of workers or clients.
* `InstallsEnd`: every command of an install has a timeout, so each goes on (weak), and a thread
  gets the lock that others give back again and again (strong). Processes
  forked while the server held the lock are left out.
* `RequestEnds` has the fairness of the workers as its antecedent, since an
  installation may hang.
* `EventuallySaved`: the maintenance thread gets its turn and, strongly, the lock,
  which others hold only for single writes; no write is refused.
* `TimedEnds`: the loop runs callbacks and tasks that are ready in turn (strong
  for beginning, waking, cancelling and resuming, since passes of others come in between; weak for
  the end of a pass, whose commands have timeouts). The clock runs, the service
  manager starts the server again, and the server is not killed at every start
  before it has resumed.
* `RunsEnd`, `ChecksSettle`: coroutines and threads run on (traffic, scripts and
  searches have timeouts), and a process whose loop is closed exits.
* `BenchmarksEnd`: phases last a bounded time and the loop goes on to the next;
  the service manager starts the process again.
* `NoticesSettle`: the dispatcher's thread goes on, since every send has a
  timeout, and so do timers. Nothing is assumed of what the endpoints answer.
* `LicenseAlertSettles`: the maintenance thread comes by each minute and finishes its check. This
  takes it that no check before it raises, which an unreachable plain-http host does
  (see above). Days and changes are finite by their bounds: the property is of the
  time after the last of them.

## Proofs

All theorems hold for any values of the constants that satisfy the named
assumptions; those say that sets of names are finite where cardinalities are
taken, that bounds are natural numbers, and that an id is not one of the special
values. Each is a safety property of its component's specification, from an
inductive invariant that TLC checked first on the instances above. A proof has a
lemma per action (or one for several actions that take the same kind of step), and in
it a step per conjunct. Every safety property that a run checks is the subject of a theorem.

Assumptions that say more than that: `LatestExists` (of the releases there are, one is
the latest) and `RepeatableFirst` (only the first migration may be applied to a database that has
it: `v0001_baseline.py` creates what is not there) of `Upgrades`; `PartsAreNamed` of
`Backups`; `SubjectsAreNotLocal` of `Accounts` (`"local"` stands for no identity);
`NoneIsNobody` of `Registry` (NULL is no user and no team).

**Deployment.** `TypeCorrect`; `NotedStops` and `WorkersStayBounded` from
`LoopInv`: a name is in one of `queued`, `pending` and `done`; only workers of
pending futures, or of given-up ones in the last round, may be busy or have
messages under way. `CountersAgree`, `NothingUnaccounted`, `RunningIsOpen` from
`RecordInv` on top of it: `succeeded`, `failed` and the open names are a
partition of the request. It needs `Messengers`: a step message that arrived
after its result would turn a finished row back and count it twice; what rules
it out is that `Drain` comes between the end of a worker and its record.
`OneInside`, of `UndisturbedSpec` (nobody starts, stops or deletes containers by
hand): who is inside a container has made it, so it is there, and nobody else's
`create` succeeds. `CutOffMarked`, of the same: what is queued or submitted is written as
"starting" and nothing but its own record changes that (`StartingInv`). Its hypothesis
`NamesApart`, that deployments share no names, holds whenever base names differ;
without it the property is false (see above).

**Records.** `TypeCorrect`, `DigestsAgree`, and `Implements`: every step is a
step of `DurableRecords` or stutters. The invariant `Behind` says that neither
the disk nor the snapshot under way is ahead of memory; without it a flush could
bring the disk back to an older version. `NoneLeft`: what a load has come by is
marked on disk (`Marked`). `PruneSpares`: a row of the version in memory has
that record's status, so one that is old and not active is not active in memory,
and stays so until it is deleted (`Settled`). The exception are records that the start
resumes, whose rows may be as old as they like: it saves each of them, and no prune comes before
that (the first is due 60 seconds after the start, `maintenance.py:102`; if resuming took longer than that,
the property would not hold, and there is nothing else that prevents it). `ExitKeeps`: whatever the last flush is done with is on
disk, or the version in memory is being saved untorn, or it changed since or was refused (`Flushed`).

**LogSchedules.** `StopsHold`, `BegunAreResumed`, `NoneTooEarly`, `ShownTruly`,
`TypeCorrect`. The invariant follows the one status that tells a user's cancellation from
a restart's: a record that would be resumed after an exit would be resumed after
a crash (`Kept`), what is owed is on its way (`OnItsWay`), and a task's remaining
time never ends before the schedule's (`TimeLeft`).

**Audit.** `IdsOnce`, `Genuine`, `Real`, `Retained`, `TypeCorrect`. The newest
row, or else the anchor, carries the largest id ever given (`TipIsLast`), and the
rows of an unaltered table form a chain from its anchor (`Verifiable`).

**Simulation.** `StopsHold`, `ShownAsAnnounced`, `NothingLeftRunning`,
`CutOffShown`, `ChecksAreAsked`, `TypeCorrect`. What is active in memory is active on disk
(`ActiveSaved`), so that the next process finds it; a stop is saved before it is
answered, and no run that read "running" is about to end an attack that was
stopped (`StopSaved`); nothing announced is still in progress
(`AnnouncedLast`).

**Registry.** `NobodyOverLimit`: what counts for a user or team that is not excused is
what exists *or is still to be made* by a running request (`Due`), and that is what
stays within the limit. A request that has listed the names has seen all of it
(`AllIsSeen`), which is what its check relies on; what it found existing and is gone
counts for nobody but the excused (`ListedIsThere`), and what a running request is to make is its
user's (`ComingIsTheirs`). `NumbersForEver`: the next number is one more than there
are rows, each below it and different; a row read earlier, to be written back
whole, has the number its name has, or none (`ReadsAgree`), since a row once numbered keeps it.

**Upgrades.** `SchemaKnown`. While nothing was mixed, the database and every copy show
the migrations of their versions (`AllKnown`); who downgrades, restores or fills an empty
database is alone (`WorksAlone`); and the next migration of an upgrade is the next
of the database or one that another process has applied (`NextOrApplied`).

**Accounts.** `AdminStays`, `SetupIsOnce`, `IdentitiesStayApart`. All that any handler, thread or
command does to the users table is one of three changes that keep names, identities and
an administrator (`UserChange`); the user a handler is about stays while it holds the loop, and once set up, the
token of the setup is gone before another handler comes (`HandlerOK`).

Nobody goes on with an account other than the one looked up: that id has been given
(`LookupsOK`), and no row of an id given before becomes another user's (`RowsKept`).

**SecondFactor.** `NoCodeTwice`: a code that was used is of a secret that is not on,
or of a step not after the last one accepted, or a recovery code no longer left (`StillUnused`);
secrets and sets made later have other numbers (`MadeBefore`). `SignedInWithCode`: with the factor on, who is
signed in by password alone is still to be signed out by the handler on the loop (`PasswordsPending`).

**Hosts and Helper.** `StoredPairsWorked`: what an edit is to write without asking again
was accepted (`EditsWorked`). `OutcomesAreTrue`: an answer on a client's connection is
that of its last call, which no thread works on any more (`AnswersAreTrue`); each thread is
the only one of its call (`OneThreadEach`).

**Notifications.** `LastNotice`: for a channel that gets the event, unless troubled, who tells does so alone and how
the alert is, and else the last notice on its way to a channel, in the queue, being
sent or told, says how it is (`ToldInOrder`).

**Benchmark.** `StopsHeeded`: nothing sets the status of a benchmark in memory between the
stop and the end of its phase (`StopStays`); what is announced is what is shown (`RowsAgree`).

**Backups.** `BackupIsFresh`: later names are not of earlier hours (`NamesInOrder`) and a scheduled one
is packed in time (`ScheduledInTime`), so some backup is young from the moment a pass is about
to prune (`SomeYoung`); the newest name is then young too, and a prune keeps it (`NewestKept`). `ReplacedKept`: a
part that a restore has not come to is as it was; of one it is to put back, what it was lies aside
(`PartsHandled`).

**The parts together.** `AdministrationImplementsEach` and `ServicesImplementEach`: a behaviour
of the instances is one of `Spec`, `AccountSpec`, `RegistrySpec` and each other component's
specification (its variables change by its own actions or not at all), so that every theorem about a
component holds of them, the types included (`AdministrationTypes`, `ServicesTypes`).

Some invariants are proved and no longer among the runs' properties: the types of Deployment,
Records and LogSchedules; `NoneHandedOutOnceNoted`, `WorkersBounded` and
`ProgressConsistent` (Deployment); `DigestAgrees` and `NoneLeftActive` (Records);
`ShownAsItIs` (LogSchedules); `IdsGivenOnce` and `NoneExpiredLeft` (Audit);
`AnnouncedIsShown`, `RunningIsInProgress` and `CheckingIsAsked` (Simulation).

Only model-checked: the liveness properties (`StopEnds`, `RequestEnds`, `InstallsEnd`,
`EventuallySaved`, `TimedEnds`, `RunsEnd`, `ChecksSettle`, `BenchmarksEnd`,
`NoticesSettle`, `LicenseAlertSettles`), since fairness speaks of what is
enabled, and the provers at hand have no rule for that; and `Packages`, whose
properties are one of liveness and one that is violated.

## Not modelled, and the plan

* Containers themselves (`core/`): LXC, iptables and commands in them; what they
  return is the nondeterminism of the modules. Scripts, templates, traffic, and the choice of
  containers for a simulation.
* Validation, password rules, configuration, certificates, middleware, formatting of
  messages, metrics, reports, support bundles, the web interface, packaging: they compute without
  interacting, or are pure input and output.
* Of modelled components: the thread-pool mode of the deployment loop (the same loop
  without broken pools); a `deployment_id` that a client uses again while its
  request is open; one-off log uploads; start, stop and log uploads of all members of a group;
  samples, thresholds and summaries of a benchmark, and the containers it deletes;
  limits on failed sign-ins; the container limit of a license; relayed requests
  to hosts; the pruning of old rows and files other than records,
  audit entries and backups.

Next, in order of importance:

1. An abstract specification of `Deployment`, a request that each name leaves exactly
   once, with its refinement proved from `RecordInv`; and one of `Notifications`, an alert that
   opens, is announced and closes.
2. Safety lemmas that the liveness properties rest on, as theorems: that a stop past its
   deadline leaves the loop nothing to wait for, that the lock of a package cache is
   held only by an install that goes on, that a benchmark shown as running has a task
   or an entry that the next start closes.
3. The theorems about `Deployment` in the presence of listings: which states of
   `lifecycle_status` a restart still marks.
