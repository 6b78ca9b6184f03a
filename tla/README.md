# go-watchdog in TLA+

A verification project for go-watchdog: TLA+ models of its concurrent parts,
TLC configurations that check them on small instances, and TLAPS proofs of the
main results for every instance. Paths below are relative to the repository
root (`server/`, `checker/`, `agent/`, `docs/`).

## 1. Inventory of the system

| Component | State it keeps | Operations | What makes it correct |
|---|---|---|---|
| Health runner, `server/health_runner.go` | `jobs` (jobsMutex), `statusCache` (cacheMutex), one goroutine per job with a copy of its row, stop channels | `Start`, `syncJobs` every 10 s, `checkTarget` on every tick, `Stop`, `stopAllJobs` | one loop per active target, with the stored configuration; an alert on every change of a service's status and on nothing else; every loop can be stopped |
| Target API and tables, `server/handler.go`, `server/db.go` | `health_targets`, `health_logs` | create, list, delete; save and query logs; expiry | ids are not reused; logs go with their target |
| SQLite store, `server/db.go` | a pool of at most 10 connections, pragmas per connection, SQLite's write lock | nested reads, writes, transactions | no request waits for ever, no connection leaks, foreign keys are enforced |
| Metric ingestion and dashboard API, `server/handler.go` | `metrics`, `disk_metrics`, `metricCache` (cacheMutex) | `HandlePostMetrics`, `HandleGetStatus` | the dashboard shows committed data, all agents, and the newest report |
| Agent, `agent/` | a ticker, one request at a time | collect, `Send` with a 5 s timeout | reports go out in order |
| Standalone checker, `checker/runner.go` | `jobs` (jobsMutex), one goroutine per job, `stopSync` | `Start`, `syncTargets`, `checkAndReport`, `Stop` | the loops are those the portal lists; Stop ends all of them |
| Notifier, `server/notifier.go` | none; a goroutine per webhook call | `SendAlert` | each alert reaches a channel at most once; a channel that keeps the order tells the truth |
| Retention cleaner, `server/main.go`, `server/db.go`, `server/config.go` | none of its own; two goroutines | `CleanupOldMetrics` at start and hourly | deletes everything beyond the retention period and nothing else |
| Server start and shutdown, `server/main.go` | the order of the deferred calls | signal, `Shutdown`, `Stop`, `Close` | every request ends, or the process does; no connection leaks on the way |
| Dashboard pages, `server/templates/dashboard.js`, `health.js` | cards in the page, timers | poll every 5 s, fetch, update, fade out | ends up showing what the server lists |
| Authentication, configuration | none | compare a token; read a file | (stateless) |

How they interact: handlers, scheduler, check loops and the cleaner are
goroutines of one process that share the pool and the two mutex-protected maps;
the database outlives the process; agents and browsers use HTTP; the notifier is
called by the check loops; the checker is a process of its own that talks to a
portal that is not part of this repository.

The hard behaviours are the interleaving of check loops with the scheduler
(section 3.1), what becomes of an alert on its way (3.2), waiting for pool
connections and losing them at shutdown (3.3), Stop against a synchronization
under way (3.4), POST and GET handlers around the cache (3.5), two cleaners,
writers and readers on the same tables (3.6), overlapping polls (3.7), and
restarts in the middle of most of these. `PROJECT.json` lists them one by one
under "hazards".

## 2. Plan

Done in this order, the most important behaviour first.

1. `HealthRunner`, which implements the abstract `AlertLog` and `JobPool`;
   `HealthRunnerProofs`, `HealthRunnerAlertProofs`.
2. `ConnPool`; `ConnPoolProofs`.
3. `CheckerRunner`, which implements `JobPool`; `CheckerRunnerProofs`.
4. `MetricCache`; `MetricCacheProofs`.
5. `Notifier`, which extends `HealthRunner` by the delivery of its alerts;
   `NotifierProofs`, which extends both proof modules of item 1.
6. `Retention`; `RetentionProofs`.
7. `Shutdown`, which composes `ConnPool` with the end of main(); its proofs use
   the invariant of `ConnPool` and stand with them in `ConnPoolProofs`.
8. `CardPage`; `CardPageProofs`.

Left for later: the 64-bit arithmetic of intervals (section 6).

## 3. The modules

Each handler or loop step that other goroutines can see is one action; code
between two such points is one step. A mutex section that calls nothing which
can block is one action; a longer one keeps the mutex as state (`sched`, `sync`).
Operators named after a mistake (`SyncStopWithoutClose`, `RecordNothing`, ...)
are deliberately wrong variants of the definition below them. `Next` does not
use them; each shows that a property notices the mistake.

### 3.1 HealthRunner, AlertLog, JobPool

State: the database (`rows`, `issued`, `lastLog`), the process (`main`, `sched`,
`snapshot`, `jobs`, `cache`, and per loop `pc`, `target`, `conf`, `closed`,
`prev`, `res`) and the outside (`svc`, `alerts`). A loop is a member of `Runs`;
`conf[r]` and `target[r]` are the copy of the row that `runCheckLoop` got. The
stop channel of a job is `closed[r]`. `prev` and `res` are `prevStatus` and
`currentStatus`.

* `SyncRead`, `SyncStop`, `SyncStart`, `SyncDone` are `syncJobs`, under
  jobsMutex; check loops never take that mutex, so its steps interleave with
  theirs. `SyncFail` is the early return of the first one; a later failure
  changes nothing.
* `CheckBegin`, `Probe`, `SaveLog`, `Record`, `Alert` are `checkTarget`, cut where
  other goroutines can come in. A request gets what the service is at the moment, at
  the URL and within the timeout of the loop's own copy of the row (`svc[t][c]`):
  after an edit the old loop may find another status than the new one. `AtFirst`
  bounds what services are at the start. A save may fail; the previous status is the
  cached one, else the newest log's, else ONLINE, also when the query fails.
* `Tick`, `LoopExit` are the select of a loop, `StopAllJobs` and another
  `SyncRead` that of the scheduler: both branches are possible when both are
  ready.
* `ProcessEnds` happens at any point: a crash, a kill, or main() returning,
  which after `Stop` waits for nobody. `ProcessStarts` is the next run on the
  same database.
* `EditTarget` is an UPDATE from outside: the API has no edit, but `syncJobs`
  is written for changed rows.

`AlertLog` is what the channel's readers are promised, with no jobs, loops or cache:
an alert is about a registered target, differs from the previous one (the first is
OFFLINE) and names a status that the service, as it was registered, had since the
previous alert. `ImplementsAlertLog` says that HealthRunner implements it where rows
are not edited; its variables map by name. `issued[t]` is what id `t` was handed out
for, and `seen` is a history variable. Latencies, messages and durations are left
out; so is the tie between two logs of the same instant.

`JobPool` is what the schedulers of the server and of the standalone checker
have in common, with no lists, locks, ticks or checks: per target at most one
loop is meant to run, its configuration is replaced only by telling it to stop,
and a loop ends only after it was told to, or with its process. The refinement
mapping takes `open[t]` from `jobs` and the loop's copy of the row, and
`ending[t]` from the closed channels.

### 3.2 Notifier

`Notifier` adds to `HealthRunner` what `SendAlert` starts: per alert and channel
a goroutine in `pending`, which ends in `Deliver` (the number of the alert is
appended to `inbox`) or `Lose`, at any time and in any order. The process takes
its goroutines with it (`ProcessKillsDeliveries`). `alerts` stays what the runner
handed over; `inbox` is what a reader sees. A channel is `Intact` as long as it
lost nothing and nothing was overtaken: the code promises neither, so the
properties about readers are about intact channels.

### 3.3 ConnPool, Shutdown

`opened` and `free` are database/sql's pool, `outer[q]` and `inner[q]` the
connections request `q` holds, `lock` SQLite's write lock. `GetHealthTargetsStatus`
and `GetLatestMetrics` are nested readers: `Connect`, then per row `NextRow`,
`QueryRow`, `RowDone`, and `RowsDone`. Writers are single statements and
transactions. The pool and SQLite are external: the pool gives an idle
connection, or opens one up to MaxOpen, or lets the caller wait without a limit
(no call of db.go has a context); a `PRAGMA foreign_keys` or `busy_timeout`
belongs to the connection it is executed on, and `NewSQLiteStore` executes it
once, while only one connection exists (`Tuned`). It is assumed that the driver
sets neither of its own accord.

`Shutdown` adds the last part of main(): `Signal`, `Drained` or `DrainTimeout`
(httpServer.Shutdown), `CloseStore` (the deferred Stop and Close) and `Exit`.
`Shutdown` stops listening, but the handler of a connection accepted just before may
still start while it waits, and handlers go on after its timeout: `StartRequest`.
`Background` are the requests of check loops and of the cleaner: none of these steps
stops them, so they start new requests to the end. A closed store refuses
connections, also to requests that are waiting; those that hold one finish with it.
The rest are ConnPool's actions, taken while the process lives (`Alive`).

### 3.4 CheckerRunner

The checker's counterpart of 3.1. It differs where it matters: the list is
fetched before the mutex is taken (`FetchTargets`, `LockJobs`), a target is
replaced in one step, new list entries come before removals, `Stop` closes
`stopSync` and then the jobs itself, and the portal changes targets freely. A
report keeps no state.

### 3.5 MetricCache

Agents number their metrics in the order of their timestamps. A POST is two steps,
`SaveMetric` and `CacheMetric`; a GET is `GetCached`, or `GetCold`,
`GetLatestMetrics` and `FillCache`. An agent that times out (`SendTimeout`) leaves
its request running. `CleanupOldMetrics` deletes rows but no cache entry; `Restart`
loses handlers and cache. `Polls` are the requests under way, of one page or of
several: a page polls every 5 seconds without waiting for the last answer. `told[p]`
is the last answer to `p`, a history variable, and `Sends` bounds the metrics of
each agent. `rows[a][n]` is the id of the row with a's n-th metric; ids grow with
the commits, which need not come in the order of the metrics, and the cold read
takes the largest (`IsLatest`). The 30 second rule for OFFLINE is not modelled, and
the disks of a metric are in `Retention`.

### 3.6 Retention

`RetentionDays` is what main() makes of file and flag: `LoadConfig` replaces a
file's value that is not positive, a flag is taken as it is. `AskedDays` is what
the operator asked for, by the flag if there is one and by the file otherwise.
`KeepsRetention` speaks of that and not of what the code makes of it; where nobody
asked for a positive number of days (`HasAsked`) it claims nothing, because there the
documents and the code disagree (section 4). Time is relative:
`age[x]` in hours, and for a cleanup under way `limit[k]`, the age its cutoff
stands for, which grows by one with every `Hour` like the rows do. `Cutoff` has the
zone in it: the local time is formatted without its zone and read as UTC, while
the driver stores timestamps with theirs (`_time_format=sqlite`). The startup
cleaner and the hourly one each go through the statements of
`CleanupOldMetrics` one by one; each may fail in the way the code handles, and
`Restart` may come between any two. Next to them `SaveMetric` (one transaction)
and the two queries of `GetLatestMetrics`. The
settings do not change within a behaviour; every combination is an initial state.

### 3.7 CardPage

One module for both tabs: `CanHide` is TRUE for the API tab, which does not ask
while it is hidden. Each poll in `Polls` is asked, answered at the server at some
instant, and shown when the answer arrives; polls overlap and arrive in any
order. `ShowEmpty` and `ShowList` are the two branches after the fetch; a card
that is not listed starts to fade and `FadeOut` removes it 300 ms later,
even if an answer has named it again in between. What a card shows is the version
of its item. `earlier` and `overtaken` are history variables: a poll is overtaken
when an answer that the server gave after its own has been shown.

## 4. What is checked

The `MC*` modules hold what a configuration cannot spell. Symmetry is used in
safety runs only. Deadlock is checked in ConnPool, MetricCache, Retention and
CardPage; it is off for HealthRunner, Notifier, CheckerRunner and Shutdown, which
come to rest after Stop or at the end of the process.

| Run | Checks | Instance |
|---|---|---|
| HealthRunnerApi | `OneLoopPerTarget`, `AlertsAlternate`, `CacheAnnounced`, `ImplementsAlertLog` | 2 targets, 2 loops, 2 changes of health; rows change through the API only, no restart |
| HealthRunnerSettles | `TypeOK`, `JobsAgree`, `ImplementsJobPool`, `WatchSettles` | 1 target, 2 configurations, 2 loops, 1 edit, 1 restart; the service is down |
| NotifierLive | `OneFate`, `ChannelTruthful`, `AlertsTruthful`, `StopDrains` | 1 target, 1 loop, 1 channel, 1 change of health, 1 restart |
| ShutdownShared | `TypeOK`, `ConnsAccounted`, `NotWedged`, `RequestsEndOrExit` | 3 connections, 2 nested readers, 2 writers, one of them in the background |
| CheckerSync | `TypeOK`, `JobsAgree`, `ImplementsJobPool`, `ListSettles`, `ClosedLoopsEnd` | 1 target, 2 configurations, 2 loops, 3 edits |
| MetricCacheShown | `TypeOK`, `ShownIsCommitted`, `AgentsStayListed`, `LastReportShown` | 2 agents, one with 2 metrics and one with 1, 2 overlapping polls, 1 restart |
| RetentionKept | `TypeOK`, `KeepsRetention`, `NothingTorn`, `ExpiredGo` | 1 metric, 1 log, days of 2 hours, zones 0 and -1, a file with 1 or 0 days, a flag with 2 or none, 1 hour within a cleanup, 1 restart |
| CardPageSettles | `TypeOK`, `EmptyStateHonest`, `NoStepBack`, `PageSettles` | 2 items, 2 polls, 2 changes each, a tab that can be hidden |

The bounds. Two loops are enough for every race between an old loop and its
successor. A third would only wait for a free member of `Runs`: `SyncStart` then
stays in `syncJobs` until a loop has ended, which loses the behaviours with three
overlapping loops of one target. Targets share nothing but the scheduler, so one
target suffices for liveness and two for the safety of the whole. Two changes of
health give an outage and a recovery, one gives a service that goes down and stays
so: with deliveries in the state that is what fits. One edit and one restart meet
each other in every order. Three connections with two readers are the smallest pool
in which the readers compete for the spare connection. Three edits of the portal's
list allow a change, a removal and a return. Two agents let one hide another, the
second metric of one lets an old metric replace a new one, and two polls let a slow
cold GET overlap a later cached one. In HealthRunnerSettles the service is down
throughout, so that loops save and alert as well as check; what they find does not
matter to its properties. A file with 0 days and no flag is the case in which nobody
asked for anything that `KeepsRetention` could claim; with the other combinations
the flag wins over the file, or the file alone decides. Retention compares ages with
`Cutoff` only: a day of two hours has ages on both sides of every cutoff of these
zones, `Oldest` lies beyond all of them, and `MaxHours` lets one tick come while a
cleanup is under way. Two polls overtake each other; with two versions the older of
two answers is an older state of a listed item. The invariants, action properties
and refinements of these runs are all proved without bounds (section 5).

Runs that refute what a comment or document says; each is a finding in
`PROJECT.json`:

| Run | Statement | What happens |
|---|---|---|
| ConnPoolWedged | the limits prevent deadlocks on nested queries (`server/db.go:28`) | as many nested readers as connections wait for each other for ever; checked with 2 and 2, the same happens with 10 and 10 |
| ConnPoolOrphans | deletes cascade (`docs/03_db_spec.md:13`) | a DELETE on a connection without the pragma leaves logs |
| MetricCacheHidden | the status of all registered servers (`server/handler.go:140`) | after a restart the first report hides the other agents |
| RetentionZone | only records older than the retention days are deleted (`server/db.go:261`) | ahead of UTC they go by the offset too early: at UTC+9 the default day keeps 15 hours |

What the models also show, at a different bound or without a premise of a
property, and no run of its own repeats:

* With a second configuration and `MaxEdits = 1` in HealthRunnerApi,
  `AlertsAlternate` fails: after a change of a row (an UPDATE from outside) the old
  loop's check overlaps the new loop's, and one outage is announced twice, against
  `docs/08_api_health_check_plan.md:59` and `:189`. The last alert, and what the
  cache holds, may then also be what the old loop found at the old URL: hence
  `edits = 0` in `AlertsTruthful` and `ChannelTruthful`.
* Without `restarts = 0` in `AlertsTruthful` (NotifierLive), it fails: a process that
  ends between saving OFFLINE and alerting leaves an outage that the next one takes
  for known (`docs/08_api_health_check_plan.md:188` has it announced at once). The
  cache recovers, as the property says.
* In CheckerRunner a synchronization that waits for the mutex starts loops after
  Stop, which nobody ends, although `checker/runner.go:92` has Stop terminate all
  jobs and synchronization. They run until main() returns and the process exits,
  shortly after. `ClosedLoopsEnd` therefore speaks of loops that were
  closed, and of all loops only if none was left in the map.
* `main.go:159` says the background cleaner is stopped first. Nothing stops it: its
  ticker falls silent when main() returns, and a cleanup under way ends with the
  process.
* README.md:33 and :78 and several documents give a default retention of 14 days;
  `config.go` and `main.go` use 1 where neither file nor flag says anything
  (`RetentionDays`). It is no finding because no run checks it, and it needs none.
  A `-retention` of 0 or less is not replaced: everything is beyond it.
* The mark "API Connection Error" of dashboard.js is never taken back when a later
  fetch succeeds (`dashboard.js:206`).

* An answer of a cold GET may reach a page after that of a later cached one and name
  fewer agents: `AgentsStayListed` speaks of requests that come after an answer, not
  of the order in which a page gets the answers (section 3.7 has that).

Fairness. Every HTTP request has a client timeout, tickers tick, and database
calls return (which presumes fewer nested readers at a time than connections:
otherwise they need not, as ConnPoolWedged shows, and everything that waits for the
database waits too), so a loop, the scheduler, a delivery and a handler that can move do
move: weak fairness. A Go select with two ready channels picks either with equal
probability, so a stop branch that is ready again and again is taken: strong
fairness for `LoopExit`, `StopAllJobs` and `SyncExit`, which a tick disables for a
while. database/sql hands a returned connection to a request that waits for one:
strong fairness for `Proceed`; result sets are finite: `RowsDone`. The steps of
main() after a signal are weakly fair, as its 10 seconds pass; that main() ends is thus
an assumption here and no result. A DELETE that the
hourly cleaner tries again and again succeeds at some time, and so does a page's
poll: strong fairness for these; timers of the page fire. Nothing is assumed of
users, services, crashes or single failures. `SyncStep` being fair says that
syncJobs does not fail for ever.

## 5. What is proved

For any sets and any values of the bounds, under the assumptions the modules name
(`ConstAssumption`, `PoolAssumption`, ...), which TLC evaluates in the runs. Every
invariant argument has the same form: an inductive conjunction, `Init` implies it,
each action preserves it, and it implies the property.

* `HealthRunnerProofs`: `TypeCorrect`; `JobsCorrect`, with edits, crashes and
  restarts. Given `TypeOK`, `JobsAgree` is inductive as it stands: its second and
  third conjunct (an open loop is registered, a free one is open) are what make the
  first one survive `SyncStart` and `LoopExit`. `PoolImplemented`
  (`Spec => ImplementsJobPool`) follows: `SyncStart` is `Start`, `SyncStop` is
  `Replace` by nothing, `LoopExit` is `End`, and so on; each mapped step needs
  `JobsAgree` to know that the loop it closes was open and the one it starts is new.
* `HealthRunnerAlertProofs`: what holds until something from outside interferes.
  `OneLoopUntilEdited`: until the first edit of a row, across any restarts;
  `AlternationUntilRestart` and `AlertLogUntilRestart`: until the first edit or
  restart (`Calm`). Neither condition can be dropped (section 4). The counters of
  edits and restarts only grow (`CountersGrow`), so the invariant is an implication
  with `Calm` as its premise. `CacheAnnouncedUntilRestart` has the same premise:
  what the runner remembers of a target was announced, or is about to be. `OneLoop`,
  `Alternation` and `AlertLogImplemented` are the unconditional forms where the
  bounds exclude edits, or both (`OnlyApi`): they are what HealthRunnerApi checks.
  The argument needs more than the properties say: that an id is issued once and its
  row never changes (`RowsFixed`), so that a loop is stopped only for a deleted row
  and no second one can follow (`StoppedIsFinal`); that between checks the cache
  holds what was last reported (`CacheIsReported`) and during one `prev` does
  (`CheckHolds`); and that a result waiting to be reported is one the service had
  since the last alert. The refinement follows: `Alert` is `Announce`, `FlipService`
  is `Flip`, `CreateTarget` is `Register`, and every other step leaves the abstract
  variables alone.
* `NotifierProofs`: `RunnerImplemented` (`NotifierSpec => Spec`), by which all of the
  above holds of the composition as well. `EveryFateIsOne`: the inductive form,
  `FateInv`, says of each message number which of the three places it is in;
  `DeliveryOK` keeps the numbers positive, and the step that matters is a runner's
  step that adds one status to `alerts`, whose number is in none of them yet. A
  message is lost by a send that failed or with the process that was sending it.
* `CheckerRunnerProofs`: `TypeCorrect`, `JobsAlwaysAgree`, `PoolImplemented`. A
  target that changed is closed and started in one step, JobPool's `Replace`, and
  `CloseJobs` is `StopAll`.
* `ConnPoolProofs`: `PoolTyped`, `PoolAccounted`; `PoolNotWedged`: with fewer nested
  readers than connections the pool never wedges, by counting the connections that
  waiting readers hold; ConnPoolWedged shows the boundary to be sharp.
  `WedgedForEver`: no step leads out of a wedge, so what that run finds is not a
  delay. `OrphansNeedTwo`: the orphans of ConnPoolOrphans need a second connection;
  with the first one only, every DELETE cascades. The same module proves of
  `Shutdown`, whose steps are steps of ConnPool, of main() alone or refusals:
  `ShutdownTyped`, `ShutdownAccounted`, `ShutdownNotWedged`; and
  `WedgedUntilClosed`: while the server drains a wedge is still final, and only the
  closed store ends it.
* `MetricCacheProofs`: `TypeCorrect`; `ShownCommitted`, from an invariant on what
  requests and cold reads carry; `StaysListed`: an answer names an agent because the
  cache does or because the cold GET has just put it there, and the cache forgets none,
  so that every later request finds the cache filled and the agent in it.
* `RetentionProofs`: `TypeCorrect`; `KeptButForZone`: in any zone a deleted record
  is older than the days asked for less the offset, for any values of file and flag
  that ask for a positive number of days; `RetentionKept`, hence, for zones at or
  behind UTC; `NeverTorn`, from an invariant on readers that overlap cleanups.
* `CardPageProofs`: `TypeCorrect`, `BannerHonest`, `StepsBackOnlyOvertaken`: no
  card is newer than an answer on its way, unless an answer that the server gave after
  that one has been shown.

Everything that needs fairness is model-checked only (`WatchSettles`,
`AlertsTruthful`, `StopDrains`, `ChannelTruthful`, `RequestsEndOrExit`,
`ListSettles`, `ClosedLoopsEnd`, `LastReportShown`, `ExpiredGo`,
`PageSettles`), as liveness is beyond the prover. Most of these say that something
is reached and then stays, and the second half is a safety property, which is
proved: a state predicate that describes the goal together with everything under
way that could still undo it, and that no step leaves while the premise of the
property lasts.

| Property | Theorem | Once this holds | it stays, as long as |
|---|---|---|---|
| `WatchSettles` | `HealthRunnerProofs!SettledForGood` | `Settled`: one open loop with the stored configuration, no sync with another snapshot | the table wants it and the server runs |
| `StopDrains` | `HealthRunnerProofs!StoppedForGood` | the scheduler has stopped | the process lives; loops only get fewer |
| `AlertsTruthful` | `HealthRunnerAlertProofs!AgreedForGood` | `Agreed`: cache, last alert and all checks under way say the same | every loop of the target goes on finding that at its own URL, and the process lives |
| `ChannelTruthful` | `NotifierProofs!ToldForGood` | `Told`: `Agreed`, and the channel has got the last message | as above |
| `ListSettles` | `CheckerRunnerProofs!SettledForGood` | `Settled`: one open loop as listed, no other list fetched | the portal lists it and main() is up |
| `ClosedLoopsEnd` | `CheckerRunnerProofs!EmptiedForGood` | `Emptied`: main() stopped, no sync, no job | for ever; loops only get fewer |
| `LastReportShown` | `MetricCacheProofs!LastCachedForGood` | `LastCached`: the last metric is cached, no older request or cold read under way | for ever |
| `PageSettles` | `CardPageProofs!SettledForGood` | `Settled`: card and all answers on their way agree with the server | the server's data stay |

What is left to TLC of these eight is that the described state is reached.

## 6. Not modelled

* Authentication is a stateless comparison; a refused request changes nothing and
  is no action.
* The agent's collection of system metrics is I/O without state; the other settings
  of the configuration are strings that are read once.
* `time.Duration(IntervalSeconds) * time.Second` overflows for an interval of more
  than 292 years, which the API accepts, and `NewTicker` panics if what remains is
  not positive (`health_runner.go:130`). Durations are not in the model.
* Two logs of the same instant, between which `ORDER BY timestamp` does not decide;
  a target's status and its history, which come from two queries; the animation of a
  new card's bars and the error mark of the page.
* `GetActiveTargets` does not look at `rows.Err()` (`server/db.go:337`), so a
  result set that breaks off counts as a complete list, and the targets it lacks lose
  their loops until the next syncJobs. A query fails as a whole in the models.
* Formatting, logging, markup and the build scripts have no state a model could say
  anything about.
