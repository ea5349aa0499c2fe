# A TLA+ model of SurfaceWatch

SurfaceWatch scans the internet-facing hosts of its customers. An organisation
proves that it owns a domain, starts scans of it or schedules them, and watches a
pipeline of network tasks work through the targets. This directory holds the
specification of the parts of `src/backend` in which several processes write the
same rows, and of the browser's side of two of them: TLA+ modules, the TLC configurations that check them, and the proofs
that TLAPS checks. `PROJECT.json` maps every definition to the lines it models.

Contents: [inventory](#inventory) - [modules](#modules) - [runs](#runs) -
[proofs](#proofs) - [findings](#findings) - [limits of the model](#limits-of-the-model) -
[plan](#plan).

## Inventory

Three kinds of processes share one PostgreSQL database and one Redis: the API
(FastAPI, asynchronous, many handlers in progress at a time), the Celery workers
(one process per running task), and Celery beat, which starts the periodic tasks.
Handlers call workers only by publishing a message; workers report back only through
the database and through Redis events. PostgreSQL runs at READ COMMITTED, and with
the exceptions named below nobody takes a lock on a row it reads.

| component | state it keeps | operations | what must hold |
| --- | --- | --- | --- |
| scan lifecycle (`routes/scans.py`, `workers/orchestrator.py`, `workers/context.py`) | `scans`: status, current_stage, completed_at, celery_task_id; the broker's messages | create, cancel, delete, prune; run_pipeline, five modules, finalise_scan | an active scan has somebody who will end it; a cancelled scan stays cancelled; an ended scan is not started again; the limit of concurrent scans |
| domain claims (`routes/domains.py`, `core/dns_verify.py`, the sweep in `workers/scheduler.py`) | `domain_verifications`; the list `organisations.verified_domains` | add, verify, remove; weekly re-check and revocation | the list is the domains of the verified claims; one claim per domain; what may revoke a domain |
| cadences (`models/scan_schedule.py`) | none | next_occurrence | the first instant of the cadence strictly after a given one |
| scheduled scans (`workers/scheduler.py`, `routes/schedules.py`) | `scan_schedules`; the scans of a tick until they are published | dispatch (two phases), record success or failure; create, edit, delete, run now; disabling by the sweep | a window fires once; a queued scan gets published or closed; what is on is healthy; no schedule starves |
| pipeline modules (`workers/subdomain_enum.py` ... `change_detector.py`), assets (`routes/assets.py`) | assets and their ports, findings about them, the baseline in Redis | one task each, in a chain; create and delete an asset | an open sensitive port has its finding; a port that was opened since the last scan is reported as such, also under repeated and overlapping scans |
| vulnerabilities and alerts (`workers/cve_correlator.py`, `workers/notifier.py`) | findings; the cache of NVD answers; messages for the notifier | look up, upsert, enrich, alert, retry | a new critical finding is announced, and once |
| triage (`routes/findings.py`, `workers/ai_remediation.py`) | status, resolved_at, remediation text and its source in the evidence | create, update, delete; enrichment by a model | the text and who is credited for it agree; resolved_at and the status agree |
| reports (`routes/reports.py`, `workers/report_builder.py`) | `reports`; a file each | create, build, download, delete, prune | what is ready can be downloaded and is one's own; nothing stays pending; no file outlives its row |
| sessions (`routes/auth.py`, `models/refresh_session.py`) | `refresh_sessions`, `users.token_version` | login, refresh with rotation, logout, change of password, deactivation | a rotated token is never usable again, a family has one usable token, nothing survives a change of password |
| events (`core/events.py`, `main.py`, the hook `useScanStream.ts`) | channel and replay list of a scan in Redis | publish; WebSocket: snapshot, subscribe, replay, stream | a client learns of the end of a scan, and the right one |
| rate limiter (`core/ratelimit.py`) | counters in Redis | enforce, assert_under, record_failure, clear | no more attempts than the rule allows; no lock for ever |
| token client (`lib/api.ts`, `AuthProvider.tsx`) | the pair of tokens in localStorage, which all pages share; in each page the promise `refreshInFlight` | request with one retry, shared refresh, sign-in, sign-out, reload | requests refresh together and never present a token that was exchanged; a user who signed out stays out |

How they interact:

* a handler of scans or schedules, and a dispatcher, commits a QUEUED scan first and
  publishes `run_pipeline` afterwards, because the worker must find the row; the two
  cannot be one step, and everything can happen between them;
* `run_pipeline` publishes a chain; each module publishes the next one, the last one
  publishes `finalise_scan`. `fail_scan` is linked as the error callback of the modules, but
  as a bound task, which the pinned Celery 5.4.0 calls with one argument only; it is not
  entered, and a module that raises leaves the scan RUNNING;
* `cancel_scan` revokes the head task and writes the row; a module notices only by
  asking (`is_cancelled`), returns early but normally, and the chain goes on;
* scope checks of scans, schedules and modules read the list of verified domains,
  which handlers of domains and the sweep rewrite as a whole;
* the head of the chain and its callback, and `cancel_scan`, announce the status of a
  scan in Redis after their commits; the WebSocket handler subscribes and forwards;
* the correlator queues the enrichment and the alert of the findings it inserted; the
  enrichment rewrites text that analysts edit at the same time;
* login charges the rate limiter before and after it compares the password;
* a page whose access token has expired exchanges the stored refresh token, which other
  pages of the browser present as well; the API takes a token that comes twice for stolen
  and ends its family;
* the sweep disables the schedules of a domain it revokes; the dispatcher disables
  schedules it finds out of scope or cannot publish.

What is hard: interleavings of load and commit (stale rows, lost updates of the list,
cap checks that are separate from inserts); crashes and broker failures between the
commit and the publish; tasks delivered twice, because of `acks_late`,
`reject_on_worker_lost` and a visibility timeout as long as a task may run; overlapping
dispatchers; tasks that raise; windows, limits and counters at their boundary; and a scan that nobody ends.
The hazards, each with its line and the properties that cover it, are listed in
`PROJECT.json`.

## Modules

| module | what it is |
| --- | --- |
| `ScanLifecycle.tla` | scan rows, HTTP handlers, Celery tasks and messages |
| `ScanLifecycle_proofs.tla` | its invariants and seven theorems |
| `MCScanLifecycle.tla` | its instances for TLC (`Scan*.cfg`) |
| `DomainClaims.tla` | claims, the list, handlers and sweeps |
| `DomainClaims_proofs.tla` | its inductive invariant and four theorems |
| `MCDomainClaims.tla` | its instances (`Domain*.cfg`) |
| `Calendar.tla` | `next_occurrence` as a function of minutes |
| `Scheduler.tla` | schedules, dispatchers, handlers; extends `Calendar` |
| `WindowBook.tla` | what the schedules promise their users; implemented by `Scheduler` |
| `Scheduler_proofs.tla` | that `next_occurrence` returns the next occurrence; the scheduler's inductive invariant, its properties and the refinement |
| `MCScheduler.tla` | its instances (`Scheduler*.cfg`) |
| `ScanBoard.tla` | what the list of scans promises its users; implemented by `ScanLifecycle` |
| `EventStream.tla` | how the end of a scan reaches a browser (`Stream.cfg`) |
| `TokenChain.tla` | what rotation promises: tokens are exchanged one for one; implemented by `Sessions` |
| `Sessions.tla` | refresh tokens of one account |
| `TokenClient.tla` | the pages of one browser and the tokens they share; extends `TokenChain`, its server |
| `RateLimit.tla` | the counters around login |
| `Reports.tla` | rows and files of reports |
| `Inventory.tla` | one host under overlapping scans and the change detector |
| `Correlation.tla` | vulnerabilities found, and their announcement |
| `Triage.tla` | one finding, its analysts and its enrichment (`TriageResave.cfg`) |
| `MCComponents.tla` | instances of the seven components (`Components.cfg`) |
| `Access_proofs.tla` | invariants and theorems of `Sessions`, `RateLimit`, `TokenChain` and `TokenClient` |
| `Reports_proofs.tla` | those of `Reports` |
| `Findings_proofs.tla` | those of `Inventory`, `Correlation` and `Triage` |
| `EventStream_proofs.tla` | those of `EventStream` |
| `Components_proofs.tla` | that what `MCComponents` runs is a behaviour of each of the seven |

**Transactions.** Both SQLAlchemy sessions are used the same way: load, change in
memory, commit, and the UPDATE names the columns whose value changed. Every module
therefore splits a unit of work into a step that takes a snapshot and a step that
merges the changed columns into the row as it is by then (`Column`, `Merge`). An UPDATE
of a row that is gone raises and rolls back (SQLAlchemy's StaleDataError); a DELETE of
one does not.

**`ScanLifecycle`.** `rows` is the table `scans` of one organisation: `status`, the
current stage (0 is NULL, 1 the orchestrator), `closed` for completed_at and
`dispatched` for celery_task_id. `task` is what the broker holds, waiting or being
executed; a task keeps the row it loaded (`snap`). `req` is the HTTP handlers in
progress, with the place they are at (`pc`). The actions follow the code in order:
`CountActive`, `Insert`, `DispatchOk` or `DispatchRaises`, `StoreTaskId` or
`MarkUndispatched` for `create_scan`; `CancelLoad` (with the revocation), `CancelCommit`;
`DeleteLoad`, `DeleteCommit`; `RunLoad`, `RunMark`, `RunPublish` or `PipelineFails` for
`run_pipeline`; `StageStart` (its `set_stage`), `StageFinish` or `StageFails` for a module;
`FinaliseLoad` and `FinaliseCommit` for `finalise_scan`. The environment loses a worker
(`WorkerLost`, and the second disjuncts of `Retire` and `HandOver`, where the worker is
lost after its last effect and before the acknowledgement), redelivers
(`Redelivered`), drops revoked tasks (`Revoke`) and kills the API (`ApiCrash`).
`faults` counts these by kind and is bounded by `MaxFaults`. `orphaned` is a history
variable: the scans whose handler died, whose `run_pipeline` failed after its RUNNING
commit, of which a module raised, or whose task was killed by a revocation with no cancel
pending. A module that raises ends its chain: Celery takes the bound `fail_scan` for an
old-style error callback and applies it with the id of the failed task, so the check of its
arguments raises before it is entered.

**`DomainClaims`.** `claims` is the table of claims, `authority` the list, `actor` a
handler or a sweep with what it loaded. `check_domain_token` is the operator `Check`:
two lookups, each matching, finding other records, finding nothing, or breaking; the
explanation the sweep parses is "unresolved" only when both broke. `known` is a history
variable, the failed checks in a row whose lookups were complete. `stale` is another:
some commit so far was made although the status of a claim it held or the list had
changed since it was loaded (also when the commit then wrote neither, which only makes
the condition of the property stronger than it need be).

**`Calendar`.** Instants are minutes since a Monday 00:00 UTC. All candidates of
`next_occurrence` are on the hour, so rounding `after` down to a minute changes no
comparison. `Occurs` says independently, after `describe()`, what a cadence means.

**`Scheduler`.** A dispatcher locks the oldest due rows that are not locked
(`TickLock`, FOR UPDATE SKIP LOCKED), reads the organisation and the count
(`TickRead`), commits advanced schedules and queued scans (`TickCommit`), and then
publishes one scan after the other without a transaction (`Publish`, `RecordLoad`,
`RecordCommit` or `RecordRaises`). Commits of others wait for the row locks
(`~Locked`). Handlers create, edit, delete and run schedules; `RevokeLoad` and
`RevokeCommit` are the sweep's effect on them. A scan is here only queued or over,
published or not; `lost` is history: its publisher died or raised. `stale` is as in
`DomainClaims`, except that an edit is also stale when a scan of its schedule was queued
since it loaded the row: the code then changed `last_scan_id`, which the model leaves out,
and `seen` (how many scans there were) stands for it.

**`ScanBoard`.** The abstract view of `ScanLifecycle`: created, begun, ended once, removed
when ended. `ImplementsBoard` is its specification under the mapping `Board`: the statuses
of the rows, and as `contended` the scans for which a task or handler is about to commit a
status that is out of date (`Outdated`), or all of them once a fault has given one a second
writer (`~SingleWriter`). Only those may be overwritten, and even they never return to the
queue.

**`WindowBook`.** The abstract view of `Scheduler`: a book in which scans are entered. `Fire`
enters, in one step, scans for windows of schedules that are due and moves these schedules on
to later ones; `Edit` gives a schedule a window that none of its entries has reached, unless
two writers are in dispute about it. Dispatchers, locks, phases and handlers are gone.
`ImplementsWindowBook` maps `next_run_at` of the schedules that exist to `next`, the scans
to `book`, and `stale` to `disputed`.

**`EventStream`.** `log` is every event published, `kept` how many of the last ones the
capped history holds: PUBLISH, RPUSH and LTRIM are one transaction of Redis. The chain of
`ScanLifecycle` is reduced to what it announces; `CloseCommit`, `CloseSummary` and
`CloseEnd` are the three parts of `finalise_scan`, `CancelCommits` and
`CancelAnnounces` those of `cancel_scan`. `TaskFails` is a task that raises, in the head, a
module or the callback: nothing follows it, and unless a cancel comes the scan has no end to
announce (`Stranded`). A viewer passes through `Connect` (the snapshot),
`Subscribe`, `Replay`, `StreamOrClose` and `Forward`; `shown` is what `useScanStream`
displays. `silent` is history: an announcement of the end was lost.

**`Sessions`.** `refresh` takes its row FOR UPDATE (`RefreshLock`), judges it by the account
as it is now and, for a replay, selects the family (`RefreshJudge`), and commits one of
three answers. The others take no lock but wait for it when they update (`Unlocked`).
change_password and deactivate_user work on the account that authenticated the request
(`AccountLoad`) and write `token_version` from it. `pw` is history: the password that was
proved at the login from which a token descends.

**`TokenChain`.** The abstract view of `Sessions`: a token is issued, rotated into one that was
never signed, or revoked, each in one step. `ImplementsTokenChain` maps the state of the rows to
`state` and their family to `chain`; what the requests read, lock and select on the way is a
stutter.

**`TokenClient`.** A page is one JavaScript thread, so what it does between two awaits is one
step; between them other pages, the user and the API move. `stored` is the pair in
localStorage, named by its refresh token; `refresh` is `refreshInFlight` of each page, with
the token it presents and the answer; `call` the requests of each page. `CallJoins`,
`CallRefreshes` and `CallGivesUp` are what a 401 leads to (a refresh under way, a token to
present, none), `RefreshSettles` is the end of the promise with everybody who waits for it.
`SignIn`, `SignOut` and `Reload` are the user's. The API's side is a step of `TokenChain`
(`Exchange`, `PairEnds`, `AllRevoked`). `adrift` holds the tokens of refreshes that a reloaded
page no longer waits for; `exchanged`, `astray` and `session` are history: the tokens the API
exchanged, those that two pages presented side by side or that a reload left under way, and
what became of the session.

**`RateLimit`.** INCR with TTL is one step, EXPIRE another (`Incr`, `SetExpiry`); an error
of Redis lets the caller through (`IncrRaises`, `PeekRaises`), or leaves a key without a
TTL (`ExpiryRaises`). `assert_under` reads, `record_failure` charges after the comparison.

**`Reports`.** The row is committed before the build is queued (`CreateReport`, `DelayOk`
or `DelayRaises`). The file name has a resolution of one second, so `Paths` are seconds.
Opening the file empties it; the build is a message that is executed again when its
worker is lost. A PDF may fall back to HTML, into a file of its own (`spare`,
`FallbackOpens`) that is then renamed to the path of the report (`FallbackReplaces`);
`interrupted` is history, the reports whose build ended between the two. Removal unlinks
first and deletes the row afterwards.

**`Inventory`.** A scan is a chain of `Capture`, `Resolve` and `Persist`, `Probe`,
`WritePorts` and `ReportPorts` (two transactions), `Trace` and `Judge`, `Detect`,
`ReportExposure` and `CloseDiff`. What names, ports and services answer is chosen freely.
`Conflict` is a row that came or went since it was loaded, which makes the transaction
fail. A task that is executed again after it has published the next one gives its scan a
second chain (`Recapture` for `run_pipeline`, which captures the baseline again,
`HandOverAgain` for a module); `scanOf` is the scan of a chain, and the chains of a scan
share its baseline. `opener` is history, the chain that last wrote the port open, `said`
what the first baseline of each scan said, and `blind` the chains that may find another
baseline, or none, when they compare.

**`Correlation`.** A finding gets an id when it is inserted, so that one which is deleted
and found again is another. `Attach` is the INSERT ... ON CONFLICT; `fresh` the list of
those with `first_seen == now`. `Enrich` and `AlertSent` are the two messages, each in its
own try block. A message of the notifier carries its attempt; `unsaid` records where an
announcement was given up.

**`Triage`.** A PATCH asks for a status, notes, the text its form was opened with or a new
one. Text, credit, status and resolved_at are merged like the columns above. The
enrichment loads the row, waits for an answer, loads it again and merges. `skewed`, `raced`
and `outdated` are history, as the comments on the variables say.

## Runs

The run `components` takes about four minutes on two workers, the others about one or less.

| run | instance | checks |
| --- | --- | --- |
| `scan_faults` | 2 scans, of which the second only competes for the limit of 1; 2 handlers, 3 tasks, 1 module, 2 faults of 5 kinds | `TypeOK`, `ActiveHasDriver`, `OneTaskPerDelivery`, `SettledShowsNoStage`, `CapOvershootBounded`, `CancelHolds` |
| `scan_settles` | 1 scan, 2 handlers, 2 tasks, 1 fault of any of 7 kinds, fairness | `ImplementsBoard`, `EveryScanSettles` |
| `scan_terminal` | 1 scan, 1 handler, a failing module, fairness | violates `AlwaysReachesTerminal` |
| `scan_cancelled` | 1 scan, 1 handler, 1 task, no fault | violates `CancelledIsFinal` |
| `domain_claims` | 2 claims, 2 domains, 2 actors, cap 1, threshold 1 | `TypeOK`, `CacheMatchesClaims`, `ClaimsOvershootBounded` |
| `domain_diverges` | the same with cap 2 and no automatic revocation | violates `NeverDiverges` |
| `domain_unresolved` | 1 claim, 1 actor, threshold 2 | violates `UnresolvedNeverRevokes` |
| `scheduler` | 2 schedules, 2 dispatchers, 2 handlers, 2 moments, 2 user acts, 1 fault | `TypeOK`, `QueuedHasPublisher`, `EnabledIsHealthy`, `NextFitsCadence`, `TickRespectsCap`, `ImplementsWindowBook` |
| `scheduler_settles` | 2 hourly schedules, 1 dispatcher that takes 1 row per tick, 3 moments, 1 fault, fairness | `EveryWindowHandled` |
| `components` | each of the seven components with 2 actors and 1 or 2 faults of its own | 17 invariants and `ImplementsTokenChain`, see below |
| `stream` | 1 scan with 1 module, 1 cancel request at a time, 1 browser, a history of 2 events, replay 0 or 2, 1 trouble, fairness | `StreamTypeOK`, `NothingLostInTheGap`, `ClosedShowsTheRow`, `EveryViewerLearns` |
| `triage_resave` | 1 finding, 1 analyst, no fault | violates `ResaveKeepsCredit` |

**What they show.** *Scans:* an active scan always has a task or a handler that will
still change its status, unless it is orphaned in one of the four ways above. A scan has one
task plus one per repeated delivery. A cancelled scan stays cancelled except for writers
that had read the row before the cancel. The list of scans keeps the promises of
`ScanBoard`: a scan that nobody holds an outdated copy of is queued, runs, and ends once.
The limit of concurrent scans can be passed, but only by the handlers that were
between their check and their insert. *Domains:* the list and the claims agree as long as
no commit was stale; each handler and the sweep keep both sides. *Schedules:* they keep
the promises of `WindowBook`, so that overlapping dispatchers never fire a window twice and a
crash loses a window rather than repeating it; and a tick never passes the limit on a count that is up to date. *Streams:* nothing falls
between the history and the subscription; a stream that the server closed shows the
status of the row; and who stays connected is told the end, except of a scan that a task
left open by raising, and after an announcement that preceded the subscription and was not
replayed, or was lost.

*Components.* The seven share no variable, so `MCComponents` chooses one (`focus`) in the
initial state and moves only it: a run explores the sum of their state spaces, not the
product.
`ImplementsTokenChain`: whatever overlaps, a token is exchanged once, while it is live, for
one that was never signed; `ReuseEndsFamily`: a
replay ends the family, except for a replacement committed between the SELECT and the
UPDATE of the revocation; `UsableProvesPassword`: nothing the server accepts survives a
change of password, except a login caught between its check and its reload, and two changes
from one version; `NoRequestDeadlock`: the row locks are never waited for in a circle.
`UnexpiringIsPending`: a counter without a TTL has counted no more than the callers that
are about to set one and those that failed to, so a lock for ever takes as many errors as
the limit; `LockoutOvershootBounded`: concurrent attempts pass the limit by no more than
their number. `NoReplayWithinAPage`: the requests of a page never present a token that was
exchanged, which would cost the user the session, unless another page presented it beside
them or a reload forgot that it was under way; `SignedOutStaysOut`: nothing puts a pair back
after the user has signed out, unless a refresh was under way. `ReadyHasOwnFile`, `PendingHasBuilder` and `OrphanFilesFromRaces` are the
promises of reports in the inventory, each with its exceptions named: what is ready is a
whole file of its own unless its second is shared, it is being built again or removed, or a
repeated build left it half-written and was stranded; and files outlive their rows by an
overlap, a failed unlink, or an interrupted PDF fallback only. `ExposureReported`
and `OpenPortHasFinding`: an opened port is reported and an open one has its finding,
through lost workers, overlapping scans and assets that come and go. The exposure can be
missed where the code does miss it: when a second chain of the scan has deleted or replaced
the baseline that the first one needs. `AnnouncedOnce` and
`NoBirthUnannounced`: alerts are neither repeated nor dropped beyond the five reasons of
`Reason`. `CreditMatchesText` and `ResolvedIffClosed`: what a finding says of its text and
of its resolution is true, unless a commit was computed from what had changed.

**The condition `~stale`.** `CacheMatchesClaims`, `OncePerWindow`, `EnabledIsHealthy`,
`NextFitsCadence` and, in `WindowBook`, the guard of `Edit` hold while no UPDATE was computed from a row that had changed since it
was loaded. The condition is needed: TLC violates each of them without it. For the
list that is the finding below. For schedules: an edit loaded before a window and
committed after the window was fired, together with another edit of the same timing,
fires it again (that other edit can put the row back to exactly what the first one had
loaded, which is why a scan queued meanwhile has to count as a change); an edit that switches a schedule on while the failure record or the sweep
switches it off leaves a schedule that is on with a reason for being off; and an edit
that races with the dispatcher can leave a next_run_at of the other cadence.

**Bounds, and why they are enough.** The properties are about one scan, one claim or
list, or one schedule and the processes around it, so the second object is only needed
where objects compete (the limits, the list, the LIMIT of a tick). Two concurrent
handlers are what every race above takes; a third would repeat the role of one of the two. Three
tasks allow the original, one repeated delivery and a successor. One module is the
shortest chain that has a first and a last module; the theorems hold for any number.
Two faults let a second one hit the recovery of the first. `DomainClaims` bounds the
failure counter (`MaxFailures`), at the threshold, where the decision is. The moments
of `Scheduler` (Monday 00:30, Tuesday 01:00) are before and exactly at an
occurrence of both cadences, Tuesdays at 01:00 and daily at 01:00; those of the
second run are 00:30, 01:00 and 02:05, so an hourly schedule
is due exactly on the hour and then late. `MaxRequests` bounds what users and the sweep
do, because every such act creates state that never goes away. `ScanFaults` leaves
redelivery by timeout and broker refusals to `ScanSettles`, which has all seven kinds. Its
constraint `SecondScanBounded` does not follow the second scan beyond its creation, which
is all the limit needs. `Sessions` has room for three tokens: a login, its rotation and the
one after; the third is the replacement that a revocation can miss. `TokenClient` has two
pages with two requests each, and two tokens: one request refreshes while the other joins it
or comes late, one page holds what the other presents, and a token is followed by its
replacement or by that of a new sign-in. `RateLimit` has an
account limit of one, which the second failure passes. `Reports` has two reports and two
seconds, so they share a path or do not, and one breakdown of any kind: each exception but
one takes one. The half-written ready report takes three (lost after the commit, lost again
after opening the file, `makedirs` raises), which the theorem covers, as it does any number.
`Inventory` has two chains, of two scans or of one, and one slip (a lost worker, a repeated task, an error
of Redis). `Correlation` has two assets, two scans and two
attempts, so a finding can be inserted by either scan and a retry can be the last. The
history of `EventStream` holds two events: the last events of a scan are a summary and an
end, so a status event is already trimmed, and a replay of two can miss an `end` that later
events have pushed out.
The processes, scans, claims and domains are interchangeable and the safety runs use
that symmetry (in `Components` the same names stand for handlers, callers, desks, analysts,
pages and requests, and for chains, runs and tokens); the runs with liveness properties do not.

**Deadlock** is not checked: the system may stop when all ids are used, every fault has
happened and nobody makes a request.

**Fairness.** `ScanLifecycle` assumes weak fairness of each handler that has started
(the event loop resumes it) and of each task (workers execute what the broker holds; the
time limits end what hangs). `Scheduler` assumes it of the ticks, which beat starts every
60 seconds, and of a dispatcher's second phase. No user has to make a request, no fault
has to happen, no clock has to advance and no scan has to end. `EveryWindowHandled`
therefore needs that a schedule left out at the limit is advanced all the same.
`EveryScanSettles` says that every scan is for ever inactive or orphaned from some time on.
`EventStream` assumes weak fairness of the chain (workers execute what the broker holds),
of a cancel request once it has loaded the row, and of the coroutine of each connection:
the event loop schedules it as long as it has something to send. Nobody has to connect, to
leave or to cancel, and no trouble has to happen.

**Mutants.** Every property of every passing run is broken by a plausible mistake in the
code, stated beside the definition it changes (`Mistake:` in the modules) and listed in
`PROJECT.json`: a callback that is not linked, a retry of a raised dispatch, a missing guard,
an in-place change of the list that SQLAlchemy does not notice, a
dispatcher that does not skip locked rows, an early return before the scan is closed, a refresh
without FOR UPDATE, a refresh that replaces only one token of the pair,
an expiry set only by the first caller, an exception that is logged and not raised, a
history that is read before the subscription, and so on.

## Proofs

`tlapm` proves the following for every value of the constants that satisfies the
assumption the module names (`ConstantsOK`, or `SessionConstants`, `LimiterConstants`, `ReportConstants`,
`InventoryConstants`, `CorrelationConstants`, `TriageConstants`, `StreamConstants`), that is
for any finite number of scans, handlers, messages, claims, tokens, reports, chains,
browsers, pages or analysts, any number of modules, any limit and any budget of faults.

| theorem | statement |
| --- | --- |
| `ScanLifecycle_proofs!TypeCorrect` | `Spec => []TypeOK` |
| `ScanLifecycle_proofs!ActiveScansHaveDrivers` | `Spec => []ActiveHasDriver` |
| `ScanLifecycle_proofs!CancelledScansHold` | `Spec => CancelHolds` |
| `ScanLifecycle_proofs!ListIsScanBoard` | `Spec => ImplementsBoard`: the refinement of `ScanBoard` |
| `ScanLifecycle_proofs!TasksAreRepetitions` | `Spec => []OneTaskPerDelivery` |
| `ScanLifecycle_proofs!SettledScansShowNoStage` | `Spec => []SettledShowsNoStage` |
| `ScanLifecycle_proofs!LimitOvershootBounded` | `Spec => []CapOvershootBounded` |
| `DomainClaims_proofs!TypeCorrect` | `Spec => []TypeOK` |
| `DomainClaims_proofs!DomainsClaimedOnce` | `Spec => []OneClaimPerDomain` |
| `DomainClaims_proofs!ListMatchesClaims` | `Spec => []CacheMatchesClaims` |
| `DomainClaims_proofs!ClaimLimitOvershootBounded` | `Spec => []ClaimsOvershootBounded` |
| `Scheduler_proofs!NextOccurrenceIsNext` | for every cadence and every instant, `NextOccurrence` is a natural number and the first instant of the cadence strictly after it |
| `Scheduler_proofs!SchedulerTypes` | `Spec => []TypeOK` |
| `Scheduler_proofs!WindowFiredOnce` | `Spec => []OncePerWindow` |
| `Scheduler_proofs!SchedulerIsWindowBook` | `Spec => ImplementsWindowBook`: the refinement of `WindowBook` |
| `Scheduler_proofs!QueuedScanHasPublisher` | `Spec => []QueuedHasPublisher` |
| `Scheduler_proofs!EnabledScheduleIsHealthy` | `Spec => []EnabledIsHealthy` |
| `Scheduler_proofs!NextRunFitsCadence` | `Spec => []NextFitsCadence` |
| `Scheduler_proofs!TickKeepsWithinCap` | `Spec => TickRespectsCap` |
| `Access_proofs!RotationIsSingleUse` | `SessionsSpec => []OneLivePerFamily` |
| `Access_proofs!ReuseRevokes` | `SessionsSpec => []ReuseEndsFamily` |
| `Access_proofs!TokensProvePassword` | `SessionsSpec => []UsableProvesPassword` |
| `Access_proofs!RequestsDoNotDeadlock` | `SessionsSpec => []SomebodyDoesNotWait`: of the requests in progress one does not wait for a row lock |
| `Access_proofs!RotationIsTokenChain` | `SessionsSpec => ImplementsTokenChain`: the refinement of `TokenChain` |
| `Access_proofs!ChainKeepsOneLive` | `ChainSpec => []OneLivePerChain`: of a chain one token can be used |
| `Access_proofs!RefreshIsNotReplayed` | `ClientSpec => []NoReplayWithinAPage` |
| `Access_proofs!SignedOutUsersStayOut` | `ClientSpec => []SignedOutStaysOut` |
| `Access_proofs!BrowserUsesTokenChain` | `ClientSpec => ChainSpec`: the browser and its API move the tokens as `TokenChain` does |
| `Access_proofs!CountersExpire` | `LimiterSpec => []UnexpiringIsPending` |
| `Access_proofs!OvershootIsBounded` | `LimiterSpec => []LockoutOvershootBounded` |
| `Reports_proofs!ReportsTypeCorrect` | `ReportsSpec => []ReportsTypeOK` |
| `Reports_proofs!PendingIsNotForgotten` | `ReportsSpec => []PendingHasBuilder` |
| `Reports_proofs!DownloadsAreWhole` | `ReportsSpec => []ReadyHasOwnFile` |
| `Reports_proofs!OrphansComeFromRaces` | `ReportsSpec => []OrphanFilesFromRaces` |
| `Findings_proofs!NewExposureIsReported` | `InventorySpec => []ExposureReported` |
| `Findings_proofs!OpenPortIsFound` | `InventorySpec => []OpenPortHasFinding` |
| `Findings_proofs!PagedOnce` | `CorrelationSpec => []AnnouncedOnce` |
| `Findings_proofs!NonePassedOver` | `CorrelationSpec => []NoBirthUnannounced` |
| `Findings_proofs!ResolutionIsRight` | `TriageSpec => []ResolvedIffClosed` |
| `Findings_proofs!CreditIsRight` | `TriageSpec => []CreditMatchesText` |
| `EventStream_proofs!StreamTypesHold` | `StreamSpec => []StreamTypeOK` |
| `EventStream_proofs!NothingIsSkipped` | `StreamSpec => []NothingLostInTheGap` |
| `EventStream_proofs!ClosedStreamsAgree` | `StreamSpec => []ClosedShowsTheRow` |
| `EventStream_proofs!NobodyWaitsInVain` | `StreamSpec => []NobodyWaitsForNothing` |
| `Components_proofs!EachIsItself` | `ComponentsSpec` implies the specifications of the seven components |
| `Components_proofs!ComponentsTyped` | `ComponentsSpec => []ComponentsTypeOK` |

*Scans.* `IInv` is `TypeOK`, `SnapshotsOK` and `ActiveHasDriver`. `ActiveHasDriver` alone
is not inductive: a callback that is about to commit drives its scan only if its UPDATE
will contain the status column, so `SnapshotsOK` records what tasks and handlers can hold
at each place. A step that takes the last driver away is then either a commit that ends
the scan, a hand-over to the next driver, or one of the four that make it an orphan.
`CancelHolds` is an action property: from `IInv` each action that writes a status is
examined, and the only ones that can replace CANCELLED are the stale writers the
property names.

The other four theorems each have an invariant that contains it. *The board*: `BoardInv`
adds `OneWriter`. While no fault has made a second writer, a scan has at most one task, a
handler that has inserted and not dispatched excludes any, and no task in hand has loaded
a row that had ended. So a commit that ends a scan, begins one, or leaves
it as it is maps to a step of `ScanBoard`, and any other commit was made from a row that
had changed, which makes its scan contended. *Deliveries*: what a task or handler holds was
inserted, and by the board's promise never becomes an unused id again (`HeldIsBorn`), so a
scan is dispatched once (`DispatchedOnce`). *Stages*: a callback about to settle a scan has
in its snapshot the stage of the row, so its UPDATE empties the column (`StagesOK`). *The
limit*: completed_at, once set, is never cleared (`ClosedOK`), so no step but an INSERT adds
to the scans that are active and were never closed, and each INSERT is paid for by a
handler that leaves "counted".

*Domains.* `IInv` is `TypeOK`, `OneClaimPerDomain`, `SnapshotsOK` and `CacheMatchesClaims`.
The list only agrees with the claims because no two claims hold a domain (removing one
would otherwise withdraw what the other proved), so the two are proved together;
`SnapshotsOK` says that a claim in hand names the domain of the row it was loaded from,
which no UPDATE changes. Each commit that was not stale then changes both sides alike.
`ClaimsOvershootBounded` is inductive with that: every INSERT is paid for by a handler.

*Calendar.* A division lemma each for hours, days and weeks reduces the three cadences to
linear arithmetic; there is at most one candidate per day or week, and `<=` decides
between it and the next.

*Schedules.* `OncePerWindow` says nothing of the windows still to come, so `WindowsOK` adds
that a window that was fired lies before next_run_at. Three writers could break that. A
tick: the row it locked is due, belongs to it alone and is changed by nobody until it
commits (`BatchesOK`), so it fires the old next_run_at, which has arrived, and leaves a
later one (`NextOccurrenceIsNext`). An edit: its new next_run_at is after every window
fired before it loaded the row (`EditsOK`), and unless it was stale none was fired since.
The failure record and the sweep do not write the column. `RowsOK` (the row fits its
cadence and is healthy) follows the same three writers, and `PublishingOK` knows that a
scan whose dispatch was accepted has been published, so recording the answer may drop it.
`RowStep` lists what can become of a row and `ScanStep` what can become of the scans; the
conjuncts are proved from these. `TickRespectsCap` then counts: the scans added are at
most `Room`, which was computed from a count that was not too low.

*The book.* `SchedulerIsWindowBook` uses the same invariant. The commit of a tick fires its
batch: the rows it locked are still due, since no one else could change them, and
`NextOccurrenceIsNext` makes each move on. The commits of an edit, a deletion, a creation and a
run-now map to the actions of those names; that an edit which is not stale gives a window that
no entry has reached is `EditsOK` again. Everything else, the publishing and its records
included, moves nothing of the book, or only the clock or `disputed`.

*Sessions.* One invariant serves the three theorems. `LocksOK`: a row is locked by one
handler, and the row of a refresh that is about to rotate is live, because nobody else
can revoke it meanwhile. `RevocationsOK`: a revocation has selected every live row of the
family or was overtaken. `VersionsOK`: a token of the present version was signed for the
present password. That requests do not wait in a circle rests on an order: the live row of a
family is its newest (`NewestLives`), so a refresh that revokes a family waits only for rows
newer than the one it has locked (`WaitsForNewer`), and the refresh that has locked the newest
row of all waits for nobody. On the instance that TLC checks, not waiting in this sense and
`ENABLED` of the handler's next step agree in every state.

*Token chain.* The invariant of `Sessions` serves here as well. A rotation commits what a
refresh judged: the row it has locked is live still (`LocksOK`) and the new id is unborn, so
the commit is `Rotate`. Every other commit is an insert by a login (`Issue`), or sets
`revoked_at` on rows that exist, some of which may have been revoked since they were selected:
`Revoke` of all of them. A row keeps its family, so `chain` changes only with an insert.

*Token client.* `NoReplayWithinAPage` is not inductive: whether the token a page is about to
present was exchanged depends on how it came to be stored. `ClientInv` follows the answer of a
refresh: until it is stored it is known to the one page that waits for it (`AnswersOK`), so what
is stored was presented by nobody, or by a page that is having it replaced, or it is astray
(`AstrayOK`). `OutOK` strengthens `SignedOutStaysOut`: after a sign-out that no refresh
overlapped there is none to store a pair. `BrowserUsesTokenChain` then needs only that what
the browser holds was signed (`SignedOK`). With `RotationIsTokenChain` the two meet: what the
pages rely on in their server is what the handlers of `routes/auth.py` provide.

*Rate limiter.* Both properties are inductive with the types; each step is arithmetic. A
caller that checked adds at most one charge, and leaves the set of those between check and
charge with it. The caller that counts first, or finds no TTL, joins those about to set one.

*Reports.* `PendingHasBuilder` is inductive with the types: the step that ends a handler or
a build settles the row, hands it on, or leaves it stranded. The files have an invariant of
their own, `FilesInv`: a file has bytes only of reports of its path (`BytesOfPath`), a build
that has closed its file left it whole (`WrittenIsWhole`), a row goes away after its file
(`RemovedIsWithdrawn`), and every file on the disk is that of a report whose removal has not
begun, or of one of the races (`FilesAreClaimed`). The bytes of an .html are those
of a fallback that is under way or was interrupted (`SparesAreClaimed`). The attempt to prove `ReadyHasOwnFile`
without its last exception failed for a good reason: a build that made its report ready and
lost its worker before the acknowledgement is executed again and empties the file; lost once
more and failing in `makedirs` then, nobody writes it again. TLC shows it with three
breakdowns. The statement names the case.

*Inventory.* What the property says of the chain that opened the port, `InventoryInv` says of
every chain at every place in its pipeline: it has come to the scanner (`PastEnumeration`),
its scan keeps the baseline that was captured first (`BaselineKept`), and it finds the port as it saw it if it
is executed again (`ProbedOpen`); so the comparison and the finding that are still to come
(`Reported`, `Found`) will be made, by that chain and not by another.

*Streams.* `Holds(st)` says that a final status is that of the row, unless a final status
was overwritten. It is stable, since whoever overwrites one sets `rewritten`; so all who can
still announce an end (the callback, the cancel request, the log, a snapshot) announce
what a closed stream may show. What was delivered has no gap before the next event
(`Gapless`), which is what a replay that overlaps its subscription must not lose. For
`NobodyWaitsForNothing`: when nobody is left to announce an end, it is in the log, was lost,
or the scan was left open by a task that raised (`EndComes`), and a connection has told every end among what it has seen, and
has seen all that was published since it subscribed (`Told`).

*Correlation.* `OneHolder`: the id of a finding is in one hand, that of a scan or of a
message; `HoldersOK`: what is held was not announced yet, but for counted repetitions.

*Triage.* The excuses of both properties are histories of one row, so the invariant has to
know that a form is never taken for one of a later row (`IdsUsed`) and that a form older
than its text was noted when it was loaded (`OldFormsNoted`).

*Components.* A step of `ComponentsNext` is a step of one module and a stutter of the six
others, so what is proved of each holds of the specification that TLC runs.

Every safety invariant and action property of the passing runs is proved, but for one form:
`NoRequestDeadlock` says `ENABLED`, which is beyond the prover, and is proved as
`RequestsDoNotDeadlock` on the guards. Only model-checked are the liveness properties,
`EveryScanSettles`, `EveryWindowHandled` and `EveryViewerLearns` (fairness is beyond the
prover); `ActiveScansHaveDrivers` and `NobodyWaitsInVain` are the safety halves of two.
Four properties are proved and in no run: the refinements say more than `OneLivePerFamily` and
`OncePerWindow`, `EveryViewerLearns` more than `NobodyWaitsForNothing`, and `OneClaimPerDomain` is
a conjunct of the invariant behind `CacheMatchesClaims`.
The proofs use no RECURSIVE operator and no induction over data.

## Findings

1. `fail_scan` is linked to the chain but declared with `bind=True`. Celery 5.4.0
   (`requirements.txt`) calls a bound error callback with the id of the failed task alone, so
   it raises before it is entered, and a module that fails leaves the scan RUNNING; the
   docstrings promise `(request, exc, traceback)` and a terminal state (`scan_terminal`).
   `run_pipeline`, which goes on after its RUNNING commit to read the baseline and to publish
   the chain, has no error callback at all: with `MayHappen = {"pipeline"}` the run ends alike.
2. `finalise_scan` and `run_pipeline` test for CANCELLED on a row they load without a lock;
   the comment says "do not overwrite", and a cancel in between is overwritten
   (`scan_cancelled`).
3. A claim and the list of verified domains "must not diverge", but they are written from
   copies loaded without a lock. Two requests load one claim as pending; one verifies it and
   grants the domain, the other, a verification whose check fails or a removal, commits
   afterwards: the claim is FAILED or gone, and its domain stays in the list
   (`domain_diverges`).
4. The sweep counts an unresolved check before it recognises it, so it does accumulate
   toward revocation, contrary to the comment below the line (`domain_unresolved`).
5. A triage form saved with the text it was opened with writes that text back and credits
   it to the analyst if the enrichment has replaced it since, although "re-saving the
   triage form without touching the text is not recorded as a rewrite" (`triage_resave`).

Seen on the way, without a run of their own: the scheduled dispatcher raises, and drops
the rest of its batch, when a schedule is deleted at the wrong moment (`RecordRaises`),
although it means to return counters rather than raise; `run_schedule_now` strands a
scan when its schedule is deleted between commit and refresh (`RunRefreshRaises`);
a logout racing a rotation leaves the replacement live, and a login that verified before a
change of password gets a session under the new token_version (`late`); the account
counter without a TTL is not repaired by `assert_under`; two reports of one second and
format share a file, `makedirs` outside the try block leaves a report pending
(`MakeDirsRaises`), after an ambiguous answer of the broker a report may be failed
while it is built, a build executed again after its commit empties the file of a report
that is ready, and the .html of a PDF that falls back stays on the disk when its rename is
not reached (`interrupted`); a repeated `run_pipeline` publishes a second chain of its scan,
and the chain that compares after the other has deleted the baseline reports no exposure
(`blind`); of two requests that change different domains the list keeps one change; an error of NVD is cached as an empty answer for the whole TTL; a
finding that was remediated and is found again is not reopened; the enrichment overwrites
a text an analyst wrote before it ran; `self.retry(exc=...)` raises its exception when the
retries are used up, so the branch for MaxRetriesExceededError in the notifier is never
taken; a port scanner that leaves out every host as unsafe hands on an empty list, which
the fingerprinter takes for the target; and an asset that stops resolving is not marked
inactive, because the detector compares the table with the table.

In the browser: `refreshAccessToken` returns before its `try` when no token is stored
(`lib/api.ts:181`), so `finally` never clears `refreshInFlight` (`Stuck`). This happens when a
request is answered with a 401 after a sign-out in the same page; after the next sign-in
without a reload the first 401 awaits that promise and signs the user out without asking the
API, although the comment at line 194 lets the next 401 start a fresh attempt. A refresh that
cannot reach the API, or is answered with a 5xx, clears the pair like a refused one
(`RefreshFails`), although the session check at `AuthProvider.tsx:82` means to keep it for
both. A refresh under way at a sign-out stores its pair afterwards (`raced`). Two pages that
refresh at the same time, or a reload during a refresh, present one token twice and lose the
session (`astray`).

## Limits of the model

* One organisation. Rows of different organisations never meet except in the LIMIT of a
  tick; `Scheduler` models that LIMIT with the schedules of one.
* The branch for an inactive organisation is left out: nothing in `src/backend` ever
  writes `organisations.is_active`.
* A target is modelled by the one claimed domain it lies under; overlapping claims
  (a domain and its subdomain) are not distinguished.
* Reads a handler makes one after the other without writing in between are one step.
  Timestamps, messages, logs, counters, last_run_at and last_scan_id are left out: no
  decision reads them.
* The cadence columns (cadence, hour, weekday) are one value, so two edits that mix
  columns are not told apart; both are stale, and the properties make no claim then.
* A scan deleted while its publisher is still recording is left out of `Scheduler`.
* `EventStream` has one chain: a second delivery of a task beside the first is not followed
  there, only one after the other (`WorkerDies`, `ModuleAgain`). Log lines are left out but
  for the summary, so the history is shorter than the real one by the same measure.
* `Sessions` has one account and leaves the access token out: it is checked against the
  same columns as the refresh token (`_resolve_user`), without a row.
* `TokenClient` has one browser and one account. Any request may be answered with a 401 at any
  time, since the age of the access token is left out; the answer of a login is stored in the
  step that issues it; and a sign-out's POST may arrive at any time later, like an expiry.
* `Inventory` has one host and one sensitive port, and leaves out status, risk score and
  technologies. Of a chain that has failed any module may be executed again, since the
  model does not record how far it came. `Correlation` has one product with one critical CVE;
  with two products on a host that share a CVE, `first_seen == now` holds for both.
* `Triage` has one vulnerability. The texts of analysts are one value, but a new one always
  counts as a change. A PATCH of status and text is two, since the columns do
  not meet; severity, which no other writer of the model touches, is left out.
* In `Reports` the bytes of two writers are a set, and a partial file is not told from
  another partial file.
* PostgreSQL itself does not fail; a lost connection is a crash of the process using it.
* Celery is modelled from its configuration and use, in the pinned version 5.4.0. What a
  module raised, and the log line of the failed error callback, are left out.
* A `finalise_scan` that raises is followed in `EventStream` (`TaskFails`), not in
  `ScanLifecycle`, where the database does not fail. Modules declare `max_retries` and never call `retry`.

## Not modelled

* `core/scoring.py`, `core/domains.py`, `core/passwords.py`: pure functions of numbers and
  strings, whose inputs the models choose freely where they decide anything.
* `workers/safe_http.py`, word lists, fingerprints, rendering, prompts and their parsing:
  conversions whose outcome, success or failure, is chosen freely where it matters.
* Configuration, schemas, middleware, headers, health checks: validation and wiring without
  state of their own; the settings that bound behaviour are constants of the models.
* Migrations, seed data, backup scripts: run by an operator. The constraints the
  migrations create are part of the models.
* Pages of the frontend: they show what the API returns.

## Plan

Done: the core (`ScanLifecycle`, `DomainClaims`, `Calendar`, `Scheduler`), the components
around it, the browser's side of events and tokens, the refinements of `ScanBoard`, `WindowBook`
and `TokenChain`, and the proofs above. What would come next:

1. **A promise of a report to its user**, as an abstract specification of `Reports`.
2. **Asset status** (new, active, changed, inactive) and the risk score in `Inventory`, with
   the several writers each of them has.
