# RiskRadar in TLA+

RiskRadar polls news feeds, scores every headline, aggregates a risk score per
ticker over sliding event-time windows, alerts when a window is an outlier for
its ticker, tells the ticker's subscribers, and serves a dashboard. This
directory holds its specifications: TLA+ modules translated from the code, TLC
configurations that check them on small instances, and theorems checked by TLAPS
for all instances. Paths below are relative to `src/`.

## The system

    feeds ─► ingestion ─► news.raw ─► engine ─► on_window ─► alert ─► subscribers
               │  ▲         ▲           │            │  ▲        │
               ▼  │         │           ▼            ▼  │        ▼
             Redis claims   │      enrichment      Redis baseline,  Slack,
                            │       service        cooldowns        PostgreSQL
                       simulate ◄─── web application ◄── browser

There are two deployments. Compose runs ingestion, enrichment, the web
application and one of two engines (the lite processor, or a Flink job) as
processes that share Kafka, Redis and PostgreSQL. The standalone node runs
ingestion, the lite engine, enrichment and the web application as threads of one
process around an in-process bus. Processes are restarted when they end.

| component | its state | its operations | talks to |
|---|---|---|---|
| Window assignment (`libs/core/riskcore/windows.py`) | none | `assign_windows`, `bucket` | both engines, replay |
| Stream engine (`services/processor/src/engine.py`) | buffer, timer, open windows, newest event time, watermark, counters | `offer`, `tick`, and inside them flush, assign, fire | enrichment call, sinks |
| Lite processor (`services/processor/src/main.py`) | consumer position, the `uncommitted` flag; the group's offset in Kafka | poll, offer, tick, commit, stop, restart | Kafka, the engine |
| Ingestion (`services/ingestion/src`, `riskcore/feeds.py`) | claims in Redis; a sweep in progress; the producer's buffer | sweep: fetch, filter by age, claim, clamp, send, flush | feeds, Redis, Kafka |
| Baseline (`riskcore/baseline.py`) | a sorted set of scores per ticker in Redis | `evaluate`, `record`, `record_many` (seeding) | window sink, seeding |
| Window outputs (`riskcore/stages.py`) | features, sparkline and counters in Redis | `evaluate_and_alert`, `write_features`, `enrich_batch` | baseline, alerting |
| Alerting (`riskcore/alerting.py`) | cooldown keys in Redis; a cache of subscriber lists in the process; alerts and deliveries in PostgreSQL | cooldown test, `subscribers_for`, `fan_out`, `send_to_slack`, `unverify_webhook` | PostgreSQL, Slack |
| Risk scoring (`riskcore/risk.py`) | none | mentions of an article, features of a window | engine, baseline |
| Simulation (`services/webapp/src/simulate.py`) | none | clear the simulated cooldown, publish crisis and filler articles | Redis, Kafka |
| Web requests (`services/webapp/src/app.py`) | the requests in flight | signup, login, guest demo, watchlist, Slack hook, Slack test, simulate, read-only views | store, guard, alerting |
| Account store (`services/webapp/src/store.py`, `riskcore/db.py`) | users, watchlists, alerts, deliveries | create, purge, `set_watchlist`, `set_slack_webhook` | PostgreSQL |
| Request guard (`services/webapp/src/guard.py`) | fixed-window counters in Redis; bytes received by a request | `hit`, origin and content-type tests, body cap | every request |
| Standalone node (`services/standalone/riskradar_node.py`) | a bounded bus, worker threads, seeding | start, sweep, consume, drain | all of the above in one process |
| Kafka helper (`riskcore/kafka.py`) | one producer per process | `send`, `flush`, `close` | Kafka |
| Flink job (`flink/job/news_job.py`) | checkpointed buffer and timer of the micro-batching operator; Flink's windows | buffer, timer, enrich, window, sink | Kafka, enrichment |
| Enrichment service (`services/enrichment/src`) | the loaded model | score a batch | engines |
| Entity detection, headlines, messages, settings (`riskcore/*.py`) | a capped list of headlines | pure functions, serialisation | all |
| Dashboard (`services/webapp/src/static`, `templates`, `insights.py`) | none | read and draw | web requests |
| Tools (`tools/`) | none | seed baselines, replay, calibrate, migrate | Redis, PostgreSQL |
| Deployment (`deploy/`, `docker-compose.yml`) | none | start and restart processes | all |

What is hard in it, and what makes each part correct:

- **Order and lateness.** Articles arrive out of event-time order, in batches cut
  by polls. A window must fire once, in event-time order, with exactly the
  articles that came in time, and an article that ingestion let through must not
  be late for all its windows.
- **Crashes between fetch and effect.** Offsets, claims and cooldowns survive a
  process; buffers, windows, sweeps and caches do not. No order of crash, failed
  commit and restart may skip an article the group is responsible for, publish
  one twice, or turn old news into fresh news.
- **Stale reads.** The subscriber list is cached for 30 s and read before seconds
  of Slack calls; accounts, hooks and watchlists change meanwhile. What is posted
  must go to a hook that was tested, a dead hook must stay alone, and staleness
  must be bounded by the entry's lifetime.
- **Feedback.** Every window both is judged by the baseline and enters it, five
  windows overlap at any instant, and a seeding writes into the same set. The
  decision must precede the write, and simulated windows must stay out.
- **Partial failure.** Enrichment, Redis, PostgreSQL, Slack and Kafka fail call by
  call; what was done before stays done.
- **Abuse.** Limits are counted in fixed windows by concurrent requests that also
  fail and straddle windows; they must bound what is created, and refuse nobody for
  what somebody else did.
- **Progress.** A partial batch must be flushed although no more news arrives.

`PROJECT.json` lists these as hazards, each at its line, with the properties that
cover it.

## Modules

Each specification module is translated from the code its header names.
`PROJECT.json` maps every definition to its lines.

**Windows** — `assign_windows`, `window_start_with_offset` and `bucket` as pure
operators on integers. Python's `//` and `%` floor like `\div` for the positive
divisors the code insists on.

**StreamEngine** — `StreamEngine` of `engine.py`. `buffer`, `flushIn`, `maxTs`,
`watermark`, `windows` and `stats` are `_buffer`, `_flush_at` (as time left),
`_max_ts`, `_watermark`, `_windows` and `EngineStats`. One call of `offer` is
`BufferArticle` or `FillBatch`; a call of `tick` is `Tick`. A flush is cut into
`PlaceArticle` per article, `AdvanceWatermark`, `FireWindow` per window and
`FlushDone`, so that a composition can stop the process in the middle of it. The
enrichment service returns any part of the batch; a side effect may fail, which
only a counter shows. An article is its identity, its timestamp and its tickers.

**EventTimeWindows** — the abstract specification: what an event-time window
operator promises, without batches, buffers or pops. Both engines of the
repository are meant to keep it. StreamEngine implements it (`Operator`, with the
set of on-time arrivals as the abstract state).

**LiteProcessor** — `main.py`'s loop around an instance of the engine: `Poll`,
`OfferPolled`, `TickLoop`, `Commit` (or `FlushRaises`), `Stop`, `Drain`, `Close`,
`Crash` between any two steps, `Start` under a supervisor. The topic and the
committed offset survive; the engine and the position do not.

**Ingestion** — one sweep of `pipeline.py` and `main.py` after another:
`StartSweep`, `FetchAll` (any subset of what passes the age filter, so any feed
may fail), `ClaimAndClamp` per article (SET NX EX and `clamp_published`), `Send`,
`FlushDone`; `SweepFails` is an exception at any step, `Deliver` and `GiveUp` the
producer's own thread, `Crash`, `Stop` and `Restart` the process.

**Baseline** — the baseline of one ticker: `EvaluateWindow` decides on the scores
of the trailing window (an exact percentile with the code's interpolation),
`WriteFeatures` records afterwards, `SeedCheck` and `SeedWrite` are a seeding, forced or not, that
runs at the same time, `WriteFails` a refused write or an exception.

**Alerting** — one pipeline thread in `evaluate_and_alert` and `fan_out`
(`Evaluate`, `LookupHit`, `LookupMiss`, `ReadSubscribers`, `StoreSubscribers`,
`RecordOnly`, `StartPost`, `PostSucceeds`, `PostFails`, `MarkSent`), interleaved
with the requests that change what it reads (`SetWatchlist`, `SaveHook`,
`TestHook` to `TestWrite`, `ClearCache`, `Simulate`, `PurgeGuests`), one
transaction, cache operation or Slack call at a time. `SharedCache` says whether
the requests run in the pipeline's process (standalone) or in another (compose).
`owed` is what a request has written to the database and not yet dropped from
the cache. `EndFanOut` is every way out of `evaluate_and_alert`, by its end or by an
exception; the history `lastLive` keeps of each live alert which way it was, and `goneAt` when an
account was deleted.

**Accounts** — the rate limiter and the requests behind it. `counter` holds the keys of
`guard.hit` and the two simulation slots while they last; `doing` the request of each
worker thread with the limits it has still to pass (`Plan`, in the order of the
handlers). `HitLimit` is the transaction of `hit` with its verdict, `TakeSlot` a SET NX EX,
`FailOpen` Redis failing; then `CreateAccount`, `CreateGuest` and `RememberGuest`, or
`PublishSimulation`. `ClickDemo` is the lookup of the address's guest, `Restart` the end of the
process with the purge of old guests, `RequestFails` any other exception. A counter
also carries who hit it, for the properties only. Guests simulate like accounts
and are left out of that request.

**FlinkJob** — the job of `news_job.py`. `MicroBatchEnrich` is translated: `ProcessElement`
with `ArmTimer` and `CancelTimer`, `OnTimer`, `Flush`; `buffer` and `timer` are its list and
value state, `timers` what Flink holds for it (a cancelled timer may fire all the same).
`PlaceMention` explodes an article into its tickers. The source, the sliding window operator
with its watermark (`PlaceMention`, `AdvanceWatermark`, `FireWindow`), `Checkpoint`, `Restore` and
`StartOver` are Flink's, modelled from how the job sets them up: a failure restores the last
checkpoint; one before the first checkpoint, and a submission anew (compose names no savepoint),
starts over at the end of the topic. The history `flushed` keeps what left the buffer in all
attempts, `began` where the running one begins in it, `base` the offset its submission began at. Between two restarts the
job implements EventTimeWindows (`AttemptIsWindowOperator`), so both engines of the
repository are held against one abstract specification.

**RequestGuard** — `BodySizeLimit` around `GuardMiddleware`: one request as an ASGI
conversation. `Refuse` and `CallNext` are the middleware's verdict, `Receive` counts chunks and raises
over the cap, `SendStart` and `SendBody` pass a response on or swallow it, `Return` and `Raise` end
the conversation and may answer 413. The application is external: it reads, answers,
catches and raises in any order.

**Standalone** — the node as one process: an instance of Ingestion for the sweeps, and
StreamEngine, around the bounded bus of `_publish`. The pipeline thread is `OfferFromBus`,
`BusEmpty` and `TickRound`; `SendToBus` replaces Kafka behind `kafka.send`; `LocalEnrich` restricts the
engine's flush to an enrichment that returns the whole batch; `PublishCrisis` and
`PublishFiller` are a simulation, whose filler is dated ahead of the clock. The node
starts down (it seeds baselines first) and `RestartNode` may end it anywhere. A flush is
one thread's work on its own state, so other threads step between flushes only.

**Store** — the account tables under READ COMMITTED transactions. `set_watchlist` is
`ReadList`, `DeleteStale`, `InsertFresh` and `Commit` or `Rollback`, and its statements wait for the row
locks of others; `CreateUser`, `CreateGuest` and `PurgeGuests` are single statements. The migration
is `ReadLegacy` (with `convert`), one `Copy...` per table in the order of the foreign keys,
`CopyCommits` or `CopyFails`, beside running requests and after earlier runs.

**MC...** — TLC instances: values of the constants that a configuration file
cannot write, and symmetry sets. Symmetry is used for articles of ingestion, for
accounts and hooks, and for threads, among which no operator chooses.

**...Proofs** — the theorems: EngineProofs about Windows, StreamEngine and LiteProcessor, and one
module for each of Ingestion, Baseline, FlinkJob, RequestGuard, Alerting, Accounts and Store.

In the specification modules, definitions introduced by a comment "Mutant of X"
are deliberately wrong versions of X: substituted for X they make the property
they belong to fail, which shows that the property depends on X. No specification
uses them.

## Runs

| run | checks | what it shows |
|---|---|---|
| `engine_safety` | StreamEngine, four articles with four timestamps, one ticker, one failing side effect | `FiresAtMostOnce`, `FiresInEventTimeOrder`, `NothingDueWhenIdle`, `ArticlesAccountedFor`, `LatenessTolerance`: lateness, firing and the counters, for every arrival order and every loss in enrichment |
| `engine_refinement` | StreamEngine, three articles, two tickers | `WindowsAreComplete`, `ImplementsWindowOperator`, `OfferedIsHandled`: what windows hold, refinement of EventTimeWindows with its fairness, and that no article waits for ever |
| `processor_offsets` | LiteProcessor, four articles, two exits | `ProcTypeOK`, `NoLossOnceCommitted`, `CommittedIsEnriched`, `OffsetMonotone`, `FetchedIsEnriched`: what the committed offset promises through crashes, stops and failed commits |
| `flink_job` | FlinkJob, three articles, one restart | `BufferHasTimer`, `ConsumedOnceInOrder`, `AttemptIsWindowOperator`, `ReadIsFlushed`: the checkpointed buffer never waits without a timer; an attempt flushes what it reads once and in order; a restore skips nothing and repeats nothing older than its checkpoint; each attempt is a window operator; what is read is flushed in the end |
| `ingestion_sweeps` | Ingestion, two articles, nine ticks, two faults | `HandedAtMostOnce`, `NoStaleNews`, `DisorderIsBounded`, with claims that lapse |
| `standalone` | Standalone, one article, two simulations, a bus of two, one fault | `ClaimedIsInOnePlace`, `NewsIsOnTime`, `SimulationFires`: what a full bus and a restart lose, that the clamping limits fit the engine's tolerance, and that filler makes the crisis window fire |
| `baseline_window` | Baseline, two scores | `VerdictIsPercentile`, `BaselineIsTrailingWindow` |
| `alert_watchlists` | Alerting, a subscriber and a guest, shared cache | `LiveAlertsAreSpaced`, `LongStandingAreServed`: a live alert keeps its distance from the last one unless an exception ended the fan-out of that one, and a missing account ends a fan-out only soon after it has gone; cached lists are stale within their lifetime |
| `alert_hooks` | Alerting, one subscriber, two hooks, separate cache | `OnlyTestedHooksArePosted`, `FailedHookIsLeftAlone` |
| `account_limits` | Accounts, two threads, addresses and emails, three requests | `TypeOK`, `AccountsWithinBudget`, `BudgetIsShared`, `RefusalsAreDeserved`, `SimulationsAreSpaced`, `RepeatClicksReuse`, with windows that end under requests |
| `request_guard` | RequestGuard, every request of up to three chunks against a cap of three bytes | `OneResponse`, `CapIsTransparent`, `OversizedIsAnswered`, for every order in which an application reads, answers, catches and raises |
| `store` | Store, two threads, three legacy files, two requests, two runs | `ListWasAsked`, `LandsCompletelyOrNotAtAll`: overlapping watchlist requests and a migration among them |

Type invariants of StreamEngine, Ingestion, Baseline, FlinkJob and Accounts are proved (`TypeCorrect`),
as is LiteProcessor's (`ProcTypeCorrect`); those of Alerting, RequestGuard and Store are the first
conjunct of the invariant proved (`Shape`, `Forms`), that of Standalone is `NodeTypes`. `TimerArmedIffBuffered` and
`WatermarkDiscipline` of the engine are proved and have no run.

### Bounds

- *Engine*: size 4, slide 2, delay 1 and timestamps 0, 2, 5, 7 give windows that
  overlap, an article on a boundary, one late for some of its windows, one late
  for all, and several windows due at once; four articles with batches of two
  give full and partial batches, and a late article after a pop. The refinement
  run takes three articles and three timestamps but two tickers. `MaxRaw` bounds
  the articles, `MaxStageErrors` the failing side effects.
- *Processor*: batches of two against polls of up to three put the end of a poll
  inside a batch; two exits allow a crash, a restart and another crash. Articles
  mention no ticker there: offsets do not depend on event time. `MaxRaw`,
  `MaxPoll`, `MaxExits`.
- *Ingestion*: `MaxAge` 3, `ClampAge` 1, `SeenTtl` 6 and nine ticks let a claim
  lapse within a behaviour; dates from -5 to 8 fall on both sides of each limit and
  ahead of the clock. `MaxTime`, `MaxFaults`.
- *Alerting*: lifetimes of two ticks, three ticks in all, two alerts: an entry, a
  cooldown or a delivery list can go stale within an alert and between two. Three
  requests (four for hooks: save, test, save, test). `MaxTime`, `MaxAlerts`,
  `MaxRequests`, `MaxFaults`.
- *Baseline*: `MinSamples` 2, up to three observations, percentile 75, a trail of three ticks
  out of five: interpolation between ranks, ties, a cold ticker, observations that age out
  and a seeding, forced or not, that overlaps live writes. `MaxTime`, `MaxSamples`, `MaxSeed`.
- *Flink job*: the engine's geometry with timestamps 2 and 7, batches of two against three
  articles, a clock and a timeout of one tick, and one restart: full and partial batches, a late
  timer of a batch already flushed, a checkpoint with a half-full buffer, a restore from it
  after more was flushed, and a start without any. `MaxRaw`, `MaxTime`, `MaxRestarts`.
- *Request guard*: chunks of one and two bytes and a cap of three put the cap between
  chunks and inside one; two body messages let a response be cut. `MaxChunks`, `MaxParts`.
- *Standalone*: slide 1 and margin 0 are the tightest filler; feed dates -3 and 1 at an age
  limit of 4 and a clamp of 3 are the oldest and the newest that count; `SlotTtl` 2 and two
  simulations let the second one meet the first one's filler. `MaxTime`, `MaxSims`, `MaxFaults`; `MaxSweep` bounds a
  sweep, and `MaxClaiming` its part after the fetch, which waits for Redis and for no feed.
- *Store*: two threads on the same account, one new id, an e-mail that is in a legacy
  file and one that is not; the files hold two documents with one e-mail, a guest, an undated delivery,
  and an account without a watchlist. `MaxRequests`, `MaxRuns`.
- *Accounts*: limits of one or two and windows of one to three ticks, so that three
  requests reach every ceiling and windows of different limits end at different
  moments; `MaxDelay` 1 lets a request straddle the end of a window, `GuestAge` 4 and five
  ticks let a guest's key lapse and the purge find a guest to delete. `MaxTime`,
  `MaxRequests`, `MaxFaults`.

Deadlock is not checked where a behaviour ends by its bounds, and the system by
having nothing to do: an engine with no news and no timer rests. It is checked for
ingestion, the lite processor and the standalone node.

### Fairness

- *StreamEngine*: the clock runs while a timer is armed, `tick` is called when it
  has expired (`main.py` polls for at most the batch timeout and ticks on each
  round), and a flush that began goes on (one thread, no waiting but for calls
  with timeouts). Nothing makes news arrive.
- *LiteProcessor*: the supervisor restarts the process (`restart: unless-stopped`),
  the loop keeps running, and a poll sooner or later returns what the topic
  holds (strong fairness: between two polls that return nothing the loop does
  other things). Commits may fail for ever. Stops and crashes are bounded by
  `MaxExits`, not by fairness.
- *FlinkJob*: the source reads what the topic holds, the processing clock runs, due timers
  fire and records flow through the windows: Flink's scheduling of a running job.
  Checkpoints may never complete and no news need come: `ReadIsFlushed` follows each record
  into the buffer and out of it, through restores, or until a submission begins after it; failures are bounded by `MaxRestarts`. A processing-time timer that is due
  at the end of the bounded clock counts as due, so that the bound does not stop it.
- The other specifications state safety only.

## Disagreements met while modelling

Places where a comment or docstring promises more than the code keeps. Those with a
formula name it and the configuration to add it to, where TLC then prints a behaviour.

- `NoArticleLost` (`MCLiteProcessor.cfg`): a group that has not committed starts at the end of the topic
  (`auto_offset_reset="latest"`), so a process that ends between its first poll and its
  first commit leaves articles behind for ever. `main.py`'s docstring says that no
  article is lost between fetch and enrichment. From the first commit on the
  promise holds (`NoLossOnceCommitted`).
- `ClaimedIsPublished` (`MCIngestion.cfg`): an article is claimed before it is sent; a sweep that fails in
  between leaves the claim, and later sweeps skip the article as a duplicate.
  `is_new` says "published exactly once". At most once holds (`HandedAtMostOnce`).
- `EachSubscriberIsServed` (`MCAlertingWatch.cfg`): a guest purged between the lookup and its delivery row
  makes the row's foreign key fail; the exception ends the fan-out for the
  remaining subscribers and skips the cooldown. The account was deleted during the fan-out or less than
  a cache lifetime before the alert (second part of `LiveAlertsAreSpaced`).
- `EveryLiveAlertIsSpaced` (`MCAlertingWatch.cfg`): `mark_sent` follows the fan-out, so that an exception in between
  (a refused row as above, the database, Redis, the end of the process) leaves no cooldown behind, and the next
  window over the baseline alerts again at once, with posts to those already told. Only such an exception
  does it (`LiveAlertsAreSpaced`).
- `RealNewsIsAlerted` (`MCAlertingWatch.cfg`): one simulated article makes a window simulated; real news
  over the baseline that shares the window is not alerted as real.
- `set_watchlist` says that a fresh signup does not wait for the cache's lifetime. A
  fan-out between its read and its store puts the old list back after the request
  dropped it, and in compose the request clears the cache of another process. The
  bound that does hold is `LongStandingAreServed`.
- A Slack test writes back the hook it read before posting, over a hook saved
  meanwhile.
- `unverify_webhook` clears the verification of the account, not of the hook that
  failed: an owner who replaced and tested the hook meanwhile loses it.
- `set_watchlist` says that it replaces the whole list in one transaction. Two
  requests that overlap read the same list, so that the stored one can be a mixture of both, or
  empty. What holds is `ListWasAsked`.
- The migration says that rows with dangling foreign keys are skipped and counted
  "rather than failing the whole migration". `convert` skips them within the file; an account whose
  e-mail is already taken under another id is ignored by the insert, and its watchlist and
  delivery rows then violate their foreign key and end the run. So does a delivery
  without a date (`NOT NULL`). Nothing is left half copied (`LandsCompletelyOrNotAtAll`).
- `NoRecordLost` (`MCFlinkJob.cfg`): as the lite processor before its first commit, the Flink job has nothing
  to go back to before its first checkpoint. What it read or buffered by then is passed over when it fails,
  and so is what came while it was down; a submission anew starts at the end of the topic even when a checkpoint
  is on disk. From a checkpoint on a failure skips nothing (`ConsumedOnceInOrder`). It repeats: what was
  flushed since the checkpoint is enriched, published and placed again.
- "A second run copies nothing new" holds as long as nothing was removed in between:
  purged guests and removed watchlist entries come back.
- The Flink job sets an idleness of 30 s because the window "stalls" without it. An idle
  source is left out of the minimum over sources; with the one partition of the topic there is
  no other, and the watermark stays (no step of `FlinkJob` moves it without news).

## Proofs

Every theorem holds for all values of the constants that meet the named
assumptions of its module; TLC evaluates those assumptions in each run.

**EngineProofs: window assignment.** `AssignmentIsTheGrid`: the loop of `assign_windows` returns exactly
the windows of the grid that contain the timestamp. `EarliestWindowEnd` and
`LatestWindowReach` bound where the first window ends and how far the last one
reaches; simulate.py's comment and the engine's tolerance rest on them. The
arithmetic goes through the quotient: `ts = q * slide + r` with `0 <= r < slide`.

**EngineProofs: the engine.** From `GeometryAssumption` to `BoundAssumption`:

- `TypeCorrect`.
- `OrderInv` (a fired window is past; a fired window ends no later than any open
  one; nothing is due when idle) is inductive and yields `WindowsFireAtMostOnce`,
  `WindowsFireInOrder` and `NoDueWindowIsLeft`. The first conjuncts are the
  strengthening: that a popped window never comes back needs that the watermark
  passed it and that `PlaceArticle` opens none the watermark passed.
- `BufferedHasDeadline` and `WatermarkIsDisciplined` need types only.
- `TrailInv` (the watermark is at least the delay behind the newest event time, now
  and in every judgement of the past) with `LatestWindowReach` yields
  `FreshArticlesCount`: an article at most `Size - Slide + Delay` behind the newest
  one counts. With the shipped settings that is 750 s.
- `CompleteInv` (what a window holds was on time; what was on time and not yet
  fired is held; results are complete) yields `WindowsHoldTheirNews`.
- `EngineIsWindowOperator`: every step of the engine is a step of EventTimeWindows
  or leaves its state alone. `PlaceArticle` is `Arrive`, `AdvanceWatermark` is
  `AdvanceTo`, `FireWindow` is `Emit`.

- `CountInv` (what the engine still holds has not been placed, and carries ids up to
  `raw_in`) yields `ArticlesAreAccountedFor`: the counters add up to what came in, was
  dropped, and was placed.

**IngestionProofs.** `IInv` is types, `SweepInv` (clocks of the sweep; what a sweep holds
was young when it began; a claimed article's claim lasts longer than the article
stays inside the filter) and `FlowInv` (every record handed over or waiting is
claimed and within the clamping limits, and any two relate in sweep order). It
yields `HandedOnce`, `NewsIsYoung` and `DisorderBound`. `HandedOnce` is where the
assumption `ClaimOutlivesAge` (7 days against 6 hours) is needed: without it a
lapsed claim is given out again.

**BaselineProofs.** `IInv` is types with unique uniquifiers, and `TrailInv` (recorded windows
stay until they leave the trail less `Ahead`; no simulated one is there) and `VerdictInv` (from
the decision to the write, the verdict is `ShouldAlert` of the finite set it saw). `TrailInv`
yields `TrailingWindow`, and the types that equal windows never collapse. For `VerdictIsThePercentile` the
sorted scores are reasoned about without induction, by counting: the highest score is
the one with the fewest samples at or above it (`HighestScore`), the k-th is the least one with
more than k samples at or below it (`OrderedFacts`), and they are ordered because the samples on both
sides of a score add up (`OrderedIsSorted`). `RankFacts` and `CutFacts` place the interpolated percentile
between two positions that exist, for every number of samples and every percentile from 0 to 100, and
`AlertCounts` turns the comparison into counts.

**FlinkJobProofs.** `JobInv` is types, `TopicNumbered` (an article's id is its offset),
`OperatorSound` (the buffer is short of a batch, its timer is held, it ends with the last record read),
`SnapshotSound`, which says the same of the checkpoint and that neither the buffer nor what has left it is behind it,
without which a `Restore` could not preserve the rest, and `ConsumedOnceInOrder`. It yields `PartialBatchHasTimer` and
`RecordsAreConsumedOnce`. `AttemptInv` adds what window state, arrivals, results and records in flight
have to do with each other and yields `AttemptsAreWindowOperators`.

**EngineProofs: the lite processor.** `ProcInv` is `Shape`, `Offsets` (a life of the process
starts at or before the committed offset, which is at most the position, which is within the topic), `Handed`
(what this life offered to its engine was enriched or is in the buffer)
and `CommittedIsEnriched` itself. It yields `CommitsCoverEnriched`, `NothingIsLostOnceCommitted` and
`OffsetsNeverGoBack`. The commit, which only an empty buffer allows, is where `Handed` is needed:
every article offered has then been enriched. `ProcTypeInv` adds `ProcTypeOK` and that what a poll
returned lies in the topic, and yields `ProcTypeCorrect`.

**EngineProofs: the standalone node.** A step of the node leaves its engine alone, is a step of the engine, or
starts it anew (`EngineAtNode`), so that the engine's invariants carry over. The rest is about `Line`, what the engine was
offered followed by what the bus holds: draining the bus leaves it as it is, and only `Put` and a restart change it.

- `NodeInv` is types, `NodeSweeps` (as `SweepInv` of ingestion), `Whereabouts` (a claimed article is gone, in the
  outbox or on the line, and nowhere twice) and `Links` (each entry offered is one article of the
  engine, waiting or placed, in the order of the line). It yields `ClaimedInOnePlace`.
- `Times` ties the engine to the line: the newest event time is that of an article placed earlier, and between
  flushes the watermark has caught up with it.
- `NewsFlow`: news on the line is at most `Size - Slide + Delay` behind what goes before it, fillers apart. It
  rests on `ToleranceAssumption`: clamping (10 minutes) and either the skew of a feed's clock or the
  time between a sweep's reading of the clock and its last put fit into those 750 s. With `Times` and the lemma behind
  `FreshArticlesCount` it yields `NewsReachesAWindow`.
- `CrisisFlow`: nothing before a crisis is dated beyond its first window, and its filler follows it. It rests on
  `CrisisAssumption`: the slot of a simulation (240 s) outlasts the slide, so that the filler of the one before
  does not make the next crisis late, and a feed's clock is ahead by no more than delay and margin. The engine's
  `NothingDueWhenIdle`, `ArrivalsKept` and `ResultsComplete` then yield `SimulationsFire`.

**RequestGuardProofs.** `GuardInv` is `Shape`, `Counted` (up to the cap, what was counted is what was
delivered, and what was sent went out unchanged) and `Answered` (what the server got is the cap's
refusal or the first part of what was sent from inside). It yields
`ServerGetsOneResponse`, `CapChangesNothingBelow` and `OversizedRequestsAreAnswered`, for every cap and chunking.

**AlertingProofs.** `AlertInv` is `Shape`, `Spaced` (the cooldown of live alerts is at least what the last one
set, if it was marked sent, and a live alert under way began after it), `Trusted` (wherever the fan-out may take
a hook from, the table, a cached list or the list in use, a verified one was tested and belongs to
an account that is no guest and whose hook has not failed; one row per account) and
`Fresh` (every list read, cached or in use covers who was watching before it was asked for). It yields
`PostsGoToTestedHooks`, `FailedHooksRest` and `LongStandingSubscribersAreServed`, and with `Departures`
`LiveAlertsKeepApart`: whoever is on a list, cached or in use, was there when the list was asked for, a list in use
was asked for less than its lifetime before the alert, and accounts are deleted at the time that is noted.

**AccountsProofs.** `Base` is types and `Orderly`: a request under way began at most `MaxDelay` ago
and has a rest of its plan to do, and a guest it carries was made meanwhile. On it stand five
invariants, each inductive by itself:

- `ByWhom` (a key holds only requests of the kinds it limits, and of its address) yields
  `RefusedForOwnRequests`.
- `Spaced`: every published simulation, and every one that passed its limits, took the global slot at most
  `MaxDelay` before, and until its time has passed the slot is taken (`Shut`). It yields
  `SimulationsKeepDistance`.
- `Reuse`: without faults, a guest that counts as its address's is remembered there or still carried by
  the request that made it (`Remembered`, `Carried`), and a demo that is to make another one was clicked while
  that request was under way or after the guest's lifetime (`Apart`). It yields `ClicksReuseGuests`.
- `BudgetsHold`: what was created, and what is admitted and not yet created (`Total`), is covered by a number of
  site-wide windows that are over, how far the open one is used (`Level`), and what failed open.
  Counting only what was created is not inductive: a window may end between the limit and the insert. It
  yields `GrowthIsBounded`.
- `Sharing`: the hits of an address on the open site-wide window, with its requests that only that window
  has still to let through (`Waiting`), are accounted for by the address's own windows since
  the first moment such a request may have begun (`Within`). It yields `AddressesShare`.

**StoreProofs.** `Forms` says what rows, transactions, histories and migrations look like. `ListInv` says for
every request under way how what it read and deleted relates to the list now and to what others asked for since
(`Sees`), and for every account what its list may hold after the transactions so far (`Outcomes`). It yields
`ListsAreAsked`. `Kinds` (guests are told by their e-mail, so that the purge takes nothing of other
accounts) and `Landing` (what a migration has copied, with what was there, is all it converted) yield
`MigrationLandsWhole`. The assumptions say that guests of legacy files are told by their e-mail too, and that
a row is its fields.

Model-checked only: liveness (`OfferedIsHandled`, `FetchedIsEnriched`, `ReadIsFlushed`, the fairness
part of `ImplementsWindowOperator`), which is out of TLAPS's reach here. Every invariant and every
action property that a run checks is also a theorem.

## Not modelled, and why

- The scoring formula, entity detection, sentiment: pure functions over text
  and floats. The models take any score and any set of tickers.
- Parsing, serialisation, templates, styles, the dashboard's polling: formatting
  and reading.
- Feature keys, sparklines, headlines, lifetime counters: written in one call and
  not read back by the pipeline.
- Sessions and password hashing: library calls without state of this program.
- Calibration, and fetching the corpus: offline or I/O.
- A topic with duplicates or reorderings, as a producer that retries without idempotence can
  make them: nothing in the code bounds them, so that a property of such a topic would be one of
  the broker. The engines count a duplicate as another article, and what is
  checked of them holds for it.
- Windows that fire a second time after a restart, with other contents: the engine's windows are in memory,
  and Flink restores fired windows from a checkpoint. Known, and outside `FiresAtMostOnce` and
  `AttemptIsWindowOperator`, which are about one life and one attempt.
- Flink's own operators and state backend, PostgreSQL, Redis, Kafka, Slack and the ASGI server: modelled as the
  code uses them, not from their sources.
- The enrichment service: stateless; the engines see of it which articles come back.
- `backfill_history`, the schema set-up and the health pages: written once or only read.

## Simplifications

Places where a model is coarser than the code:

- *Accounts* and *Store*: old guests are purged at a restart in `Accounts`, while the node also purges them every
  six hours (`riskradar_node.py:213`); `PurgeGuests` of Store and Alerting happens at any time. `CreateGuest` includes the
  `set_watchlist` that follows it. `SIMULATE_GLOBAL_SECONDS=0`, which disables the global slot, is not modelled: with it
  `SimulationsAreSpaced` has nothing to hold. A row deleted and inserted again while `DeleteStale` waits for
  its lock is deleted, where PostgreSQL's snapshot skips it.
- *Alerting*: `PostFails` is the un-verifying transaction, the clearing of the cache and the delivery row in one
  step. A filler ticker is any other one; the code takes the first.
- *Standalone*: taking the slot and publishing the crisis are one step, simulations come one after another, and ten
  crisis and five filler articles are one entry each.
- *LiteProcessor*: a commit that failed was not applied; that the broker applied one and the client did not learn of it
  (`main.py:154`) would only move the offset forward, as a commit does.
- *Ingestion*: an article has one date, also when several feeds carry it or its date is missing. A claim whose
  reply is lost (`pipeline.py:44`) is a claim of a sweep that fails.
- *Baseline*: one seeding at a time.

## Plan

In order. The engine came first because alerts, baselines and offsets all depend
on its windows; then what feeds it, what it feeds, what survives a crash, the
second engine, and the compositions.

Done: Windows, StreamEngine with EventTimeWindows, LiteProcessor, Ingestion,
Baseline, Alerting, Accounts, FlinkJob, RequestGuard, Standalone, Store; proofs about all of them.

Left: the window outputs and Alerting behind StreamEngine in one composition, with windows that fire twice
after a restart.
