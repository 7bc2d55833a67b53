# A verification development of the real-time feature store

The repository is a demonstration of a feature store: payment events go from
Kafka through a streaming pipeline into VoltDB, where one transaction per event
and subject key maintains rolling aggregates, and a React console shows and
controls the whole. This directory holds TLA+ modules of its core, the TLC
configurations that check them on small instances, and proofs that TLAPS checks
for all values of the constants. Paths below are relative to the repository;
Java sources are named without `src/main/java/com/novapay/poc/`.

## 1. Inventory

| Part | State | Operations | What is hard |
|---|---|---|---|
| Customer tier (`procedures/RecordTxn`, `GetRollingFeatures`, `ddl.sql`) | `TXN_RAW` (7 days), `CUSTOMER_DAILY` (90 days), `CUSTOMER_PROFILE` | one write transaction, one read, TTL eviction | the dedupe memory is the table the TTL deletes from; late, future and duplicate events; two tiers with different cutoffs |
| Merchant tier (`procedures/RecordMerchantTxn`, `GetMerchantFeatures`) | `MERCHANT_TXN_SEEN` (48 h), `MERCHANT_MINUTE` (7 days) | one write transaction, one read, TTL eviction | the dedupe memory expires before the buckets it protects |
| Ingest pipeline (`pipeline/TxnFeaturePipeline`) | none of its own; the consumer group's offset, calls in flight | `handle`: validate, emit calls, dead-letter | asynchronous unordered calls, two transactions per event, crashes, redelivery, LATEST |
| Ingest counters (`procedures/BumpCounter`) | `COUNTERS` | bump | not idempotent under redelivery |
| Load generator (`loadgen/TxnLoadGenerator`) | 500 recent transactions | produce, retry, edge cases | what a retry keeps and what it draws afresh |
| Query bench (`query/FeatureQueryBench`) | latency samples | reads | — |
| Demo control (`ui/server/control.ts`) | tracked child processes, one reset job | start, stop, status, reset in seven steps | check-await-set in `startJava`; start during a reset; a launch nobody waits for; steps that report ok after a failure |
| Console server (`ui/server/index.ts`, `policy.ts`, `volt.ts`) | unlock tokens | unlock, lock, test a connection, call, statement, produce | expiry against the browser's own belief; a call that fails after it had its effect |
| Kafka inspection (`ui/server/kafka.ts`) | a temporary consumer | lag, produce, tail | a timer against late messages; the consumer runs before it seeks |
| Telemetry store (`ui/src/data/telemetry.ts`) | samples, baseline, events, generation, timer | start, tick, page hidden and shown, reset | overlapping ticks, timer chains, polls of which a part failed, clusters that restart |
| Console data layer (`ui/src/data/hooks.ts`, `settings.tsx`, `api.ts`) | results of the last call, settings, lock and token | call, save, unlock, lock | superseded calls; an unlock answered after the page has moved on |
| SQL classification (`ui/src/lib/sqlParse.ts`, `policy.ts`) | none | cut, classify, find statements | two readers, the page and the server, must agree |
| Pages (`ui/src/pages`) | what each form and panel keeps | run, capture, play a step, poll, save | functions that await and go on after their page is left |
| Fixtures, mockups, gateway, query bench, scripts | none shared | rendering, I/O | not modelled |

Interactions: the generator and the console put messages on the topic; the
pipeline turns each into up to two procedure calls or a counter bump; the
procedures are serializable transactions on their partition; TTL eviction runs
beside them; the reads see whatever is there. The console polls the statistics
and counters, calls the reads, and drives the generator, the bench and the
reset through the console server.

What makes each part correct: the tiers must count a transaction once within
the time they promise to remember it, hold exactly the counted facts in each
bucket, and answer a window from whatever tables serve it without losing rows to
eviction; the pipeline must lose nothing it has committed and count nothing
twice; the controls must not lose track of a process; the telemetry must keep
polling, must not mix samples of two providers, and must account for the counters
it reads; the server must let through no change for a token it no longer honours;
the console must judge a text as the server judges it, and must not claim an
effect its readings do not show.

## 2. Modules

```
FeatureEvents          payloads, filters, buckets, floor
  |- CustomerTier      TXN_RAW, CUSTOMER_DAILY, CUSTOMER_PROFILE, RecordTxn, TTL, reads
  |    `- CustomerPanels  what the console's cards, strip and chart say of the tier
  |- MerchantTier      MERCHANT_TXN_SEEN, MERCHANT_MINUTE, RecordMerchantTxn, TTL, reads
  `- IngestPipeline    topic, consumer group, handle, calls in flight, COUNTERS;
                       instantiates CustomerTier and MerchantTier
DedupLedger            the abstract promise both tiers implement
DemoControl            the console server's client processes and its reset job
Telemetry              the store that polls a provider, and the shell's lights
SqlText                cutting and classifying a SQL text
  `- ConsoleServer     unlock tokens, policy, routes, what the database keeps
       |- ConsoleSession   the browser: settings, lock, requests as tasks
       |    |- SqlConsole, DecayStory, DemoControlPage, CallPages   the pages
       `- TopicTail    the tail of a topic
            `- Console (with the four page modules)   the whole, page by page
SumTheorems            lemmas about sums over finite sets
FeatureEvents_proofs, CustomerTier_proofs, MerchantTier_proofs,
IngestPipeline_proofs, DemoControl_proofs, Telemetry_proofs, Console_proofs
MCCustomerTier, MCMerchantTier, MCIngestPipeline, MCDemoControl, MCTelemetry, MCConsole
```

**FeatureEvents.** An event is reduced to what the procedures' conditions look
at: kind, type, result, amount, merchant, city. `CustomerFilters` and
`MerchantFilters` are the accumulator families (`isTxn`, `success`, `card`,
`mandate`), `Accumulated` is the read-modify-write of one bucket row, with the
attempt counted before the duplicate test and everything else after it, as in
`RecordTxn.java:128-145` and `RecordMerchantTxn.java:68-78`. An absent row and a
NULL column are `None`. A DECIMAL is a natural number of smallest units. The 38
filler columns are left out.

**CustomerTier.** A procedure is one serializable transaction, so
`RecordTxn(c, t, at, e)` is one action: it probes the raw row, inserts or updates
it, rewrites the bucket of the event's own day, and recomputes the profile with
the 24-hour sum over the raw rows *after* the insert. A retry updates
`ATTEMPT_COUNT`, `LAST_ATTEMPT_AT` and `PAYMENT_RESULT` only. `EvictRaw` and
`EvictDaily` may fire at any moment after a row's age exceeds its TTL, and need
not. `GetRollingFeatures` is a read at an instant, so `RollingCount` and
`RollingSum` are state functions of the clock. A hot SUM over no rows is NULL in
SQL and 0 here. `ledger` is a history variable: the facts the calls have counted,
which nothing evicts and no action reads. The properties compare the tables with
it.

**CustomerPanels** adds no state. It writes the answers the console shows
(`GetRollingFeatures`, `GetDailyBuckets`, `GetProfile`, `GetRecentTxns` and the
eighth of the repository's queries) as functions of the tables, and the profile
strip, the feature cards, the custom window's card, the strip of days, the bucket
chart, the list of transactions and the evidence of retries as functions of those
answers, so that `PanelsAgree` can compare them in every state of the tier, across
the change of tier, the limit of 30 buckets and buckets dated ahead. The answers
with a `LIMIT` are sets of rows, and rows that tie may come in either order; the
run limits the list and the evidence to one row, so that the limits bite.

**MerchantTier** has the same shape over the dedupe memory and the minute
buckets.

**DedupLedger** says what deduplication with a bounded memory promises: a fact of
a key is added only when every earlier fact of that key is more than `Retention`
of event time behind the clock; every other call is a stutter.

**IngestPipeline** instantiates both tiers and uses their `Record` operators as
the effect of executing a call. `Handle` is one invocation of `handle`, whose
emitted calls go into the set `inflight` and are executed in any order. The
streaming runtime and Kafka are not in the repository and are modelled from how
`TxnFeaturePipeline.define` configures them: at-least-once, an offset committed
only when the calls of every earlier record are acknowledged, `LATEST` when the
group has no offset. `Crash` may take any subset of the calls with it, which
also covers a crash in the middle of `handle`; the others are on their way to the
database and execute later. The horizon is shorter than every TTL, so eviction
does not occur there. `Produce` is whatever a producer may send: the retries are
messages with a `txn` that was sent before, in the run at another merchant too.
`Lag` is what `consumerLag` answers for this topic and group at one instant. The
reason that the Ingest Hygiene page infers of a dead letter is not modelled: its
own comment leaves the authority to the counters, and section 3 says how the two
differ.

**DemoControl** models `ui/server/control.ts`. The server is single-threaded, so
the code between two awaits is one action: `startJava` is `BeginStart` (the test),
`Spawn` and `Register` (the record of the child, after the log file is closed),
with `StartFails` at each await; `stopProc` is `BeginStop` and `EndStop` (the
`pkill`); the reset is one action per step. Each HTTP request has a place in
`handlers`, which is where it awaits. Kafka, VoltDB, the pipeline's host and the
processes are outside, so each command is modelled by what it may leave behind
and by the exit status the code looks at: a failed command may have had its
effect, and an ok one has only the effect its script's exit status depends on.
`pkill` is assumed to reach every process of its name. A launch is dispatched and
takes effect later or never. `swept`, `fresh` and `stray` are history variables.
The status request looks for the clients, then for the pipeline, then at the
reset job, with an await between. The unlock the routes ask for is in
`ConsoleServer`; the arguments of a start are left out.

**Telemetry** models the store and what the shell makes of it. A tick is a record
with a generation, the provider it asked and the answers it has had: the five
requests of a live tick are sent together, answered in any order, refused, or
never answered, and its last step compares the generation and appends a sample.
`Switch` and `SetPollInterval` begin a new generation with a timeout of its own;
`Hide` and `Show` are the page's visibility, and `Show` clears the timeout the
store knows of and sets another without a new generation; `Commit` extends the
samples or, when it finds a restart, forgets them. The cluster outside grows, restarts, forgets a procedure or goes away. `returns` and
`troubles` are history variables that say how often the page came back during a
tick and what went wrong outside.

**SqlText** is `sqlParse.ts` over symbols: a text is a sequence of words, quotes,
comment marks, semicolons and line ends. The comment stripper, the cutter and the
classifier are folds and recursive functions; what they compute is compared on
bounded texts (`JudgedAlike`), and no theorem depends on it.

**ConsoleServer** holds what the server and the database keep: unlock tokens and
whether their time is up, the address in use, the rows of the story's customer and
the events on the topic. A route that awaits nothing answers in one step between
the request's sending and its continuation. A route that awaits the database, the
broker or a process is two: before the await it looks at the token and at the text
and refuses the request or lets it through, which the task's `pass` remembers, and
after it `CarryOut` has the effect. Locks, expiries, a restart and other requests
come in between. A call to the database ends with an answer, or fails with or
without effect; one that has its effect after it was given up is left out. Three
addresses are told apart that the code takes without a look: the one of the
server's environment (`EnvUrl`, `index.ts:25`), the one of the browser's default
settings (`DefaultUrl`, `settings.tsx:10`), and the empty one (`NoUrl`), which
`PUT /api/settings/connection` answers ok without validating it or changing
anything (`index.ts:115`). `accepted` and `dead` are history variables.

**ConsoleSession** is the browser. An asynchronous function is a *task*: the
closure it captured when it was called (provider, lock, token, mount, arguments),
the request it awaits and the answer. It goes on when the answer is there, also
after its page has been left; React ignores its updates of an unmounted page and
nothing else, and settings, storage and server feel the rest. **SqlConsole**,
**DecayStory**, **DemoControlPage** and **CallPages** (Explorer, Procedures,
Runbook, and the useAsync panels) say what each page keeps and what each of its
functions does before and after an await. `DemoControlPage` has the effect of the
polling timer and its cleanup, `CallPages` the cleanup by which `useAsync` drops
an answer it no longer wants.

**TopicTail** is `tailTopic`: offsets read, consumer connected, subscribed, run,
sought partition by partition, messages delivered meanwhile, the timer.

**Console** composes them: a walk through a sequence of pages, a reload that keeps
what the browser stores and loses what it holds, and requests that are served and
answered to no one.

Definitions named `Bug...` are defective variants that no specification uses.
Each is paired in `PROJECT.json` with a property that refutes it, which shows
that the property depends on the definition beside it.

## 3. Runs

| Run | Shows |
|---|---|
| `customer_tier` | `TypeOK`; `RawRemembersLedger`: the raw table is an exact memory of the counted facts within the TTL; `DailyExact`: each bucket holds the facts of its day; `ProfileExact`: lifetime totals, 24-hour inputs at `LAST_TXN_AT` and the rounding of `avg_ticket`; `PanelsAgree`: cards, strip and chart tell one story; `ImplementsDedup` |
| `customer_reads` | `ReadsExact`: a window answers for exactly the facts behind its cutoff, eviction included; `WindowsNest`: a wider window never counts less, across the change of tier; `AttemptsCovered`; `OnlyTimeShrinksWindows` |
| `merchant_tier` | `SeenRemembersLedger`, `BucketsExact`, `MinuteExactReads`, `ImplementsDedup` for the 48-hour memory |
| `ingest_pipeline` | `CountersAreAuthoritative`: a reason is counted at most once for each rejected record and start of the pipeline, and while none has crashed no dead letter lacks its bump; `CommittedIsAccounted`, `CustomerNeverOvercounts`, `MerchantNeverOvercounts`, and the liveness property `NothingSilentlyDropped` |
| `demo_control` | `StatusSeesEveryClient`: a kind the status says is not running has none of the processes it had when it was asked; `StopCatchesLostChildren`: a stop leaves no client of its kind running, whatever starts overlapped; `ReportMatchesWorld`: the report of a reset is in order, complete, and says ok only when there are topics and the schema and data are this reset's (the topics need not be); `WipesOnlyWhenStopped`: topics and data go only when no pipeline runs, except under a launch left over from an earlier reset |
| `telemetry` | `TypeOK`; `ChainAlive`: polling never dies; `ProvidersNeverMix`; `ChainsNeedReturns`: a second chain of timers needs a return of the page during a tick; `EventsAccountForCounters`: the feed adds up to what the counters grew by; `NegativeRateMeansVanished`; `GreenIsEarned`: lights and banners say "operational" only on a fresh success |
| `console` | `TypeOK`; `ChangesWereLetThrough`: what changes rows, topic or reset was let through while its token was in force; `LiveTokensAccountedFor`: the browser knows every token the server still honours, or lost it without asking for its revocation; `LiveUrlChangesAreAccepted`: in live mode the console changes only to an address the server has accepted, or to the default or the empty one; `JudgedAlike`: page and server read a text alike; `TickIsEarned`: the story says "exactly the event" of one event; `NoStaleAnswer`; `OneChain`: one chain of status polls; `TailComplete`: a tail in time shows the newest messages once |
| `customer_success` | violated: a retry turns FAILED into SUCCESS in the raw row, not in the daily bucket (`ddl.sql:77`) |
| `customer_exact` | violated: hot windows are cut at the floored minute, not "exact to the second" (`README.md:145`) |
| `retry_merchants` | violated: the generator's retry names another merchant and is counted at both (`README.md:60`) |
| `latest_offset` | violated: a malformed record is read, its bump is lost in a crash before the group's first commit, and the pipeline resumes behind it (`README.md:48`) |
| `verify_gate` | violated: the reset's verification can be met by the log of an earlier pipeline (`ui/server/control.ts:197`) |

**Bounds.** Time is counted in ticks and the units are shrunk while their order is
kept: an event is at most a day late, the raw TTL is at least a day more than
that, the daily TTL at least a day more than the raw one (`RetentionAssumption`;
1, 7 and 90 days in the code), and the horizon passes each TTL. `customer_tier`
has days of two ticks, TTLs of two and three days, two transactions of one
customer and three calls (the tables are partitioned by customer and no
operation touches two customers): enough for count, evict, count again, with
another transaction between, and for a retry in another day than its first
attempt. `customer_reads` needs a clock that is neither at a minute nor at a day
boundary, so minutes have two ticks and days two minutes, with two calls and a
hot tier of two days. `merchant_tier` has two merchants that may see the same
transaction, and a memory shorter than the buckets' life. `ingest_pipeline` has
two records and one crash, which is enough for a retry at the same merchant or
another, a record handled twice,
the calls of two runs executing in any order, and a record that is on time when
first handled and late when redelivered. `MaxAge` bounds the age of an event when
its call executes: a call in flight is not overtaken by the clock for longer than
`MaxAge - Lateness`. TLC's deadlock check is off in these runs because the clock
and the number of calls are bounded and every run ends when both are used up.
`customer_tier` also limits the buckets an answer has to two, which a warm window
reaches and three days exceed. `demo_control` has two requests, enough for two
starts to pass the same test and for a stop between a spawn and its registration.
`MaxBegun` bounds what may overlap: two processes (for one to be lost) and a
reset, or one process and two resets (for the launch of the first to come up in
the second), or one status request beside them, where a reset counts twice.
`verify_gate` needs one reset and no client. Both check deadlock: a stop can
always be asked for.

`telemetry` has one procedure, one counter, two polls a tick may be a part of,
three samples, three events, a clock of five ticks, one late tick and two troubles.
A baseline needs one sample, a rate two, and dropping the oldest three; a restart
between two polls and one more thing going wrong is two troubles. `console` walks
through eight sequences of pages: SQL, Hygiene, Explorer, Procedures, Control and
Runbook on their own, Settings then Settings, Story then Settings, each possibly
followed by a reload. On a walk at most two tokens are issued and expire in the
order they were issued, two events are recorded, two functions await, two scripts
of the story run on the first page (one on a later one), and one thing goes wrong
(a failed call, a lost request or answer, a server restart or a reload).
Two tokens are enough for an old one and a new one, two functions for one
overtaken by another. Every text of up to four symbols out of a quote, a dash, a
semicolon and a line end is read, and longer ones with procedure calls. There are four
addresses: the environment's, the default one, the empty one, and one the server
would accept. A walk begins in either mode, and the default settings are live, as
the code's are. There are two customers, two partitions and at most three messages, of which a tail
wants one. Of the story's four steps that only read two are executed, which with
one reading a sweep make the calls of the other two. Settings are changed on the
first page of a walk when no unlock, lock or test is under way, or on any page while a
save is (`MayChange`): what is under way when they change is then a save, or a call of
the page in view. The SQL, Procedures and Runbook walks may start in a session
that was unlocked on an earlier page. Both runs leave TLC's deadlock check off:
clock, troubles, tokens and walks are bounded and a run ends when they are used
up.

**Symmetry.** `customer_tier`, `customer_reads` and `merchant_tier` permute
transactions (and merchants), `demo_control` its requests, which no definition
tells apart. Their temporal
properties are of the form `Init /\ [][Next]_v` or `[][A]_v`, not liveness, and are
symmetric. `ingest_pipeline`, which has a liveness property, `telemetry` and
`console` use no symmetry.

**Fairness.** `FairSpec` assumes weak fairness of handling the next record, of
executing a call in flight, of committing, and of restarting a process that is
down: the runtime polls every 250 ms (`TxnFeaturePipeline.java:74`), the database
client executes what it is given, and the process is run by an operator. Nothing
forces a producer, a crash or the clock. `NothingSilentlyDropped` claims only
records from the offset on where the group started, once it has a committed
offset; `latest_offset` shows what happens to the others. The controls,
the telemetry and the console are checked for safety only, without fairness: a
browser tab may be closed at any moment. That polling goes on is therefore stated
as an invariant (`ChainAlive`, `OneChain`): there is always something that will
poll.

**What the documents say.** Beyond the five claims that runs refute, modelling
met these places where a document, a comment or a text of the page and the code
differ:

- Telemetry. `ui/DESIGN.md:732` and `Settings.tsx:74` say a recursive timeout
  keeps requests from overlapping; a return of the page during a tick starts a
  second chain (`ChainsNeedReturns` says that nothing else does). `DESIGN.md:736`
  says a negative delta or a new start time clears the baseline; a procedure that
  vanished is not noticed. `DESIGN.md:890` derives entries from counter deltas; a
  failed `GetCounters` is read as zeros and makes entries of old rejections.
  `DESIGN.md:738` has another threshold of staleness than the code
  (`2 * pollMs + 1500`). The toggle "Pause when hidden" is not read. A cluster
  that is down without a last error leaves the top bar operational beside a card
  that says unreachable. `Hygiene.tsx:62` describes a ratio of deltas; the code
  divides a two-minute rate by the last sample's rate.
- Settings. `Settings.tsx:62` and `:106` activate an address "only after a
  successful test"; saving asks for none, and in mock mode an address may be saved
  that is never accepted (`LiveUrlChangesAreAccepted` is about the live mode,
  and about acceptance by policy, not about a test). Nor is any asked for the
  empty address, which a save puts in use live after an ok that validated nothing
  (`index.ts:115`), while the server goes on with the one it had; or for the
  default one, which a reset puts in use without asking the server. Unlocking on the story page
  has no confirmation (`DESIGN.md:546`). Unlocking in mock mode has no token, and
  locking in mock mode drops a live token without revoking it, which is why
  `LiveTokensAccountedFor` has `orphans`.
- Control. The reset dialog's confirmation looks neither at the lock nor at a
  reset that began meanwhile; the server refuses. A tracked child killed by a
  signal has no exit code and is reported running until it is stopped.
- Policy. A request's token is looked at before the await (`index.ts:38`, `:96`,
  `:136`), so a lock or an expiry that comes during it does not stop the change:
  locking says what the server will let through from then on, not what it will no
  longer do (`ChangesWereLetThrough` is the former). `DESIGN.md:755` calls the
  server's classification aware of several statements. The route for a statement
  cuts its text and takes one only; a call of `@AdHoc` is classified by the first
  word of its text (`policy.ts:17-21`, `sqlParse.ts:82`), so that a write behind a
  SELECT and a semicolon counts as a read there. What such a call does to the
  database is not modelled: the only texts in the walks that change rows are the
  story's, of one statement each.
- Hygiene. The reason the page infers (`Hygiene.tsx:126`) is not the one the
  pipeline counts for some payloads: `Date.parse` takes dates that `Instant.parse`
  (`TxnFeaturePipeline.java:114`) rejects, such as one without a time; a customer
  that is not a number, a transaction 0 and JSON `null` differ too; and the day of
  lateness is a literal. Nothing is checked of it.
- Explorer and Runbook. A capture under way when the customer changes puts its
  snapshot on the new customer's page. The chart highlights the newest bucket,
  "today's" by its text, also when that is not today's; `PanelsAgree` says when.
- Decay story. A step is marked done after it failed; a response may be shown
  under another step than the one that asked. `DecayStory.tsx:63` promises zero
  where the bucket of the day remains.

## 4. Proofs

`tlapm` proves the theorems below for every value of the constants that satisfies
the named assumptions. They say of the specification
that it keeps an invariant, never takes a step of some kind, or implements an
abstract specification; where an invariant is not inductive the theorem follows from
one that is, which TLC checked on the run's instance first.

**Customer tier** (`CustomerTier_proofs`, also for `CustomerPanels`, with
`FeatureEvents_proofs` for what one event does to one row).

- `TypeCorrect`: the type invariant is inductive as it stands. The work is in
  `FloorBounds` (the start of a bucket is a time of the run and a multiple of the
  unit) and `AccumulatedType` (a bucket stays a bucket).
- `RawRemembersLedgerAlways`: inductive relative to the types, because it says more
  than "a probe finds what was counted": a row carries the time of the *last* fact
  of its key, and no other fact of that key is within the TTL. The second part is
  what survives an eviction, and it needs `MaxAge <= RawTTL`, so that an insert is
  within the TTL when it happens.
- `CustomerTierDedups`: the tier implements `DedupLedger`; the invariant above is
  the argument that an insert meets `Forgotten`. An insert maps to `Count`, a tick
  to `Advance`, retries and evictions to stutters.
- `DailyIsExact`: `DailyExact` is about the buckets that exist, and it is not
  inductive: a bucket evicted too early would begin again from zero. `DailyInv`
  adds that a day without a bucket has no facts or is past the daily TTL, where no
  event can name it any more. A call counts a fact that is new to its day
  (`NewFact`, from `RawRemembersLedger`), and `AbsorbedHolds` shows that the row
  then holds count, sum, minimum, maximum and last of one fact more.
- `ReadsAreExact`: no invariant of its own. The rows a hot window finds are one to
  one with the facts behind its cutoff (`LiveRowsAreTheFacts`), and a warm window is
  the sum of its days (`WarmReadsExact`), so counts and sums agree in both tiers,
  whatever eviction has or has not removed yet.
- `WiderWindowsCountNoLess`: within a tier because the facts behind an earlier
  cutoff include those behind a later one, across the change of tier because the
  midnight a warm window starts at is no later than the minute a hot window does
  (`WarmReachesHot`, which needs `HotTierAssumption`).
- `OnlyTimeShrinks`: the action property. A step that leaves the clock alone adds
  a fact or none, so no window answers less than before.
- `AttemptsAreCovered`: the days' attempts are counted before the duplicate test, so
  they are not those of the ledger's facts; the invariant compares rows and days
  directly. `AttemptsInv` says of every span of days the daily TTL has not reached
  that it has at least the attempts of the rows of that span: a retry adds one to
  its row and one to the bucket of its own day, which may be at most a day and the
  lateness before the row's. The span that the live rows need must not have been
  evicted, which is the theorem's hypothesis `DaysOutliveRows` (7 days of rows, 1 of
  lateness and 1 for the day's floor against 90 days of buckets). It is stated with
  the theorem and not as an assumption of the module because no other result needs
  it.
- `PanelsDoAgree`: `RowsInv` adds that a customer with a row has a profile. The rest
  is about the answers in one state: the profile counts at least the rows of a list
  because it counts the ledger's facts (`ProfileIsExact`), each row has its own fact
  (`RawRemembersLedgerAlways`), a hot card and the evidence of retries look at the
  same rows, and a warm card sums the bright days of the strip. Its hypothesis
  `DayIsReadable` is that a day and a minute fit into the retention of the rows.
- `ProfileIsExact`: `ProfileKept` says of a customer without a profile that the
  ledger has no transaction of it. The 24-hour inputs of a call are the rows after
  its insert (`Inputs24h`), `AvgTicketRounds` is the rounding of the average.

**Merchant tier** (`MerchantTier_proofs`): `MerchantTypeCorrect`,
`SeenRemembersLedgerAlways`, `MerchantTierDedups`, `BucketsAreExact` and
`ReadsAreMinuteExact` with the same argument over the dedupe memory and the minute
buckets. Here the memory is shorter than the buckets' life, so that a fact may be
counted again while its bucket stands: `BucketHolds` counts it as another fact of
the ledger, and the dedupe theorem says how far apart two such facts are.

**Ingest pipeline** (`IngestPipeline_proofs`). One invariant, `PipelineInv`, carries
the theorems about the calls of a record, a second the ones about the totals:

- `QueueTypes`, `RowsInv` (where a tier finds a transaction its ledger has a fact of
  it), `PairsInv` (of the two calls of a record, one that is no longer in flight has
  left its fact) and `CommitInv` (no call of the running process is open for a
  record the committed offset has passed) give `LagIsHonest`: a committed record is
  in both tiers, or counted as rejected. `SettledInv` is the part about rejected
  records: the handled and closed ones of a reason are no more than the counter,
  which a redelivered bump overstates and nothing understates.
- `CountersAreAuthoritativeAlways` rests on `BumpsInv`, which bounds a counter and
  the bumps of its reason in flight from both sides: from above by the records
  rejected for it, once for each start, where the bumps of a run are for records that
  run has passed; from below by its dead letters while nothing has crashed.
- `CustomersAreNotOvercounted` and `MerchantsAreNotOvercounted` rest on a second
  invariant, `CountsInv`. Within the horizon no TTL passes, so a row that was stored
  is there for every later probe and each ledger has one fact per key (`LedgerOK`),
  each the key of a record of the topic. A bucket that stands holds the facts of
  its time (`RowsHold`; `CallRewritesItsBucket` says which bucket a call touches), the
  buckets of an owner add up to its facts (`BucketsAddUp`, with `CountOfParts`) as
  the life count of a profile does, and those are no more than its records on the
  topic (`OneFactEach`).

**Demo control** (`DemoControl_proofs`). `ProcessInv` (what is tracked, or about to
be, is a process of its kind; a kind that was swept has none running) gives
`StopsCatchLostChildren`. `JobInv` (the steps of the reset succeed or fail in their
order, and each step that is ok has left its effect on topics, data, offsets and the
pipeline) gives `ReportsMatchTheWorld` and the action property `WipesWhenStopped`.
`StatusInv` (a kind found absent has no process older than the request alive) gives
`StatusSeesClients`.

**Telemetry** (`Telemetry_proofs`).

- `PollingNeverDies`: `ChainInv` adds `FlightsHaveGen`: an answer leaves the
  generation of its tick as it was. A step then keeps the chain for one of three
  reasons: it leaves a timer or a tick of the generation alone, it replaces one by
  the other, or it begins a generation together with its first tick.
- `ProvidersAreKeptApart`: `ProviderInv` says that nothing is of a later generation
  than the one in use and that a tick of it asks the provider in use.
- `ChainsAreCounted`: `ChainsInv` adds that `timer` is the handle of a pending
  timeout while no tick is in flight, which is why a return of the page then makes
  no second chain.
- `OperationalIsEarned`: `GreenInv` says what a successful poll leaves behind until
  the provider changes.
- `FeedsAccountForCounters`: `FeedInv` says for each counter that the entries of the
  feed add up to what it grew by from the first sample of the ring to the last
  (`Accounted`), as long as nothing was lost between polls (`sound`) and neither ring
  nor feed has dropped anything, and that feed and ring begin together. A commit adds the
  entries of one delta per counter, and the sums telescope; a ring or a feed that is
  full ends the claim, and a reset begins it anew with no samples and no entries.
- `TelemetryIsTyped`: `LimitsInv` says what the code's own limits keep bounded: ring
  and feed are cut to their lengths, a tick's start and a sample's time lie in the
  clock's past, and timeouts and ticks take an id that no pending one has.
- `NegativeRatesAreExplained`: `SpansInv` is the property in the form a step keeps
  it, about each two neighbouring samples; `SoundInv` says that samples, baseline
  and answers under way are in the order of the counters while nothing restarted.

**Console** (`Console_proofs`). Every page's specification is a conjunction of a
server, a session and one page, so a step is one of the server or one of the
browser (`StepsAreOfOne`). The server's steps are proved in `ServerNextStep`; the
browser's are sorted by what they do to token and settings (`QuietBrowser`,
`LockBrowser`, `EndLockBrowser`, `EndUnlockBrowser`, ...), so that a page's function
is looked at once. `TypesInv` is the inductive invariant: a task's request is one
its function sends (`RequestOK`) with arguments it was called with (`KeptOK`), and
its answer is one the server gave to that request (`AnswerOK`): an ok answer to an
unlock names a token that was issued, one to a lock a token that is dead, one to a
connection an accepted address or the empty one.

- `ConsoleTypes`: `TypeOK`.
- `TokensAreAccountedFor`: a token the server honours is the browser's, is in a
  task's hands, or is one it dropped without asking for its revocation.
- `ChangesFollowAnUnlock`: the action property that a step which changes the story's
  rows, puts an event on the topic or starts the reset is for a request that was let
  through while its token was in force. `PassOK` ties what a task's `pass` says to
  what it may still do: a request whose change needs the unlock is waiting after its
  look only when it was let through unlocked, and that a token honoured is in force
  (`ValidIsInForce`) is why.
- `LiveAddressesAreAccepted`: the action property that in live mode the address
  changes to an accepted one, the default one or the empty one only.
- `AnswersAreNotStale` and `PollingIsOneChain` rest on a second invariant, `WatchInv`,
  about the functions that run for the page in view and were not told to stop: a call
  of `useAsync` is about what its effect was last run for (`CallsInv`), and of a timer
  and a tick that will set one there is none before the first effect of Demo Control
  and one after it (`ChainInv`). `MostStepsAreAside` sorts the steps: all but seven
  keep what the page shows of this, and start no such function.
- `JumpsAreEarned` rests on a third, `StoryInv`. A script that began alone stays alone
  while its page is mounted: the page is busy, so no other begins, and no function of
  another page writes the story's rows (`PlacesOK`, `SoloInv`). Hence between its two
  readings the window grows by `EventAmount` for each event recorded and by nothing
  else (`GrownSince`, kept by `EventGrows`), which `JumpTasksOK` carries from the first
  answer to the second and `JumpShownOK` to what the page shows. Scripts that did not
  begin alone are in nobody's way: the property leaves them out, because an insert
  left by an earlier page may arrive between the readings.
- `TailsAreComplete` is about the topic's tail alone. `TailInv` says of a tail during
  which the topic did not grow: before the seek it has been handed nothing, because
  its consumer begins at the end; after it, it has been handed exactly the messages
  between the offsets sought and the offsets reached, each once (`Reading`), and lacks
  as many as are left to them (`LeftGoesDown`). So when it has as many as it expected,
  nothing is left and all that is due has come (`FullyRead`). What is due is what the
  property names (`OwedIsDue`: an offset is a rank among the messages of a partition),
  and what is shown does not depend on the order of arrival (`SortedAlike`: numbers
  that differ have one sorted sequence).

**SumTheorems.** Totals are folds over finite sets. That the fold's recursive
function exists, is unique and does not depend on the order its elements are taken
in is proved without an induction theorem: the sets that violate a claim have one of
smallest size (`MinimalSubset`, from the well-foundedness of the naturals), and it
does not violate it. `SumAdd`, `SumUnion`, `SumOfParts` and `CountOfParts` are what
the tiers use. `Rank` counts the elements up to one; ranks differ and there are none
missing (`RankIsOwn`, `RanksAreAll`), which is what offsets and sorting rest on.

**Assumptions used**, each named in the module that declares the constant:
`NoneAssumption`, `NoRowAssumption` and `NoBucketAssumption` (no row is the value
that stands for an absent one), `TicksAssumption`, `MerchantTicksAssumption` and
`HotTierAssumption` (units are positive, and the hot tier is a whole number of
days), `PayloadsAssumption`, `MerchantPayloadsAssumption`, `MessagesAssumption`,
`RetentionAssumption` and `MerchantRetentionAssumption` (how old an event may be
against the TTLs), `PipelineBoundsAssumption` (the horizon is short of every TTL), `TiersAssumption`
(the same units and absent values as the tiers, stated again for the composition),
`ControlBoundsAssumption`, `TelemetryAssumption`, `TailAssumption`, `PanelsAssumption`, `ServerAssumption`,
`SessionAssumption`, `SqlAssumption`, `StoryAssumption` and `StoryTextsAssumption`. TLC
evaluates all of them in the passing runs. `StoryTextsAssumption` has no parameter in
it: that the texts of the story's INSERT and DELETE are one statement each, which the
policy denies without the unlock, is a fact about two texts that follows by evaluating
the lexer and the policy. The provers cannot unfold the lexer's folds, so TLC's
evaluation stands for that.

The hypotheses `DaysOutliveRows` and `DayIsReadable` of two theorems are relations
between TTLs that hold of the code's and of the runs' constants. `TelemetryAssumption`
has finitely many procedures and counters, `TailAssumption` finitely many partitions
and at least one message asked for.

**Only model-checked.** `JudgedAlike`, which is about what recursive definitions
compute on every text: that needs an induction over the text, and the induction
theorems of the library take an operator the installed provers cannot instantiate.
The liveness property `NothingSilentlyDropped`, which rests on fairness; what it says
of safety, that a committed record is accounted for, is `LagIsHonest`. The five runs
that expect a violation refute a claim and have nothing to prove.

## 5. Plan

What is left, most important first:

1. The generator's memory of recent transactions and its pacing.
2. A snapshot entered under another customer than it was asked for
   (`Explorer.tsx:59`), which no property states yet.

## 6. Not modelled

- Pipeline and tiers: the 38 filler accumulators, the 42 event fields no procedure
  reads, COUNT_DISTINCT, and MIN and MAX of reads. Overflow of 64-bit counts and
  microseconds is beyond any run of this system.
- Generator: pacing and its memory of 500 transactions. The query bench keeps
  nothing another part sees.
- Server: what a connection test finds and the bootstrap address in it; routes
  that only read (explain, statistics, catalog, health, lag over time, logs,
  files); sizes, headers and timeouts of HTTP; the moments between the two reads of
  `consumerLag`, both of which only grow; the parsing of repository files, DDL
  and snippets. A call, or events, that take effect after the server gave up waiting
  for them. Arguments of a start and their clamping.
- Pages: rendering, colours, CSV and highlighting; pages that only render; the
  reason Ingest Hygiene infers of a dead letter; the
  story's display of sweeps, responses and done marks and its own panels; typed
  confirmation texts (the confirmation is a step); whether Start or Stop is
  offered (both are always possible); the Settings draft, which is an input of
  Save; the runbook's pre-flight checks and done marks. Its
  proof of a shrinking window finds activity or not, as it likes.
- The fixtures' data, the static mockups, the JSON gateway, the scripts.
