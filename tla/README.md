# Formal model of qiniu_exporter

TLA+ modules, TLC configurations and TLAPS proofs for the Prometheus exporter in
this repository. Comments at the head of each module say what it takes from the Go
code; `PROJECT.json` maps every definition to the lines it models and lists the
hazards of the code with the properties that watch them.

## The system

The exporter is one process. A scheduler runs each collection job in a goroutine
of its own; jobs call Qiniu's APIs through an authenticated, rate-limited client,
turn answers into immutable snapshots and store them; a scrape of `/metrics`
loads the snapshots and never calls out. Discovery jobs list the resources
(CDN domains, Kodo buckets) and everything else follows what they last listed.

| Component | State it keeps | Operations | What makes it correct |
|---|---|---|---|
| `internal/snapshot` | one value, or one per resource with an active set | Publish, Retain, Clear, Load | late values of departed resources are dropped; nothing stale is loaded |
| `internal/telemetry` | per collector: configured resources, healthy ones, last-success and data times; exported label sets | ReplaceResources, ObserveResourceBatchJob, SetResourceDataTimestamp, ObserveJob, InitCollector | aggregates never overstate; maps and label sets agree; departed resources leave nothing |
| `internal/app` CDN | catalog, negative cache, month bandwidth cache, `usageScopeMu` | reconcile, monitoring + usage, analytics, top IPs | whole-account aggregates cover exactly the current resource set; copies of the set agree between discoveries; totals add up |
| `internal/app` Kodo | catalog | reconcile, capacity, activity, summary | as CDN without aggregates; month boundaries |
| `internal/app` billing | finalized history, estimate cache | balance, estimates, finalized, resource packs | no gaps shown as totals; nothing fetched twice; daily schedule around 08:15 |
| `internal/limiter` | pacing clock, cooldown, recovery, semaphore | Acquire, OnRateLimited | spacing, cooldown and gradual recovery hold under concurrency and cancellation; no leak |
| `internal/authhttp` | per call: attempt, limiters held | Do | layered budgets, bounded retries, slots released on every path |
| `internal/poller` | a timer per job | Run, Wait | serial rounds, overlap skipped, jitter within bounds, clean stop |
| `internal/collector` | none (reads the stores) | Collect | one scrape is consistent |
| `internal/qiniu/*` | none | paging, selection of safe buckets, aggregation | bounded paging, equal buckets, no invented zero |
| `internal/config` | none | Validate, admission | admitted inventories fit the call budget; stale_after fits the intervals |
| `cmd/qiniu-exporter` | life cycle | run | shutdown cuts nothing off and ends |

Interactions: scheduler → job → client → limiters; job → stores, catalog,
negative cache, metrics; scheduler → metrics after each round; scrape → stores.
Shared state is protected store by store (an atomic pointer, an RWMutex or
`resourceMu` each); only the aggregates share a lock with discovery,
`usageScopeMu`. So what is hard here is between two such steps: a discovery
that applies its listing while rounds of the previous set are in flight, a scrape
in the middle, callers asleep in a limiter when an answer slows it down, a round
that begins before midnight and publishes after it.

## Modules

State and actions carry the names of the code where they can; a step of a
module is what a goroutine does between two points where another one can see or
change what they share. Upstream answers are arbitrary unless a module says
otherwise.

**Stores and health**

- `Snapshots` has the two stores of `internal/snapshot` as operators on their
  contents (`Publish`, `Retain`, `Clear`, `Load`, `Stale`).
- `Telemetry` has the health of one resource collector as operators on a record,
  one per Go method. `updateResourceAggregatesLocked` ranges over a Go map and
  returns at the first unhealthy resource, so they return *sets* of outcomes where
  the order matters. `ResourceHealth` is the machine around one record and a
  clock: discoveries (`Replace`), ends of rounds with a resource set that may be out
  of date (`Observe`), data times during a round (`Stamp`).

**CDN**

- `UsageScope` is the abstract specification of a whole-account aggregate: what
  is shown was collected over the current resource set, which changes only while
  nothing is shown. No jobs, no lock.
- `CDNRefresh` has the jobs `RegisterCDN` schedules. `discovery.pc` names the place
  between two statements of `reconcile` at which others can run; `rounds[j]` is
  the goroutine of job j with its snapshot of the catalog; `scrape` is one
  `CDNCollector.Collect`. To compare the scope and publish under `usageScopeMu`
  is one step; discovery holds the lock over several, as scrapes do not take it.
  `UsageImplementsScope` and `TopIPsImplementsScope` are its refinements.
- What a round does between its first request and its snapshot is in modules of
  its own, each with the data that `CDNRefresh` abstracts to one value:
  `MonitoringIsolation` (a rejected batch is halved, a pass has 16 attempts, the
  negative cache), `MonthBandwidthCache` (three-day windows, the key of the cache,
  partial backfills), `CDNUsage` (the totals of the hour, the day and the month from
  answers that lag behind one another), `CDNAnalytics` with `SafeBucket` (one bucket
  of three endpoints; idle domains), `TopIPs` (the merge of the batches' rankings).

**Kodo**

- `KodoRefresh` is the counterpart of `CDNRefresh` with one store for three jobs
  and no lock; `KodoCollect` a round of one bucket over midnights and ends of months,
  up to what the collector shows of it.
- `Discovery` pages through `ListDomains` and `ListBuckets` while the account changes,
  from a server that answers truly or does not.

**Billing**

- `BillingHistory` has the finalized bills and the rolling year (nothing is persisted: a new process begins empty);
  `BillingEstimates` the estimate and the daily increments; `ResourcePacks` the paging
  of packs by number.

**Calls, time and life cycle**

- `Limiter` is one rate limiter as operators on a record of the time left until its
  deadlines (all the code compares). Levels stand for `currentQPS`: halving and
  doubling are exact, so the rate is the base over a power of two up to 16.
  `RateLimit` has its callers: semaphore, the sleep-and-ask-again loop,
  cancellation at both places, answers that slow it down.
- `AuthClient` is `Client.Do` for the calls of several clients over a stack of shared
  limiters: first and retry budgets, host, endpoint; backoff; releases.
- `Scheduler` is `runJob`: phases, jitter, overlaps, daily marks, deadlines, stop.
  `Freshness` EXTENDS it with the snapshot that a job keeps fresh and its expiry
  (`Snapshots!Load`), against the bound of `config.Validate`.
- `Process` is `run` from the start of the server to the exit code, with the jobs
  in flight.

`MC*` modules instantiate these for TLC. Operators whose name begins with `Mut` are
wrong variants of the operator that follows them; no module uses them. They are
substituted one at a time to see that a property notices the bug. Proof
modules end in `Proofs`.

## Runs

Components that share no state are checked in one run: each behaviour moves one of
them (`focus`), which costs the sum of their states and not the product.

| Run | Instance | What it asks |
|---|---|---|
| `resource_health` | 2 resources, clock to 3 | `SuccessIsConjunction`, `FreshnessNotOverstated`, `SeriesMirrorMaps`, `LastSuccessNeverRegresses`: aggregates are those of the current resources whatever order discoveries, late rounds and data times come in |
| `cdn_refresh` | 2 domains, batches of 1: monitoring, analytics, or top IPs with scrapes; 1 domain: monitoring with analytics, either with scrapes | `SettledCopiesAgree`: between discoveries the copies of the set agree and healthy domains have values; `CompleteCoversScope`; `QuietScrapeAgrees`: a scrape no discovery overlaps sees one set; `UsageImplementsScope`, `TopIPsImplementsScope` |
| `cdn_rounds` | 1 domain, monitoring and top IPs, fairness | `DepartedLeaves`: what a discovery removed leaves everything that is exported |
| `kodo` | 1 job over 2 buckets, 3 jobs over 1; 2 months of 2 days; listings of 3 names in pages of 1 | `SettledCopiesAgree`, `TimesDescribeSamples` (data time and sample are of one round), `OneSafeBucket`, `TotalsAreOfThisMonth` (what a scrape shows of a month), `ListingsAreWhole` (an accepted listing misses nothing that stayed, and paging ends) |
| `cdn_data` | batches of 1 to 50 domains; months of 6 and 3 days; 3 points in any order; 4 addresses in 5 spellings | `EveryDomainAnswered`, `OnlyRejectedAreCached`, `BudgetMakesProgress` (isolation); `MonthHasNoGaps`, `PublishesItsScope` (month cache); `OneSafeBucket` (analytics); `PeriodsAddUp` (totals); `TopIsOfTheSums` |
| `billing` | 12-month window over 2½ months, 1 new process; months of 3 days; 4 packs, fairness | `HistoryIsWhole`, `FetchedOnce`, `HistoryCompletes`; `DailyAddsUp`; `SeriesAreUnique` |
| `limits` | 3 callers and 2 slots of one limiter; 2 calls over 4 limiters with a retry, fairness | `TokensArePaced`, `CooldownHonoured`, `RecoversOnTime` (a slowed limiter gets back to its rate a step at a time, and every step is taken when it is due); `LastLimitPacesRequests`, `SingleSlotPausesAtOnce`, `EveryCallReturns` |
| `scheduling` | a long-round job, a job with a snapshot, two daily jobs; a process with 2 jobs and 2 scrapes, fairness | `DeadlineKeepsTurns`, `OncePerMark`, `EveryDayServed`; `NoGapWithRoom`; `CleanExit`, `ProcessEnds` |
| `resource_health_oldest` | as `resource_health` | *violation* of `LastSuccessIsOldest` |
| `cdn_scrape_mixes` | 2 domains, top IPs and a scrape | *violation* of `ScrapeUsesOneResourceSet` |
| `cdn_data_timestamp` | 2 domains, monitoring | *violation* of `DataTimestampHasSnapshot` |
| `month_bandwidth_exact` | 2 domains, days of 3 buckets | *violation* of `MonthIsExact` |

### Bounds, and why they are enough

- Two resources are the least with which an aggregate differs from a member, a batch
  can partly fail, and a set can change while one member stays; one suffices for a
  member that comes and goes. `BatchSize` is 50 in the code; 1 gives two batches,
  between which the negative cache and the catalog can change. All jobs over two
  domains at once are beyond TLC: `MCCDNRefresh!Instances` takes them in pairs. The
  proofs have no such bound.
- `MaxOverlap = 1` (CDN and Kodo) lets one discovery run into, or be under way at the
  start of, a round. That is what the default configuration admits: discoveries are at
  least 49 minutes apart (60 less a tenth less a run of at most 5) and a round is
  cut off after 24 (four fifths of 30), if its calls respect the context. It is
  not a formality. The configuration also admits shorter discovery intervals with
  longer rounds; then a domain that is removed and listed again within one round is
  called healthy by the late report of that round while its value was dropped, until the
  next round. The part of `SettledCopiesAgree` about values (here and in
  `KodoRefresh`) rests on it; the refinements of `UsageScope`, `CompleteCoversScope`
  and `QuietScrapeAgrees` do not, as their proofs show.
- Isolation runs batches up to the size of the code (50) with its budget (16), for one
  rejected domain, all from one on, mixtures with other errors around the budget, and
  discoveries that clear the cache; with every subset of rejected domains for
  batches of 4 and of the last 6 of 12.
- Days have 2 to 6 buckets and months 2 to 6 days: enough for a round to begin, fetch and
  publish on two sides of a midnight and of a month's end, and for a backfill of two windows;
  answers are up to half a day behind (`Late`) in the totals, up to a whole one in the month cache. The
  code's arithmetic is the same for 288 buckets; the month cache is proved for any.
- Deadlines of the limiters are small numbers in the order of the real ones (interval
  below cooldown, recovery as long or shorter, so that recoveries fall between two
  tokens). `RetryAfters` has one longer than the minimum, and -1 for a header that
  overflows. History variables stop counting at the limit they are compared with.
- The scheduler's instance has an interval of 10, so that a tenth is a unit; `fixed`
  has rounds that outlast the interval and its jitter, `job` keeps the deadline of 4/5. A day
  has 5 units with two jobs, one of which opens at its mark and one before.

### Fairness, and why the code justifies it

- `CDNRefresh!Fairness`: a discovery or a round that has begun goes on (requests
  have timeouts, jobs deadlines), never that one begins or succeeds; a
  goroutine waiting for `usageScopeMu` gets it if it is free again and again
  (`sync.Mutex` hands over to a starved waiter: strong fairness).
- `MCLimits`: time passes, a call that can go on does (goroutines run, requests
  time out), and a limiter's semaphore is a channel whose blocked senders are served in turn
  (strong fairness of `Enter`). No request has to succeed.
- `Process`: the main goroutine goes on, rounds end, and a `select` with the context
  done takes that case at some point, since Go chooses at random among ready cases.
  Whether requests under way end is not assumed; the shutdown has a timeout.
- `BillingHistory`: time passes and the job runs. `HistoryCompletes` also needs that the
  upstream answers for one month it did not have in every run (`lucky`), the least that
  lets a history grow, and it shows that no failure after that takes it back.
- `EveryDayServed` is a safety property: it takes goroutines on time (`punctual`) as
  a choice of the initial state and nothing else.

Deadlock is checked in every run but the two of `ResourceHealth`, whose clock ends.

## What the runs found

Four statements of the documentation that the code does not keep:

- `LastSuccessIsOldest` (`DESIGN.md:309`): while a resource fails the code keeps the
  gauge (or its absence) as it is, so it can be older, or missing when every resource
  has succeeded before. It errs on the safe side, which `FreshnessNotOverstated` and
  `LastSuccessNeverRegresses` make precise.
- `ScrapeUsesOneResourceSet` (`DESIGN.md:37`, "atomically"): a scrape between two steps of
  `reconcile` sees the new inventory with the old aggregates. `QuietScrapeAgrees` is
  what does hold.
- `DataTimestampHasSnapshot` (`DESIGN.md:296`): the data timestamp of `cdn/usage` is not
  deleted with the snapshot.
- `MonthIsExact` (`README.md:71`): a round within `source_lag` after midnight caches the
  last buckets of yesterday before they are final, for the rest of the month.

Seen while modelling, without a run:

- The usage and top-IP jobs report their success after they release the lock
  (`cdn.go:179`). When a discovery clears the aggregate in between, `collector_success` is
  set to 1 while nothing is shown, until the next round.
- `acquire` takes the host's token before it waits for the endpoint's
  (`authhttp/client.go:269`). Tokens of the host are paced; requests that leave the
  endpoint's queue need not be, nor do they look at the host's cooldown again
  (`DESIGN.md:343`, `:385`). `LastLimitPacesRequests` and `SingleSlotPausesAtOnce` are
  therefore about the limiter that is acquired last.
- A `Retry-After` of more seconds than `time.Duration` holds wraps around and may be negative;
  then the pause is the minimum and not longer (`client.go:342`).
- The least `stale_after` leaves out how long a round takes (`config.go:255`): with a round near
  its deadline a snapshot can expire before the next one. `NoGapWithRoom` has the room that is
  missing as its condition.
- A domain whose request counts come without points is taken for idle, and a zero inferred for
  it if the safe bucket is of the day that was asked for (`cdn.go:382`). `DESIGN.md:396` says
  "Export 0 only when upstream explicitly returns 0. Do not fabricate 0 for missing data"; the
  comment at `cdn.go:375` says that this is how Qiniu represents an idle domain, and the tests
  want it. `CDNAnalytics!Idle` models it; no property judges it, since whether the
  domain was idle or its data late cannot be told from the answer.
- "Today" of the usage snapshot stays exposed after midnight until it is stale; top IPs are not,
  as their collector compares the date.
- The estimate caches a day's snapshot before it is validated against the others; packs are paged
  by number, so that one that moves forward between two pages is missed (`SeriesAreUnique` says what
  cannot happen).
- A daily round that lasted longer than a day would skip a mark; rounds end after a minute.

## Proofs

All proofs are for every value of the constants, from the named `ASSUME`s of the modules
(positive bounds and delays, finite sets of callers) and nothing else. TLC evaluates those
assumptions in the runs.

- `ResourceHealthProofs`. The inductive invariant adds to the invariants that no recorded time
  lies in the future, since the gauge that a failing round keeps is compared with times recorded
  later. `AggregateLemma` bounds what the map order can do. From it: `SuccessCorrect`,
  `FreshnessCorrect`, `SeriesCorrect`, `LastSuccessMonotone`, `MapsCorrect`,
  `DataTimestampCorrect`, `SurvivorsRemembered`.
- `CDNRefreshProofs`. `ScopeInvariant`: discovery holds the lock exactly between its Lock and
  Unlock, what is shown has the catalog's scope, and after its clears nothing is shown until the
  catalog is replaced. The last part is why the lock matters: a round could otherwise publish
  between the clear and the replacement. The refinements map a publication to `Collected`, a
  clear to `Withdraw`, the new catalog to `Rescope`, every other step to a stutter.
  In the same module, of `CDNRefresh` store by store: `CopiesInv` says for every point of
  `reconcile` which of the copies are of the new listing already; `RoundInv` that a round loses
  no domain of its scope; `HeldInv` that a round whose scope a discovery changed reports only
  what the stores accepted, as far as the listing goes. From them `SettledCopies` (which assumes
  `MaxOverlap = 1`), `CompleteIsWhole` and `QuietScrapesAgree` (which do not).
- `CDNDataProofs`, what a CDN round makes of its answers:
  - the month cache, and what a round in flight relies on of it, is a prefix of the days of one
    month for one scope: `AlwaysAPrefix`, `NeverGaps`, `AlwaysItsScope`, `AlwaysResumes`;
  - isolation: the parts still due, the usage batches and the failed domains make up the batch
    and follow one another in order (`DomainsAreAnswered`), for any batch up to the code's 50. That
    16 attempts are enough (`PassesMakeProgress`) needs a potential: a part of n domains with a
    rejected one costs at most 2 * depth(n) + 1 requests, and what has been asked for and
    what the parts still due may cost never exceed 13. `CachedWereRejected`;
  - `AnalyticsIsOneBucket`;
  - the totals (`TotalsAddUp`): the fold over the completed days adds up buckets that no
    two days share, the month's end is a day's end, and the data end is at most a day after
    midnight. For any lengths of hours, days and months, lag and lateness;
  - the top IPs (`ListIsOfTheSums`): the fold over the batches of a fold over the spellings of
    an address adds up what the property's one sum over all entries does, since the entries of
    different batches are apart (`TotalIsFlat`). `Before` is a strict order of the sums, so
    that as many of them are before one as its place in the list says (`RanksAreAll`). For any
    batches, spellings, answers and limit.
- `SafeBucketProofs`, the lemmas on data that several modules use. `LeastNatural` (a set of naturals has
  a least member, from well-foundedness of finite subsets) stands in for induction: a minimal
  counterexample is refuted. So `IncreasingOrder` gets from neighbours to all points, and
  `CDNSelects` and `KodoSelects` show that what is selected is the newest safe bucket.
- `KodoProofs`. The copies as in `CDNRefreshProofs`, without a lock and with one store for three
  jobs: `CopiesInvariant` for any overlap, `KodoCopiesAgree` and `KodoTimesAgree` with
  `MaxOverlap = 1` (TLC shows both violated with 2). `CollectedIsOneBucket` and `TotalsAreTheMonths` for
  any answers, gaps and midnights. `ListingsHold`: while a call lasts every truncated page
  has added a name, and what was there all through it has been found up to the marker.
- `LimitsProofs`. Of one limiter: what is left of each deadline and what has passed since the
  event that set it add up to at least the whole delay, and to exactly that for the recovery,
  which yields `PacingHolds`, `CooldownHolds`, `CooldownKept` and `RecoveryPaced`
  (`RecoversOnTime`: not before it is due, and no token at a rate that is overdue); the semaphore's count is the cardinality of
  its holders. Of the stack: `SlotsAlwaysMatchHolders` (a stack names no limiter twice, what a
  call holds and what it has still to acquire are disjoint: no slot leaks on any path out
  of `Do`); `LastLimitPaces` (of a limiter that is last wherever it occurs, a token is taken
  only on the way to the wire, an interval after the one before); `SingleSlotPauses` (the call that got the
  rate-limited answer holds the only slot until it has paused the limiter).
- `SchedulingProofs`. The same sums for timers: a job's remaining wait and the time since its last
  start or end make up at least nine tenths of the interval, at most eleven, or a whole one
  after an overlap; a daily timer never reaches past the next mark. `NeverAGap`: the data of a
  snapshot is as old as its round's query, and what has passed since and the timer of the next
  round add up to the bound of `Validate`, so that it cannot expire before a round that keeps
  the deadline has replaced it. `DaysAreServed`: a daily job that waits has its round of the day before it, and one
  that runs started since the day opened, or before midnight and ends in time for the mark.
  Its hypothesis, `DailyRoundsFit`, is that a daily job has no `RunOnStart` and that a round
  is no longer than from midnight to the mark: the estimate and the packs have limits of one
  and two minutes and marks after eight. (The job of the finalized bills starts at once, and
  a start just before the mark may be busy when it strikes.) `ExitsClean`: once the scheduler's wait and the server's shutdown
  are over, nothing is under way that they waited for.
- `BillingProofs`. The cache of bills holds what was fetched and is within the window; the months a
  round has still to fetch are those the window misses (`HistoryAlwaysWhole`, `FetchedOnceOnly`).
  `DailyCostsAddUp`: the sum of the increments so far is the last snapshot added, and the cache
  keeps the run's own date, which the sum arrives at. `PacksAreUnique`: a call has page size
  packs of each full page before, and what is published was looked through as a whole.

The community modules' folds (`FoldLeft`, `FoldSet`) are recursive functions of sets, chosen by
`CHOOSE`. The proofs show that there is one such function and only one, by minimal
counterexample on the number of elements (`SumExists` and `SumsAgree` in `BillingProofs`,
`FoldExists` and `FoldAdds` in `CDNDataProofs`), and get the sums from its equation. For a sum
over a set no order of its members matters: `SigmaRemove` takes any of them off, though the
equation is of the one that `CHOOSE` takes, and `SigmaUnique` says that whatever obeys the
equation is the sum.

Only model-checked is what is out of the prover's reach: liveness under fairness
(`DepartedLeaves`, `HistoryCompletes`, `EveryCallReturns`, `ProcessEnds`), and with it ENABLED.
The four violations have no theorem: a counterexample is all there is to show. Every other
property of a run is stated by a theorem.

## Abstractions and what is not modelled

- A listing is the set of its online domains; offline ones only appear in the inventory's info
  series. Snapshot contents are one value in the refresh modules, times in `CDNRefresh` one
  instant: expiry is in `Freshness`.
- A bucket is a tick, an aggregate the buckets it was computed from: sums and peaks are right if
  those are. Values, units, decimal money and the validation of a series are left out; an answer
  that is not valid is an error like another.
- The configuration has both CDN verification gates open; with them shut the corresponding jobs
  do not exist.
- Request counters, durations, skip counters and logs are write-only.
- The admission of a number of resources is one comparison of configured rates, without state;
  that unequal intervals and the start-up of all billing jobs within their one-minute deadlines fit the same
  budget is arithmetic of the configuration, not behaviour.
- JSON shapes, signing, TLS, HTTP handlers, flags and YAML, the construction of clients, the Helm
  chart, the rules and the dashboard have no behaviour the properties could be about.

## What is left

Every component with behaviour of its own has a module, and every safety property of a run a
theorem. Still to do:

1. The hazards without a property (`PROJECT.json`): the success that a usage round reports after it
   has released the lock, and the zero that is inferred for an answer without points. (The third,
   the data timestamp of a resource without a data time, is `DataTimestampCorrect`.)
2. One composition of what is checked apart: rounds that `Scheduler` plans, whose requests
   `AuthClient` makes and whose results `CDNRefresh` publishes. Each assumes of the others only what
   they are proved to do (a round ends, a call returns), but no theorem puts them together.
