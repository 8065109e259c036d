# A verification development for DotaTicketWatch

DotaTicketWatch is a Telegram bot written in Go. It polls a few sources (the
AXS event hub, Steam news, the Chinese Dota site, Reddit) for signs that tickets
for The International go on sale, and tells everyone who subscribed. Around that
it answers `/check`, `/flight`, `/yuan`, `/weather` and a few more.

This directory holds TLA+ modules that model the program's own logic, TLC
configurations that check them on small instances, and proofs, checked by TLAPS,
that hold for any instance. Everything here is translated from the Go code;
where a document says something else, a run shows the difference.

To check a module or its proofs, in this directory:

    tlc -workers 2 -config MCDelivery.cfg MCDelivery
    tlapm DeliveryProofs.tla

`PROJECT.json` lists the runs, the mutants (a plausible bug for every property
that TLC must find), which definition stands for which lines, the hazards, and
the theorems.

## 1. The system

### Parts, their state and operations

| Part | State | Operations | Module |
|---|---|---|---|
| Checking runs (`cmd/bot/main.go`: `runChecks`, `checkAll`, `/check`) | `checkMu`, `lastCheck`, `announcedAt`; the locals of a run | a tick of the poller, the admin's command, one monitor after the other, three attempts per event, shutdown | `Delivery` |
| Polling and health check (`runPolling`, `runHeartbeat`; `docker-compose.yml`) | the poller's timer, the heartbeat file, the strikes of the container | the timer, the end of a run, a probe a minute, a restart by autoheal | `Polling` |
| Broadcast (`internal/notifier/telegram.go`) | none but its locals | `Notify`: load the subscribers, send each the photo or the text, remember the first error | `Delivery` |
| Store (`internal/storage/storage.go`, bbolt) | buckets `subscribers`, `notified_events`, `ai_classified`, `ai_state`, `ai_cache` | one transaction each | `Delivery`, `NewsWatch`, `AxsWatch` |
| Steam news (`monitor/steamnews.go`, `steam_classify.go`) | none | `Check`: fetch, keywords, second opinion of the model | `NewsWatch` |
| Chinese site (`monitor/cn_dota.go`) | none | `Check`: fetch, the model decides | `NewsWatch` |
| AXS (`monitor/axs.go`, `axs_ai.go`, `axs_diff.go`) | none | `Check`: fetch, compare snapshots, extract ids, ask the model | `AxsWatch` |
| Language-model client (`internal/ai/openai.go`) | six atomics: the breaker | `IsEnabled`, `Complete` with its attempts and its cache | `AiBreaker`, `NewsWatch` |
| Fetcher (`internal/fetcher`) | none | `Fetch`: three ways to a page, the last with three rounds | `Fetcher`, used by `Polling` and `MonitorStats` |
| Monitor statistics (`appState.stats` in `main.go`) | the last error and a count of failures per monitor, under a lock | `updateAndCheck` after every check; decides on messages to the admin | `MonitorStats` |
| Snapshot caches (`yuan/moex.go`, `weather/client.go`, `flights/cache.go`) | a snapshot under a lock | `Start` (ticker), `Get`, `refresh` | `SnapshotCaches` |
| Date prompts of `/flight` (`flightState` in `main.go`) | prompts per chat, searches per user, under a lock | a button, a command, a text message, `cleanup` | `FlightPrompts` |
| `/aitest` (`cmd/bot/aitest.go`) | none | puts live posts to the shared client | a step of `NewsWatch`, a caller in `AiBreaker` |
| Reddit (`monitor/reddit.go`); texts; configuration; prompts; `cmd/check` | none | filtering, wording | not modelled |

### How they interact

    poller goroutine ---- checkMu ---- goroutines of /check
          |                                 |
          +------------ runChecks ----------+
                            |
        monitors: AXS, Steam, cn_dota, Reddit --- language-model client (shared atomics)
                            |                         |
                    events found                 ai_classified, ai_state
                            |
          AlreadyNotified -> Notify -> MarkNotified          (bbolt)
                            |
                       Telegram: a chat at a time

The command loop (`runBotCommands`) runs beside the poller, so that `/start` and
`/stop` change the subscribers in the middle of a broadcast. It handles commands and
buttons one after the other but starts a goroutine for every text message, for
`/check`, `/flight`, `/yuan` and `/weather`. A restart loses everything but the
database; at shutdown the database is closed while these goroutines still run. The
container's health check looks at the heartbeat file once a minute, and autoheal restarts
a container that failed three times in a row.

### What is hard, and what makes each part correct

* **Delivery.** A broadcast is dozens of requests; any may fail, succeed with a
  lost answer, or be the last before the process dies, and the record that it was
  done is a separate write that may fail, too. Correct means: recorded implies
  received by everyone the broadcast was for; recorded means silence from then on;
  a second copy always has a fault for an excuse; two runs never overlap; the
  poller is not locked out; what stays published is recorded in the end.
* **Monitors with a model.** What was asked is stored before what was found is
  delivered, and what was answered is not stored at all. Correct means: no post is
  judged twice once the answer on it is written down, no signal is forgotten on the way, an outage of the model loses
  nothing, and no Chinese headline is sent without the model's word.
* **AXS.** The new snapshot is stored before it is compared; four ways to find an
  id exclude or complement each other. Correct means: what is listed is delivered
  and every change of the page is judged, unless the model fails to answer.
* **Breaker.** Six atomics, no lock, and successes that are worked off after the
  failures of others. Correct means: one alert per outage, silence
  while cooling down, back after the cooldown, never back after a fatal failure.
* **Polling.** Checks follow each other, so that one page that hangs holds up all, and a
  long run looks like a dead bot to the health check. Correct means: a working bot is not
  restarted, and every source is checked again and again.
* **Messages to the admin.** Each is sent once; errors change, go and come; some checks end
  without an error although they have read nothing. Correct means:
  what the admin knows is true unless a message was lost, and an outage is reported in the end.
* **Caches.** Two kinds of goroutine refresh one snapshot, part by part. Correct means: time
  does not run backwards, no "no data" while another goroutine has some, and the snapshot is
  whole again once its source is.
* **Prompts.** Checked at the button, counted at the answer, read and cleared in two
  steps. Correct means: one search per prompt, a limit that holds, and a prompt that
  does not vanish.

The `hazards` of `PROJECT.json` list all of this by line, with the properties that
watch over it.

## 2. The modules

For eight of the modules there is one with the theorems and their proofs, which extends it
(`DeliveryProofs`, `NewsWatchProofs` and so on); `PollingProofs` and `MonitorStatsProofs` also have
what is proved of `Fetcher`. Section 5 is about them.

### Alerts, the abstract specification

What the bot promises, without monitors, locks, retries and restarts. An alert is
broadcast in rounds, a round is for those subscribed when it opens, copies go to
this audience only, and an alert is settled, for good, when its whole audience has
received it. It is "at least once", not "once".

### Delivery (with MCDelivery)

| In the code | In the module |
|---|---|
| the goroutine of `runPolling`, those of `/check` | `Poll`, `Checkers`; `at[p]` is the call goroutine p makes next |
| `checkMu` | `checkMu`, its holder or `Free`; `Lock`, `TryLock` |
| loops over monitors and events, `attempt` | `monitor`, `batch`, `event`, `attempt` |
| `Notify`'s list, its fall-back to text, its first error | `todo`, `plain`, `failed` |
| the buckets, and that they can be closed | `subscribers`, `notified`, `storeOpen` |
| `lastCheck`, `announcedAt` | `cooling`, `announced`: whether it is less than the limit ago |
| Telegram | a request is `Accepted`, `Refused` (a chat that blocked the bot), lost, or its answer is lost |

`Restart` may happen at any point. It puts every goroutine back to its start and
keeps the database. `CloseStore` is the shutdown in which the goroutines go on:
reads of a closed database find nothing and writes fail, as the code ignores or
returns those errors. After `Load` the list of subscribers is fixed while `Start`
and `Stop` go on. Batches and lists are sets worked off in any order; this adds
behaviours and takes none away. The five seconds between attempts have no state.

The history variables (`opened`, `audience`, `received`, `repeated`, `excused`) are read by no guard. They say what the properties are about: which chats
have got an event, and whether its own broadcast met a fault.

### NewsWatch

One run at a time (`Delivery` shows why that is enough), the Steam monitor and then
the Chinese one. A post is a member of `Keyword`, `Mention` or `Chinese`; what the
model would say of it is in `Signals` and `AdminOnly`. `classified` is the bucket
`ai_classified`. A failed call, a failed write, a failed broadcast and a restart are
the faults; the client may be disabled for as long as it likes. The answer and the record that
there was one are two steps (`Answered`, `Mark`) with `answered` between them: the process may die
there. `garbled` is what matters
of the bucket `ai_cache`: the posts for which the client has kept an answer that the monitor
cannot read. Such an answer is given again until it expires (`Expire`). `AiTest` is the admin's
`/aitest` in the middle of a run: it may disable the client or leave such an answer.

### AxsWatch (with MCAxsWatch)

A page is a record of what the extraction can see of it: whether it is a page of AXS,
whether its JSON state is there and can be read, the ids listed in it, the ids in
the links, the overlay of Queue-it, and whether something else changed. The page
changes at any time; `html` is the one fetched. `snapshot` is `axs_snapshot`, and `previous` the
snapshot before it while the model is to be asked about the two. `garbled` is again what matters of
`ai_cache`, here by such pairs: a page that goes back and forth between two states asks the same
question again, and an answer nobody can read is given again until it expires. The client
may be disabled at any time (`AiOff`), for others use it too.

### AiBreaker

Every access to one of the atomics is an action of its own. `age` is the time since
`disabledAtNanos`, in half hours; `CooldownFor` doubles up to `CooldownMax`, as in
the code. `MaxStreak` saturates the count of trips where the cooldown has already
reached its limit. A request has up to `MaxRetries + 1` attempts (`Attempts`); `Results`
is what they can come to, in which a quota that is used up may be covered by a time-out
after it. `alerts`, `late` and `overlapped` are history: the alerts since a request last
succeeded, the goroutines that were still working off a success when the first of them was sent, and
whether two have met in the client.

### Fetcher

No state: `Fetched` says what a fetch comes to and `FetchSeconds` how long it may take,
for all that its tries can meet (a page, Cloudflare's challenge page, a failure, nothing
until the time-out). FlareSolverr is asked again only after a round without a document;
a challenge page is a document. The half second the TLS client waits before its request is left out:
it would be rounded up to a minute like everything else, and the nine minutes have room for it.

### Polling (with MCPolling)

`turn` is the monitor whose check is under way and `left` the minutes it still takes,
which `Fetcher` gives if its page hangs. `beat`, `up` and `strikes` are the ages of the
heartbeat and of the process, and the probes failed in a row, up to where they make no
difference. The start period ends with the first probe that succeeds. The heartbeat survives a restart, as its file does. `/check` may use the same
monitors between two runs of the poller; it does not write the heartbeat. The durations of
requests to the language model and of broadcasts are not counted: the module is about
pages that hang. The accelerated interval of a minute is allowed at any time. Minutes are
rounded up, which makes runs longer and heartbeats older than they are.

### MonitorStats

`works[m]` has the ways of the fetcher that reach a page just now; a fetch fails or not as
`Fetcher` says. A monitor is like that of AXS or, if it is in `chinese`, like the Chinese one. The
check of the former also fails on a page that was fetched and cannot be read (`strange`), unless the
model finds events in it; the latter does not fetch at all while the client of the model is disabled
(`Skips`), and calls that a success. Which monitor is which is chosen at the beginning. `text` and `fails` are `lastErrText` and `consecutiveFails`, the latter modulo
`adminRenotifyEvery`, which is all the code asks of it. `told`, `missed` and `silent` (history)
are the admin's side: the last message he got, whether one was lost since, and how many checks
have failed in silence.

### SnapshotCaches (with MCSnapshotCaches)

A behaviour is that of one of the three caches (`kind`). A snapshot is the set of its parts:
rate and candles, the forecast, the routes from each origin. `Toggle` makes a part of the
source come and go, and the exchange open and close. Requests are made one part at a time
outside the lock; without the rate or the forecast there is no new snapshot, without another part
there is one that lacks it. `before` and `overtaken` (history) say which of two snapshots is the
older one.

### FlightPrompts (with MCFlightPrompts)

Each method of `flightState` is a step, as it holds the mutex; the loop of updates is
`loop` and the goroutines of `handleText` are `Handlers`. Prompts are numbered in the
order they are sent. `aged` and `HitAges` stand for the 60 seconds and the three hours.
`crowded` (history) has the chats in which somebody did not wait until his last message
was handled: there two answers can take one prompt, or one can clear the next prompt;
`OneSearchPerPrompt`, `LimitHolds` and `PromptStays` say that nowhere else anything goes wrong.

## 3. The runs

"Faults" are transient faults and restarts together.

| Run | Bounds | Shows |
|---|---|---|
| `delivery` | 2 chats, 1 event with a photo, 2 monitors, 1 `/check` at a time, 2 attempts, 2 faults | the six properties below, one of which is that `Delivery` implements `Alerts` |
| `delivery_liveness` | 1 chat, 1 event, 2 attempts, 2 faults, fairness | the poller gets its turn; what stays published is recorded |
| `delivery_only_one_time` | as `delivery`, no faults, a chat that blocked the bot | README.md:75 "one time, only one time" is not what the code does |
| `news_watch` | a post the model vetoes, a mention that is no signal, a headline only it sees is one and one for the admin, 2 faults (calls, unreadable answers, writes, broadcasts, restarts, `/aitest`), fairness | see `NewsWatch` |
| `news_watch_forgotten` | 1 fault | "zero misses" (README.md:27) is not kept for signals only the model sees |
| `ai_breaker` | 2 callers, 2 attempts, 2 failures, cooldown up to 2 units, fairness | whatever the interleaving, one alert between two successes (and one more for each success worked off late) and no outage for ever; while the two do not meet, the breaker does what it is for |
| `ai_breaker_realert` | 1 caller, the code's limit and cooldowns, failures that are not fatal | the outage after a recovery is not announced; and there is a recovery without a restart (README.md:110) |
| `axs_watch` | 7 pages, 1 fault, fairness | see `AxsWatch` |
| `snapshot_caches` | each cache, 2 readers, 2 parts, fairness | see `SnapshotCaches` |
| `flight_prompts` | a private chat and the admin's, 2 text messages at a time, 3 prompts, a limit of 2 | see `FlightPrompts` |
| `polling` | 2 pages that may hang, the default interval of 5 minutes, with and without FlareSolverr and monitoring, `/check`, 1 crash, fairness | see `Polling` |
| `monitor_stats` | 1 monitor of either kind, 3 ways to its page, which may become unreadable, a client that comes and goes, 2 error texts, a message every 10 failures, 2 restarts or lost messages, fairness | see `MonitorStats` |

**The properties.**

* `delivery`: `OneRunAtATime`; `NotifiedMeansReceived` (every chat of the last
  broadcast of a recorded event has it); `RepeatedOnlyIfExcused` (a chat gets a
  second copy only if the broadcast of that very event met a fault);
  `SilentOnceNotified` (no copy after the record, through restarts and the closing
  of the store); `Implements`; and `Inv`, the inductive invariant of the proofs.
* `news_watch`: `RejudgedOnlyIfUnwritten` (a post is judged again only if the write failed or the
  process died between the answer and the write), `ChineseOnlyOnWord`,
  `ForgottenOnlyIfDropped` (the one way to lose a signal the model has seen), `KeywordAlwaysReaches` (a veto
  of the model only delays a keyword post: at the next look it is already
  classified and the keywords decide), `OutageLosesNothing` (also of answers nobody can
  read: they hold a post back until the cache gives them up).
* `axs_watch`: `JudgedUnlessLost`; `LostOnlyForCause` (the excuse of the former is used up only by
  a failure, by an answer in the cache that cannot be read, or by a client disabled since `runDiff`
  looked: what the model answers on is what is stored). The second needs no failure of its own: a page
  that changes there and back and there again asks what was asked before. `ShownReaches` (what stays listed, linked or queued on a page
  is delivered whatever the model does).
* `ai_breaker`: `OneAlertUntilRecovery` (one alert between two successes, however many
  goroutines trip the breaker. A success that came before the alert but is worked off after it
  resets `notified`, openai.go:146-148, and the outage it knows nothing of is announced again: once more
  for each goroutine that was at this when the first alert was sent, and no more), `OutageEnds`, `HardMeansOff`, `DisabledMeansAlerted`,
  `QuietWhileCooling`. The last three are stated for callers that do not meet: when two do,
  TLC finds that a success under way enables a client another
  goroutine has just disabled for good, that the alert of a trip is reset by the
  recovery of another, and that one who asks between the stores of `disabled` and
  `disabledAtNanos` reads the old date and enables the client at once. `/aitest` is such a second caller.
* `polling`: `KilledOnlyIfTwiceSlow` (a process that has completed a run is restarted by the
  health check only if two checks since its heartbeat hung, of two pages or by way of `/check`);
  `RunsComplete` (runs end again and again, whatever hangs if FlareSolverr is not used, and
  once nothing hangs if it is).
* `monitor_stats`: `KnowsUnlessMissed`, `NeverSilentForLong` (fewer than ten failed checks in a
  row without a message, whatever the errors say), `OutageIsReported` (of a source that every check
  fails on: no way reaches its page, or the page cannot be read and the model is not asked; a Chinese
  monitor that does not look is not meant), `OneWayIsEnough` (of a page that can be read).
* `snapshot_caches`: `OlderOnlyAtStart`, `NilOnlyIfMissed`, `WholeInTheEnd`.
* `flight_prompts`: `OneSearchPerPrompt`, `LimitHolds`, `PromptStays`.

Each module has one type invariant, `TypeOK`, besides; `Delivery`'s is the first conjunct of `Inv`.

**Why the bounds are enough.**

* Two chats are needed for one to be served and the other not; a third behaves like
  one of them. One event is enough for everything a broadcast does, and the
  independence of events is not left to a bound: the theorems hold for any set.
  Two attempts have a first and a last; the code has three, and the theorems hold for
  any number. Two faults allow a restart after a failure, or a lost answer and then a
  failed record.
* The second monitor finds nothing: it makes a run go on after the broadcast, which
  is where a mutex given back too early would show.
* The breaker of `ai_breaker` is smaller than the code's (5 failures, 30 minutes to 6 hours),
  with a cooldown that still grows and still reaches its limit, and a count of failures that is
  more than one. With one caller the branch that recovers on a success
  is never taken, as the caller that is let through has cleared `disabled` itself: that is
  finding 3, and why two are needed to see the branch at all. Two attempts have a last one
  and one before it.
* The seven pages have one for each thing the extraction makes of a page -- nothing, what is
  listed and linked, what is linked where there is no state, the queue instead -- and three snapshots,
  so that a difference can come up twice. One fault is one lost analysis, write or broadcast, or one
  answer that cannot be read and is met again.
* Of the posts only a headline is a signal the model alone sees. In the module a Steam post of that
  kind differs from it only in being fetched whether the model is in service or not;
  `news_watch_forgotten` has one.
* Two readers and the ticker can refresh an empty cache at a time, and overtake each other.
  Two parts have one that comes and one that does not.
* Two pages are one that hangs while the other does not. The monitors that are not fetched by
  `Fetcher` (Steam, Reddit) give up after 15 and 10 seconds. A third minute-long wait would
  behave like the second: the property allows any restart after two. The intervals are the code's.
* One monitor is enough for `monitor_stats`: statistics of different monitors share nothing.
  Two texts are an error that changes. Ten is the code's number.
* A limit of two searches and three prompts allow one search too many; two messages at a
  time are what it takes to be crowded.

No bound is in the code: `MaxFaults` and `MaxPrompts` are guards of faults
and of new prompts only, and the systems go on without them.

## 4. Fairness

* A goroutine that can take a step in a run takes it (weak fairness): requests have
  timeouts, and Go schedules every runnable goroutine.
* The poller's `Lock` is strongly fair. It competes with `TryLock` of `/check`, so that
  it is enabled again and again rather than always; Go's `sync.Mutex` goes into
  starvation mode after one millisecond and hands the mutex to the waiter.
* The poller's timer fires. Nobody has to use `/check`, subscribe, or publish.
* After `CloseStore` the process ends and is started again: `docker-compose.yml` has
  `restart: unless-stopped`.
* The breaker: time goes by, somebody calls (the poller does, in every run), and calls
  end. The caches: requests end, and the ticker ticks (strongly fair for the yuan, which is
  refreshed in trading hours only: a trading day of nine hours is longer than half an hour);
  that anybody reads is not assumed.
* `Polling`: minutes go by, checks end (each try has a time-out), the poller is scheduled when
  its timer has fired, autoheal runs. Nobody has to use `/check`, no page has to answer.
* `MonitorStats`: runs begin again and again, which `Polling` shows, and checks end.
* `NewsWatch`: an answer in the cache is given up after its thirty days.
* Nothing is assumed of the model or of the sources, apart from what the premise of
  a property says ("once it answers for good").

Faults are bounded, so liveness says: after the last fault, in the end. With a chat
that stays blocked an event is never recorded, and `PublishedIsNotified` says so in
its premise.

## 5. What is proved

Every safety property and every action property that a run checks is a theorem, and so is the
refinement. The theorems hold for all values of the constants that satisfy the assumptions the
modules name (`EventsAssumption`, `PostsAssumption`, `PollingAssumption` and so on; TLC evaluates each
on the runs): any chats, posts, pages, monitors, goroutines, retries, limits and any number of
faults. Two of them need a hypothesis on a constant, which they state.

| Module | Theorem | Says |
|---|---|---|
| `DeliveryProofs` | `TypeCorrect`, `Invariance` | `[]TypeOK`, `[]Inv` |
| | `MutualExclusion` | `[]OneRunAtATime` |
| | `RecordIsTrue` | `[]NotifiedMeansReceived` |
| | `NoCauselessRepeat` | `[]RepeatedOnlyIfExcused` |
| | `RecordedIsSilent` | `SilentOnceNotified` |
| | `KeepsThePromise` | `Implements`, the refinement of `Alerts` |
| | `SubscribersMissNothing` | who is subscribed before an event's first broadcast, and stays, has received it when it is recorded |
| | `StrangersHearNothing` | who never subscribes gets nothing |
| `NewsWatchProofs` | `TypeCorrect`, `Invariance` | `[]TypeOK`, `[]Inv` |
| | `JudgedOnce` | `[]RejudgedOnlyIfUnwritten` |
| | `ChineseNeedsTheWord` | `[]ChineseOnlyOnWord` |
| | `NothingElseForgotten` | `[]ForgottenOnlyIfDropped` |
| `AxsWatchProofs` | `TypeCorrect`, `Invariance` | `[]TypeOK`, `[]Inv` |
| | `StoredIsJudged` | `[]JudgedUnlessLost` |
| | `NothingElseLost` | `LostOnlyForCause` |
| `AiBreakerProofs` | `TypeCorrect`, `Invariance` | `[]TypeOK`, `[]Inv` |
| | `OneAlert` | `[]OneAlertUntilRecovery` |
| | `HardStaysOff` | `[]HardMeansOff` |
| | `DisabledIsAnnounced` | `[]DisabledMeansAlerted` |
| | `QuietUntilCool` | `QuietWhileCooling` |
| | `CooldownGrows` | what `cooldownFor` computes for every number of trips |
| | `OneAnswerIsEnough` | what a request comes to, for any number of retries |
| `SnapshotCachesProofs` | `TypeCorrect`, `Invariance` | `[]TypeOK`, `[]Inv` |
| | `NilIsOwnFailure` | `[]NilOnlyIfMissed` |
| | `TimeRunsForward` | `[]OlderOnlyAtStart` |
| `FlightPromptsProofs` | `TypeCorrect`, `Invariance` | `[]TypeOK`, `[]Inv` |
| | `OneSearch` | `[]OneSearchPerPrompt` |
| | `LimitIsExact` | `[]LimitHolds` |
| | `PromptIsKept` | `PromptStays` |
| `MonitorStatsProofs` | `TypeCorrect`, `Invariance` | `[]TypeOK`, `[]Inv` |
| | `AdminKnows` | `[]KnowsUnlessMissed` |
| | `NeverSilent` | `[]NeverSilentForLong` |
| | `OneWayToFetch` | when `Fetched` holds, for all that each try can meet |
| `PollingProofs` | `TypeCorrect`, `Invariance` | `[]TypeOK`, `[]Inv` |
| | `OneHangIsSurvived` | `BaseInterval <= 5` implies `KilledOnlyIfTwiceSlow` |
| | `WaitingIsNotHanging` | `BaseInterval <= 12` implies `KilledOnlyIfSlow` (in `PollingProofs`): while nothing hangs the health check restarts no process that has completed a run |
| | `FetchEnds` | a fetch is over within 525 seconds (the half second of the TLS client aside), for all that each try can meet |

Each module's argument is the same: `Inv`, which is inductive and implies the properties; a lemma
`InvInit`, a lemma `InvStep` with one step per action, and a temporal step for each theorem. TLC has
checked each `Inv` on the instance of its module's run (`Delivery`'s in the run `delivery` itself)
before it was proved. What the properties lack to be inductive, and `Inv` adds:

* **Delivery.** That a recorded event has reached its audience depends on what a broadcast under way
  has done so far. `Locked`: the goroutine in a run is the one that holds the mutex, so that what one
  goroutine knows of the record stays true while it works. `Broadcasts`: while p sends an event, that
  event is not recorded, its audience is the list p loaded, and everyone of it has the event, or is
  still on the list, or the attempt has failed. `Faultless`: an event without an excuse has met no
  fault, so that no chat has two copies, and those who have one are not on the list any more. The
  refinement uses `Inv` where `Alerts` demands something: a delivery goes to the audience, and an
  event is settled only when everybody has it. The last two theorems are about the promise alone:
  they look at the five actions of `Alerts` that steps of `Delivery` map to (`PromiseStep`), and
  at no mutex, attempt or restart.
* **NewsWatch.** `AnswersWritten`: what the model has answered on is in the bucket, or is about to be
  written there, or its write failed or was never made, so that only the last can be asked again. `ChineseOnWord` says of headlines on their way
  what `ChineseOnlyOnWord` says of those that have arrived.
* **AxsWatch.** `WaitsForTheModel`: while a difference waits for its analysis, what is stored is the
  snapshot of the page it was found on, not of the page as it is by then.
* **AiBreaker.** `AlertsCounted` needs nothing of who interleaves with whom. Once the admin has been
  alerted, only goroutines with a success that is older can reset `notified`, for a newer one starts the
  count anew: they are in `late`. The alerts so far, the goroutines of `late` that have still to reset
  it, and one more if it is reset just now (`Due`) are together at most one more than `late` has
  members, because `notified` is swapped atomically. The other three hold while
  goroutines do not meet. `Alone` then says for each access the one caller is about to make what the
  six atomics hold (`Where`), and that between two calls an open breaker has been announced and a
  closed one has cooled down (`Works`). The latter needs `CooldownGrows`: a longer cooldown after each trip.
* **SnapshotCaches.** `ReadersAreEarly`: a reader refreshes only an empty cache. `StillToStore`:
  whoever is older than another still has to store, so that an order between two snapshots always
  has a goroutine at the store.
* **FlightPrompts.** `TakingTurns`: in a chat in which everybody waits, one message or button is
  under way at a time; `Answered`: the prompt it answers is the one that is pending until it is
  cleared; `WithinLimit`: what `canRate` has granted has not been used by another; `Numbered` and
  `OfOneChat` say that a prompt is new when it is set, and whose it is.
* **MonitorStats.** `SilentNoLongerThanFailing`: `silent` is at most `fails`, which starts anew with
  every change of the error and is sent to the admin before it reaches `adminRenotifyEvery`.
* **Polling.** `WithinBudget`: the age of the heartbeat (counted on in strikes when the age itself is
  at its cap) and what is still to come -- the timer, or the check under way -- make at most the longest
  wait, and nine minutes more if one check has hung. `FetchEnds` gives the nine minutes. The third
  probe fails at an age of 17 minutes. This holds for any interval; a heartbeat is too old without
  two hangs only if the longest wait is more than seven minutes, without any only if it is more than
  sixteen. That is where the hypotheses come from, and they are sharp: TLC finds `KilledOnlyIfTwiceSlow`
  violated with an interval of 6, and `KilledOnlyIfSlow` with one of 13. The default is 5, and
  `.env.example` has 2; `config.go` accepts any from 2 on.

`cooldownFor` and the attempts of a request are defined by recursion and by a least index. The
library's induction takes a predicate as a parameter, which the provers cannot instantiate;
`SetInduction` derives induction for a set from the well-foundedness of `<` instead, and the two
theorems use it.

Only model-checked: `PollerGetsItsTurn`, `PublishedIsNotified`, `KeywordAlwaysReaches`,
`OutageLosesNothing`, `ShownReaches`, `OutageEnds`, `WholeInTheEnd`, `RunsComplete`,
`OutageIsReported` and `OneWayIsEnough`. They are liveness under fairness, which is out of the
prover's reach together with ENABLED. The safety half of three of them is proved:
`OneWayToFetch` is why one way is enough, `WithinBudget` why a process with one page that hangs
lives to complete its run, and `OneAnswerIsEnough` why a request succeeds in the end. The three runs
that expect a violation show a counterexample and have nothing to prove.

## 6. Where code and words differ

The `findings` of `PROJECT.json`, each shown by a run:

1. `delivery_only_one_time`: one chat that blocked the bot makes every other get the
   event at each attempt of each run, for ever: `Notify` fails as a whole.
2. `news_watch_forgotten`: `MarkClassified` comes before the delivery.
3. `ai_breaker_realert`: `notified` is reset only if `disabled` is still set when a
   request succeeds; `IsEnabled` has cleared it.
4. `ai_breaker_realert`, again: README.md:110 says that after five failures the client is a no-op
   "until restart". In the trace it comes back after a cooldown, in the same process, and trips a second time.
   Were it off until a restart, there would be one outage, which is announced, and the property would hold:
   its failure refutes the test's name and this line at once. `OutageEnds` is what the code does instead.

Seen on the way and not made a run:

* README.md:73 says 72 hours of polling once a minute after an announcement; `announcedAt` is
  in memory only, and an event already recorded never sets it again: a restart ends it.
* A keyword post the model does not confirm is announced at the next poll.
* A change of the AXS page whose analysis fails is not analysed again. If it fails because the
  answer cannot be read, the same change is not analysed for thirty days however often it
  comes up, for the answer is in the cache (openai.go:156).
* While the client of the model is disabled the Chinese monitor does not fetch and returns no
  error (cn_dota.go:69). If a fetch failed before, this counts as its recovery, and the admin is told
  that the monitor has recovered (main.go:432) while no way reaches its page.
* A success that is worked off after the failures of another goroutine resets the alert of an
  outage that goes on, which is then announced twice (`OneAlertUntilRecovery` counts these).
* A page whose JSON is broken, or that shows the overlay of Queue-it, is not searched for links
  although README.md:47 says this works always (the model is asked instead, if it is enabled).
* With FlareSolverr, one page that hangs for good can keep a bot that starts with an old
  heartbeat from ever completing a run: its first run takes more than eight minutes, and the health
  check gives it about five. The monitors after that page are then never checked
  (README.md:27, "zero misses"). `RunsComplete` says so in its premise.
* `POLL_INTERVAL_MINUTES` may be anything from 2 on, but the health check's 900 seconds are fixed.
  From 6 on one page that hangs is enough for a restart, and from 13 on the poller's own wait may be
  (section 5).
* If the requests for all origins fail, the text about flights says that there are no direct
  ones, which is what an empty snapshot means.
* README.md:67 gives Reddit the same phrases as Steam; the code has lists of its own, demands a
  word about a sale, and refuses any title with a question mark.

## 7. Not modelled, and the plan

Left out for good:

* texts and layout, prompts, the names of airlines and weathers, the decoding of answers, the
  word lists and regular expressions of the monitors: data the properties do not tell apart;
* Reddit: a filter of titles without state; its events are those of `Delivery`'s `Publish`;
* configuration: read once, the CONSTANTS of the modules;
* `cmd/check` and the reports of `/aitest`: they call the same code and print. What `/aitest` does
  to the state it shares with the monitors is modelled;
* messages of `/flight` that are edited and deleted; a forecast with arrays of different
  lengths and a negative `OPENAI_MAX_RETRIES`, which end the process.

Done, in this order: `Alerts`, `Delivery`, `DeliveryProofs`, `NewsWatch`, `AiBreaker`,
`AxsWatch`, `SnapshotCaches`, `FlightPrompts`, `Fetcher`, `Polling`, `MonitorStats`, and the proof
modules of all of them.

All the properties that are not about liveness are proved. What is left:

1. `AiBreaker`: how far the three properties about callers that do not meet still hold when two do, beyond `OneAlert`.
2. Abstract specifications of the caches and of the prompts, and that the modules implement them.
