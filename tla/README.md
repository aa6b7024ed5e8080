# TLA+ models of ai-job-gateway

This directory specifies `src/ai_job_gateway`: how a job runs and is cancelled, what
its provider does meanwhile, how submissions are accepted and deduplicated, how
webhooks are delivered across shutdowns and crashes and where to, what the two stores
answer, and what a client or a shell waiting for a job is told. TLC checks each model
on small instances; TLAPS proves the central results for all instances.

    tlc -config JobLifecycle_sqlite.cfg MCJobLifecycle      # one run
    tlapm JobLifecycleProofs.tla                            # one proof module

`PROJECT.json` maps every definition to the source lines it stands for, and lists
the runs, the hazards, the findings and, for each property, a plausible bug that the
run detects (a *mutant*: the definitions named `X_Variant`, which no action uses).

## 1. The system

The gateway takes jobs over HTTP (`POST /v1/{capability}`), runs each on a *provider*
in the background, keeps a record that callers poll (`GET /v1/jobs/{id}`), and calls a
webhook when the job is over. Everything runs on one asyncio loop in one process.

| Component | State | Operations | Modelled |
|---|---|---|---|
| Run phase, cancellation (`manager.py`: `_schedule`, `_run`, `_execute`, `cancel`) | `_active_jobs`, `_cancel_targets`, `_cancelling`, the job semaphore | start, slot, provider, job timeout, record; cancel, join a cancel | `JobContract`, `JobLifecycle` |
| Built-in providers (`providers*.py`) | an HTTP client, a buffer, two files, a thread | request, read, close, save; run in a thread | `ProviderRun` (what a service computes is left out) |
| Metrics (`metrics.py`) | counters, an in-flight gauge | count, render | `ProviderRun`, `HttpSubmit` (partly: no buckets, no rendering, no webhook counter) |
| Idempotent submission (`manager.py`: `submit`; the key tables of `store.py`) | `_submit_key_locks`, `_submit_key_waiters`, the keys with job id and fingerprint | lock, recall, compare, remember, stamp, create, evict | `IdempotentSubmit` |
| HTTP API (`server.py`) | a body being read | authorise, check, read, hand over, render | `HttpSubmit` for POST; get and cancel in `ClientWait`, lifespan in `WebhookDelivery`, listing and counts in `JobStore` (partly) |
| Webhook delivery, shutdown, recovery (`manager.py`: `_deliver_webhook`, `aclose`, `recover_interrupted_jobs`) | the webhook semaphore, the HTTP client, `webhook_status` | attempt, retry, record; drain, close; sweep | `WebhookDelivery` |
| Webhook destination guard (`netguard.py`) | kept connections | check at submission; resolve, judge, pin at connection | `HttpSubmit`, `WebhookRoute` |
| Webhook signing (`webhook_signing.py`) | none | sign, verify | `WebhookRoute` (partly: the timestamp; the MAC is a library call) |
| Stores (`store.py`, `models.py`, `clock.py`) | the jobs table | create, update, get, list, stats, recovery candidates; expiry on read | `JobStore`, key tables in `IdempotentSubmit` (partly) |
| Client, polling helper (`client.py`, `gateway_poll.py`) | one poll's attempt, a wait's deadline | submit, poll, retry, wait, cancel | `ClientWait`, `CommandLine` |
| Command line (`cli.py`) | none but its exit | submit, cancel; serve | `CommandLine` (partly: `serve` is wiring) |
| Exceptions, package, release script | none | | no |

How they interact: the handler checks a request and calls `submit`, which creates a
record and the task of `_run`; `_run` takes a slot, writes PROCESSING, awaits the
provider's task under `wait_for`, writes the terminal record and fires the webhook's
task. `cancel` shares four fields with it, cancels whatever the task awaits, waits for
the run phase to end or for the grace period, and writes the record itself. The store
is shared by all of them, and the sweep at startup reads what the process before left.

What makes each component correct, and what is hard about it:

* **Run phase.** One terminal status, final and announced once; no slot lost; no caller
  of `cancel` left waiting; a reported cancellation sticks. Hard: every await lets any
  other task run; over SQLite the store's own calls are awaits; a provider may ignore
  its cancellation; a store call may raise after it committed.
* **Providers, metrics.** Whatever way a run ends, files are whole, nothing is held, and
  the counters agree with the records. Hard: a cancellation may land in any await, the
  `finally`'s included, or before the first step; a thread cannot be cancelled.
* **Submission.** A key leads to one job of the request it was first used with; the
  status code is true of the job; a refused request leaves nothing. Hard: six store
  calls in a row, a lock table that must shrink, keys of an older version without a
  fingerprint, two awaits in the handler before it all begins.
* **Delivery.** At least once, the recorded outcome true and final, a restart repeats
  exactly what is unfinished, and only to allowed addresses. Hard: a lost 2xx, a crash
  between two writes, a client closed under a delivery, a result that expires while the
  gateway is down, names that change, timestamps that age in a queue.
* **Stores.** The SQL queries mean what the scans they replaced meant; an answer
  belongs to a moment of its call. Hard: expiry is a function of the clock, computed
  three times, once over text; the clock is read before the lock is awaited.
* **Client, commands.** What `wait` and the shell are told of the job is true, a blip
  does not end a wait, and it ends. Hard: a POST carried out whose answer is lost.

## 2. The plan

1. `JobContract`, the abstract specification of a job, and `JobLifecycle`, which
   implements it over an in-memory store (`KeepsContract`); written and proved.
2. `IdempotentSubmit`; `HttpSubmit`, the handler in front of it, which implements it.
3. `WebhookDelivery`; `WebhookRoute`, which takes its requests apart and implements it.
4. `ProviderRun`: `JobLifecycle` with its providers taken apart, which implements it.
5. `JobStore` (the reader's side of the table).
6. `ClientWait` (the caller's side of the contract); `CommandLine`, which implements it.
7. Proofs of the safety properties the runs check, module by module (section 5): done.
8. Next, models: key eviction under a clock that steps back; the handler of the listing.

The pairs of 2, 3, 4 and 6 are built alike: the detailed module EXTENDS the other, adds
variables, and each of its steps is a step of the other or leaves its variables alone
(proved, section 5). So every safety property checked of the one holds of the other;
the runs check the detailed one, and liveness there under fairness of its own steps.

## 3. The modules

Everywhere, one action is the code between two awaits, since a task runs alone there.
The names of variables and actions follow the code.

**JobContract** has a job's stored status and the list of statuses handed to the
webhook. `Create`, `Start`, `Settle`: forward only, one terminal status, announced once.

**JobLifecycle.** `task[j]` is the await `_run` or `_execute` is suspended in, and
`caller[c]` that of `cancel`. A store call is two steps: it joins `storeQueue`, and the
head of the queue returns or (bounded by `StoreFaults`) raises, with the UPDATE
committed or not. With `StoreYields = FALSE` nothing else runs while a call is out,
which is `InMemoryJobStore`; otherwise anything may, which is `SQLiteJobStore` with its
FIFO lock and worker thread. `slotWaiters`, `granted`, `dropped` and `returning` follow
CPython's `asyncio.Semaphore`, the two orders of "woken" and "cancelled" included. A
provider returns, raises, hangs, swallows its CancelledError (`"ignores"`) or raises one
by itself (`"selfcancels"`). The timer of `job_timeout` may strike in the turn of the loop
in which the provider has ended and `_execute` has not resumed: from CPython 3.12 on,
`wait_for` then raises TimeoutError all the same (`task[j] = "expired"`), while 3.11 looks
at the task first, as if the timer had not struck. The code supports both, so both are
behaviours of the model.

| Code | Action |
|---|---|
| `submit` to `_schedule` | `Submit` |
| `_run` up to its first await; slot granted; slot wait cancelled | `Begin`, `TakeSlot`, `LeaveSlotWait` |
| `_execute`: PROCESSING written; provider over; `job_timeout` | `Marked`, `ProviderReturns`, `JobTimesOut` |
| terminal write returns or raises; the internal-error write | `Recorded`, `WriteRaises`, `FailureRecorded`, `FailureLost` |
| `cancel`: first lookup; `store.get`; grace period; write; join | `Cancel`, `LookedUp`/`LookUpRaises`, `GraceEnds`, `CancelRecorded`/`CancelWriteRaises`, `JoinReturns` |

**ProviderRun** opens `provider[j]` up: `stage[j]` is the await `run()` is suspended in.
For an image that is the response's headers, a chunk, the client's `aclose()`; then,
with no await between, the `.part` file and `os.replace`, two steps between which only a
crash could look (`Saving`). A media job awaits a thread, which `threads` keeps after a
cancellation. Any other provider ends at once or later. A cancellation before the first
step of `run()` leaves no trace in the metrics (`NeverBegins`); `InstrumentedProvider`
counts every other end. The manager's steps are `JobLifecycle`'s (`ManagerStep`). The
history `late` names the jobs whose timer struck after their run had ended: one of them
may be recorded as failed although it was counted ready and its image is there.

**IdempotentSubmit.** `call[c]` is the await `submit` is suspended in. A store call is
one action, taken when it returns; until then every other call may step. Locks are
objects (`lockOf[c]`): a call may hold a lock the table has forgotten, and only then can
two calls of one key be inside. Keys are evicted oldest first at `MaxKeys`; a crash
keeps the store only, and may fall after an INSERT that had not returned.

**HttpSubmit** puts the handler of `POST /v1/{capability}` in front: a call in `Remote`
begins as a request with a set of flaws, out of `Requests`. `Receive` makes the checks
before the first await, in the code's order; then chunks come (`Chunk`, `BodyEnds`,
`Disconnect`), the webhook's host is resolved in a thread (`Resolved`), and the request
is handed to `submit` (`Hand`). What `submit` returns or raises becomes a status code
(`StatusOf`). `created` is the counter of created jobs.

**WebhookDelivery.** `delivery[j]` is the await `_deliver_webhook` is suspended in;
`phase` is the process: down, the sweep's two stages, serving, draining, closed (the
client is closed and the loop still runs). Ghosts: `heard` counts the 2xx answers of a
receiver, `unsure` those whose answer was lost. The sweep selects rows by stored status
and decides by the one displayed when they were listed.

**WebhookRoute** takes the step `PostEnds` apart: `hop[j]` is where a request is
(resolving, connecting, sent), `found[j]` what DNS answered, `conn[j]` the connection,
kept alive or new, `age[j]` how long ago the headers were signed, which happens before
the attempt asks for its slot. `allows` is `allow_private_webhooks` of the running
process; the next one may have another. An address is public or private: the arithmetic
of `is_public_address` is not modelled.

**JobStore.** Rows, a clock of ticks, and a reader whose call is asked, executed and
answered at three times. A job has two writers, its run (`CallMark`, `CallRecord`,
`RunStops`) and `cancel` (`Claim`, `CallCancel`). Each calls `update_status`, which stamps
the expiry, and the calls land one after another (`writes[j]`, `UpdateStatus`). So a row
does not only move forward: PROCESSING may be written over a cancelled row, and a
cancellation over an outcome. Store faults and restarts are left out here.
Each query exists twice: as the scan of `JobStore` and as the SQL, over timestamps as
`isoformat` writes them: a text compared by SQLite, in which a whole second has no
fraction (`TicksPerSecond` stands for the microseconds). A page is any sequence that is
sorted and cut as the query says (`Pages`). An embedding may store an empty `webhook_url`
(`Blank`): the SQL asks whether the column is NULL, the scan whether it is empty, and the
sweep passes over what only the SQL selects. The history `seen` is what each job displayed
during the call; `Ever` and `Always` are the jobs that matched at some, at every moment.

**ClientWait.** A request is sent, answered and received in three steps, and the answer
can be old when received, lost, or a proxy's. `Receive` is everything `poll` and `wait`
do with it up to the next sleep. In the gateway, `cancel` claims the job (`CancelBegins`;
`cancelling` is the status it was claimed at) and writes later (`CancelWrites`); another
call joins it. In memory nothing is recorded in between. Over SQLite the one write that
was already in its worker thread lands (`RunWrites`), can be read, and is then replaced;
the history `overtaken` remembers it. The record expires; a restart fails an interrupted
job over SQLite and forgets it in memory. The gateway's store calls do not fail here, and
a job's id is told only after its task's first step (section 4, `early_cancel`).

**CommandLine** has the commands. `submit` posts once (`Post`: carried out or not,
answered by the gateway, by a server between, or not at all), then waits on the handle;
`exit` is the status and the line the shell sees. `cancel` may be run again and again.

## 4. The runs

| Run | Instance | What it shows |
|---|---|---|
| `images` | 1 image, 1 media, 1 other job and an unissued id, 1 slot, 4 cancels (2 racing for the image), in-memory, job timeout, providers may ignore | `KeepsContract`: the manager with these providers implements JobContract. `ImagesAreWhole`, `NothingLeaks`, `CountsMatchRecords`, `TypeOK` |
| `sqlite` | 2 jobs, 1 slot, 3 cancels (2 racing), SQLite, 2 calls may raise, job timeout, providers may ignore, fair | `CancelSticks`, `RefusalIsTrue`, `CancelledNeverStarts`, `NoJobLeftBehind`, `SlotsConserved`, `NoCancellingLeak`, `NoOrphanedWaiter`; every call returns (`CancelReturns`), every job settles (`EveryJobSettles`) |
| `submits` | 3 calls of one key (one by HTTP and with another request, one that may find a key of an older version), 1 of another, room for 1 key, 1 fault, 1 crash, any one flaw, fair | `OneJobPerKey`, `AnswersMatch`, `LocksCollected`, `CountsEachJob`, `RefusedLeavesNoTrace`, `AnswersAreHonest`, `SubmitReturns` |
| `restarts` | 2 jobs, 1 slot, 2 attempts, 2 stops, 1 fault, expiry | `DeliveredIsTrue`, `DuplicatesExplained`, `OutcomeIsFinal`, `OnlyExpiredForgotten`, `SlotsHeldByRequests` |
| `routes` | 2 jobs, 1 slot, 2 attempts, 1 stop, private addresses forbidden, fair | `ConnectsOnlyWhereAllowed`, `StaleOnlyIfQueued`, `EveryOutcomeRecorded` |
| `readers` | 2 jobs of 2 capabilities, one may be cancelled and has a webhook, one has an empty `webhook_url`, page of 1, 3 ticks, expiry after 2 | `StoresAgree`, `TotalIsFromTheCall`, `PageIsNewest`, `SlipsOnlyDuringTheCall`, `AnswersAreOfTheCall` |
| `polls` | `submit` and further waits, `cancel` again and again, 3 retries, both stores, 1 restart, fair | `OutcomeIsTrue`, `NoFalseTimeout`, `BlipsTolerated`, `CallersAgree`, `ExitIsTrue`, `WaitReturns` |
| `overwritten`, `early_cancel`, `self_cancel`, `expired`, `stale` | smallest that show it | the findings below |

### Findings

* `overwritten`: over SQLite, a cancel that begins while the terminal write is in flight
  replaces a finished outcome (`manager.py:776`), and both are announced. So
  `KeepsContract` is a property of the in-memory store only, and the SQLite run checks
  what remains true: the cancellation that was reported sticks, a refusal stays true. It
  reaches HTTP callers: a poll that comes between the two writes is told the result, and
  the cancel then answers 200. `OutcomeIsTrue`, `CallersAgree` and `ExitIsTrue` name this
  case (`Overwritten`) and say that there is no other: none in memory, and none by a
  cancel that begins when the outcome is stored (the mutant of `CallersAgree`).
* `early_cancel`: a cancel before the task's first step leaves the job processing for
  ever (`manager.py:485`). An HTTP client cannot be that fast; an embedding can, so the
  other runs have `EarlyCancel = FALSE`.
* `self_cancel`: a provider's own CancelledError is taken for the job's
  (`manager.py:512`). The other runs have no such provider.
* `expired`: the sweep never re-fires the webhook of a job whose result expired while
  the gateway was down (`manager.py:700`). `OnlyExpiredForgotten` shows that it forgets
  nobody else.
* `stale`: an attempt is signed before it queues for a webhook slot (`manager.py:593`),
  so it may leave with a timestamp its receiver rejects, and so may each retry.
  `StaleOnlyIfQueued` shows that nothing else ages a signature: no backoff does.

Seen on the way, without a run of their own:

* The internal-error write that follows a store fault may replace a recorded
  cancellation or leave a job that has its image recorded as failed; `CancelSticks`,
  `RefusalIsTrue`, `NoJobLeftBehind`, `CountsMatchRecords` and the last conjuncts of
  `ImagesAreWhole` and `NothingLeaks` are stated for a store that has not raised.
* On Python 3.12 and later, a job whose timer strikes after its provider has ended is
  recorded as one that "did not finish" (`manager.py:535`), with its file on disk and its
  run counted `ready`, where `README.md:322` says that timeouts count as `cancelled`
  (`metrics.py:17` as well). The window is one turn of the loop. `ImagesAreWhole` and
  `CountsMatchRecords` allow exactly these jobs to differ (`late`).
* A delivery that outlives the shutdown drain spends its remaining attempts on the
  closed client and is recorded `failed`, while `manager.py:256` expects it to be lost
  without a record; the next start does not repeat it.
* The created-jobs counter counts a submission whose store call then raises
  (`manager.py:389`); `CountsEachJob` says that nothing else puts it off.
* A page of `status=ready` may show a row as expired, if it expired during the call
  (`store.py:547`): `SlipsOnlyDuringTheCall` says that there is no other way.
* `wait()` may raise JobNotFoundError (an in-memory gateway restarted) or
  HTTPStatusError (a 500), and `_submit` catches neither, although its docstring
  (`cli.py:92`) promises never a traceback: `WaitExit`'s "traceback".
* A job whose POST was carried out and whose answer was a proxy's is said to be rejected
  (exit 1) and runs; `ExitIsTrue` says when this can be.
* The thread of a media job that was cancelled or timed out runs on beside the next
  job's, so more threads than slots may be at work (`NothingLeaks` names these alone).

### Bounds, and why they are enough

* *Jobs, calls.* The shared fields are per job; jobs meet only in the slots and in the
  store's queue. Two jobs and one slot give waiting and hand-over, the third job of
  `images` a queue of two whose head is cancelled. Two calls of `cancel` about one job
  are the pair of owner and joiner (alike, so that `images`, which checks safety only,
  takes them as symmetric); another is about another job or an unknown id. Three
  deliveries in `stale` are a queue whose second waiter outlasts its timestamp.
* *Faults (`StoreFaults`), crashes, stops, restarts.* One of each reaches each failure
  branch; two reach the failure of the write that reports a failure, and a crash during
  recovery.
* *Attempts (`MaxAttempts`).* 2 webhook attempts for 5: the first, and the last with a
  backoff before it; the code distinguishes no others. Backoff lengths are not modelled.
  The ghosts `heard` and `unsure` are bounded by the stops: a process delivers once.
* *Settings (`MayAllow`).* `routes` checks the one under which an address can be
  forbidden. That a restart with the other one changes nothing is proved
  (`NeverWhereForbidden`, for any set of settings) and was too large for this run.
* *Bodies (`MaxBody`, `MaxDownload`).* In chunks; one is allowed and the second is one
  too many, the two sides of the limit.
* *Flaws (`Requests`).* None or one: the first check that fails ends the handler, so two
  flaws behave as the earlier of them. `FlawedNeverSubmits` is proved for any sets.
* *Time.* In `JobStore` 3 instants (ticks 0 to 2), 2 per second, expiry after 2: the clock
  is on a whole second, on a fraction, and on the whole second on which a first outcome
  expires, read before and at that instant; later outcomes do not expire within the run.
  Expiry on a fraction of a second is left to the proof (`TextIsTime`). A status write
  takes less than `result_ttl`. In `WebhookRoute` a tick is longer than a request may take, so a request
  that has its slot leaves before the second tick; `Tolerance` is 1 or 3 of them and an
  age above it is not told further apart. Elsewhere timeouts and expiries may strike at
  any moment.
* *Retries.* The client's 3, as in the code. A caller that calls again and again stands
  for any number of waits one after another; concurrent ones share nothing but the
  gateway.

### Fairness

Weak fairness only, in the runs marked fair: the event loop resumes a task that is ready
and its timers fire; a store call ends (SQLite's busy timeout, a thread that returns or
raises); a request ends (httpx's timeout).

* `JobLifecycle!FairSpec`: a provider is never assumed to return; one that cannot ignore
  its cancellation ends once cancelled, and `EveryJobSettles` names what it needs of one
  that can (`LetsGo`) and of the store.
* `FairHttpSpec`: the calls of `submit` step; no client need send its body.
* `FairRouteSpec`: the delivery's timers and store calls, the sweep, the shutdown; and
  whoever operates the gateway starts it again.
* `FairCommandSpec`: as `ClientWait`'s, the caller's own loop and time. Nothing is assumed
  of the gateway.

Where the runs say `CHECK_DEADLOCK FALSE`, the behaviour may end: every job is over,
every call has returned, the clock is at its last tick, the command has exited.

## 5. The proofs

Each theorem holds for every value of the constants that the named assumption of its
module allows: any number of jobs, calls and keys, any caps, faults, crashes and
restarts, unless it says otherwise. A safety property is proved in three steps: the
initial states have an invariant, every step keeps it, and it implies the property. The
invariants below are what the properties lack to be inductive.

**JobLifecycleProofs**, for both stores and every kind of provider. Its lemmas
`TaskMoves` and `CallMoves` sum up, once, what a step of a task or of a call may do to
the shared fields (`TaskMove`, `CallMove`); the invariants are then proved from the
summaries, not from the twenty actions.

* `TypeCorrect`. Lemmas say what the queue operators return.
* `WaitersAreServed` (`NoOrphanedWaiter`), `EntriesDoNotLeak` (`NoCancellingLeak`), by
  `ClaimInv`: the call that waits out the grace period or writes is the one
  `_cancelling` names and its future is pending; an entry names a call that is under
  way, or has succeeded while the run phase is not over; a joined future is settled or
  its owner is under way.
* `SlotsKept` (`SlotsConserved`), by `SlotInv`: free slots and holders add up to the cap,
  and a provider runs only while its job's task holds one. What a wake-up, a
  cancellation after it and the end of a run do to the waiters is `WokenOne` and its
  like: one waiter is woken, and the slot goes with it.
* `CancelStays` (`CancelSticks`), `CancelledStartsNothing` (`CancelledNeverStarts`), given
  `~EarlyCancel` (section 4, `early_cancel`, violates it). Over SQLite they hold because
  of the order of the store's queue: `BaseInv` says that whoever has a call out is in the
  queue, once (`QueueInv`), and `PromptInv` that a `cancel` about to write stands behind
  the task's own write, and that a task which has not reached its provider has met no
  call of `cancel` at all.
* `RefusalsTrue` (`RefusalIsTrue`), by `RefusalInv`: a call that reads the row while
  another is about to cancel it reads first, and so is not refused.
* `NobodyLeftBehind` (`NoJobLeftBehind`), given also that no provider raises CancelledError
  by itself (`self_cancel` violates it), by `LeftInv`: whatever stops a task has an entry
  in `_cancelling` behind it.

**JobLifecycleMemory** assumes `InMemory`: store calls do not give the loop away and do
not raise, and `cancel` comes after the task's first step; without it the theorems are
false (`overwritten`, `early_cancel`). `MemoryKeepsContract` (`KeepsContract`): every
behaviour implements `JobContract`; `MemoryOutcomesAreFinal` (`TerminalIsFinal`). The
invariant `MemoryInv` adds to `ClaimInv` that one store call is out at a time and, for
each job, that its record follows its task while nobody cancels it, that a cancel under
way found it unfinished, and that nothing is announced before it is terminal. Each action
has a lemma that it keeps this and is a step of the contract or a stutter.

**ProviderRunProofs.** `RunImplementsLifecycle` (`EndIsProviderEnds`: the step that ends
`run()` is one `JobLifecycle` allows a provider), and so all of the above with real
providers; `RunsKeepContract`. Then `ImagesWhole`, `NoLeaks`, `CountsMatch`, `RunTyped`, in
two layers. `ProvidedInv` is about `JobLifecycle` alone: which record a provider's end can
lead to, and that a recorded cancellation stays while the provider unwinds. `RunInv` adds
what a run holds at each stage (`Staged`), that an image or a thread is stopped only by a
`cancel` or the timer (`Stopped`), and the counts (`CountInv`): the cancelled runs that
were counted are some set of those that are gone, and the rest, cancelled before their
first step, are recorded as no error. `Timed` sets apart the jobs of `late`, for which the
record need not follow the run; nothing else about them differs.

**SubmitProofs.** Of `IdempotentSubmit`: `OneKeyOneJob` (`OneJobPerKey`), `AnswersTrue`
(`AnswersMatch`), `LocksExact` (`LocksCollected`), `SubmitTyped` (`TypeOK`). `TableInv`: the count of waiters is that of the calls
inside, and a key has a lock while it has any. `LockInv`: all of them have taken that
lock, and one at most is in the store; a lock the table forgot too early would break
this. `KeyInv`, which needs it: what the call in the store has found or written is still
what the key table says, or the key was evicted. `AnswerInv`: an answer is about a row of
that request. Which waiter a free lock lets in, and which key is the oldest, plays no
part in these. `LineInv`, for `SubmitTyped`: whoever waits for a lock stands in its line,
so that a release finds its first waiter, and the keys by age stay within the cap.

Of the handler: `HttpImplementsSubmit`. `FlawedNeverSubmits` (`RefusedLeavesNoTrace`), by
`DoorInv`: at each await of the handler only the flaws are possible whose check is yet to
come, and a call is in `submit` only behind its door. `AnswersHonest` (`AnswersAreHonest`):
a code other than 202 made no row and never will, one without a code may. `JobsCounted`
(`CountsEachJob`), by `CountInv`: the counter is the number of jobs made or being made in
this process, plus at most one per fault. `HttpTyped` (`HttpTypeOK`).

**WebhookDeliveryProofs**, all by `DeliveryInv`: `DeliveryTyped` (`TypeOK`), `DeliveredTrue`
(`DeliveredIsTrue`), `DuplicatesHaveReasons` (`DuplicatesExplained`), `OnlyExpiredPassedOver`
(`OnlyExpiredForgotten`), `SlotsExact` (`SlotsHeldByRequests`), `OutcomeFinal`
(`OutcomeIsFinal`). `Once`: a process delivers a job once, and only one without an outcome
that waits neither for the sweep nor for its announcement. `Explained`: every process
before this one accounts for one answer at most, and ended in a stop or a fault.
`LookInv`: from the listing on, a job whose result has not expired is looked after or
still to be swept.

**WebhookRouteProofs.** `RouteImplementsDelivery`. `NeverWhereForbidden`
(`ConnectsOnlyWhereAllowed`), by `RouteInv`: what was resolved for a request is allowed as
well, and a process that is down leaves no delivery and no connection to one with another
setting. `OnlyQueueingMakesStale` (`StaleOnlyIfQueued`), by `AgeInv`: a request yet to leave
that did not queue was signed in this tick or the one before; the tolerance must be a
tick (the code's timeout is 10 s, its tolerance 300 s). `RouteTyped` (`RouteTypeOK`).

**CommandLineProofs.** Of `ClientWait`: `OutcomeTrue`, `TimeoutTrue`, `BlipsTrue`,
`CallersAgreed`, by `ClientInv`: an answer under way tells something that stays true.
`GatewayInv` says that an outcome is recorded beside a cancellation only over SQLite and
that nothing but this cancellation follows it, `Onward` how the job may go on, and
`TruthLasts` that what can be told then stands (`ResultStands`, `FailureStands`,
`ExpiryStands`, `RefusalStands`): a result, for one, stands for as long as the job is
ready, and after that only because it was `Overwritten`. Then `CommandImplementsClient`, and `ExitTrue` (`ExitIsTrue`).

**JobStoreProofs**, for any rows, filters and limits and any resolution of the clock.

* `StoresAgreeAlways` (`StoresAgree`, which names the jobs with an empty `webhook_url`). `TextIsTime`: texts of timestamps are ordered as the
  instants, by Euclidean division, a whole second without its fraction included; so
  `_DISPLAY_STATUS_SQL` is `_apply_expiry` (`DisplaysAgree`) and both filters select the
  same jobs. The pages of both stores are pages by date alone, and two such pages have
  the same dates in the same places (`SameDates`): where they first differ, the jobs that
  are newer are too many for the places before, which is a pigeonhole. The sums of
  `stats()` are compared by a bijection (`GroupsAddUp`), for want of an induction.
* `TotalsTrue` (`TotalIsFromTheCall`), `PagesTrue` (`PageIsNewest`), `SlipsTrue`
  (`SlipsOnlyDuringTheCall`), `AnswersTrue` (`AnswersAreOfTheCall`). `TableInv` is `TypeOK`
  and, for each job, when it has its columns (`Row`); that while nobody cancels it only its
  run writes, one call at a time and none after an outcome (`Alone`); and that a call lands
  before what it records expires (`Lands`). From it, each writer's step leaves a job alone, inserts it or writes it (`Untouched`, `Inserted`,
  `Written`), or only the clock moves. `CallInv` says what a
  call may count on while they do. The statements judge a job by an instant that is past
  by then, the one at which the call was asked; so before they run, a job that passes by
  that instant (`MatchAt`) must have matched at some moment of the call, and one that has
  matched all along must pass. After, an outcome that was read is the job's still, or the job is
  being cancelled, and what it will be shown as was displayed, but for an expiry that was
  written over (`Snapshot`); the total counts a set between `Always` and `Ever`, and the page is
  full or misses no job of `Always`.
* `PagesExist`: there is a page for every listing, so no statement about all pages is
  empty.

Model-checked only:

* The liveness properties (`CancelReturns`, `EveryJobSettles`, `SubmitReturns`,
  `EveryOutcomeRecorded`, `WaitReturns`): the prover handles neither ENABLED nor fairness.

No module uses a RECURSIVE operator.

## 6. What is not modelled

* The filters of the listing, `/v1/capabilities`, `/health`, the wording of errors
  (except the cancellation's, which the code compares) and `serve`: parsing, rendering
  and wiring without state. `classify_poll_body` serves vendored copies only.
* JSON and row conversion, the schema migration and WAL; a second process on one
  database, which the documentation excludes.
* A task cancelled inside a store call: the gateway arranges never to do that
  (`_cancel_targets`), and `asyncio.to_thread` would leave the thread at work.
* A clock that steps back: keys age by order of arrival.
* The address ranges of `is_public_address`, the MAC of a signature and its two
  versions, the histogram buckets and the text of `/metrics`: functions of their input.
* What a third-party service, a toolkit function or a receiver computes.
* Exceptions, the package's re-exports and the release script have no behaviour of
  their own.
