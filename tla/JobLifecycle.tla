---------------------------- MODULE JobLifecycle ----------------------------
(***************************************************************************)
(* JobManager's run phase: one background task per job (_run, _execute)    *)
(* and any number of cancel() calls, interleaved on one asyncio loop.      *)
(*                                                                         *)
(* A task runs alone between two awaits, so one action is the code from    *)
(* one await to the next.  An await on the store is two actions: the call  *)
(* joins storeQueue, and the head of storeQueue returns.  SQLiteJobStore   *)
(* serialises its calls behind one FIFO asyncio.Lock and a worker thread,  *)
(* and other tasks run meanwhile (StoreYields); InMemoryJobStore never     *)
(* gives the loop away, so nothing else steps while its call is out.       *)
(*                                                                         *)
(* A name X_Variant is X with a plausible fault in it; no action uses one. *)
(***************************************************************************)
EXTENDS Naturals, Sequences, FiniteSets

CONSTANTS
  Jobs,                   \* job ids, each submitted at most once
  Callers,                \* calls of cancel(), each made at most once
  About,                  \* About[c]: the job_id call c is made with
  NoCaller,               \* no entry in _cancelling
  Unissued,               \* ids no submit() ever returns
  Hooked,                 \* the jobs submitted with a webhook_url
  SlotCap,                \* max_concurrent_jobs, 0 for None
  StoreYields,            \* TRUE: SQLiteJobStore, FALSE: InMemoryJobStore
  StoreFaults,            \* bound: store calls that may raise
  EarlyCancel,            \* cancel() may arrive before the task's first step
  Patience,               \* {TRUE}: grace_seconds > 0, FALSE \in: also 0
  JobTimeout,             \* job_timeout is set
  Habits                  \* how providers may misbehave, see below

(* "selfcancels": run() raises CancelledError that nobody asked for.        *)
(* "ignores": run() may swallow the CancelledError it was sent.             *)
AllHabits == {"selfcancels", "ignores"}

ASSUME ConstantsAssumption ==
  /\ Callers \cap Jobs = {}
  /\ About \in [Callers -> Jobs]
  /\ NoCaller \notin Callers
  /\ Unissued \subseteq Jobs
  /\ Hooked \subseteq Jobs
  /\ SlotCap \in Nat
  /\ StoreYields \in BOOLEAN
  /\ StoreFaults \in Nat
  /\ EarlyCancel \in BOOLEAN
  /\ Patience \subseteq BOOLEAN
  /\ JobTimeout \in BOOLEAN
  /\ Habits \subseteq AllHabits

VARIABLES
  stored,        \* [Jobs -> Status] the record's status in the store
  webhooks,      \* [Jobs -> Seq(Terminal)] records handed to _deliver_webhook
  task,          \* [Jobs -> TaskState] where _run is suspended
  verdict,       \* [Jobs -> {"ready", "error"}] what "recording" will write
  provider,      \* [Jobs -> ProviderState] the task of provider.run()
  activeJobs,    \* _active_jobs: jobs whose run phase is not over
  cancelTargets, \* [Jobs -> Target] _cancel_targets
  cancelling,    \* [Jobs -> Callers or NoCaller] _cancelling
  freeSlots,     \* _job_slots._value
  slotWaiters,   \* Seq(Jobs) _job_slots._waiters
  storeQueue,    \* Seq(Jobs \cup Callers) calls waiting for the store
  faults,        \* store calls that have raised so far
  caller,        \* [Callers -> CallerState] where cancel() is suspended
  future,        \* [Callers -> FutureState] the future the call created
  joined,        \* [Callers -> Callers or NoCaller] the future it shields
  reply          \* [Callers -> Reply] how the call returned

storeVars == <<stored, storeQueue, faults>>
taskVars == <<task, verdict, provider, activeJobs, cancelTargets>>
slotVars == <<freeSlots, slotWaiters>>
callVars == <<caller, future, joined, reply>>
vars == <<stored, webhooks, task, verdict, provider, activeJobs, cancelTargets,
          cancelling, freeSlots, slotWaiters, storeQueue, faults, caller,
          future, joined, reply>>

Terminal == {"ready", "error", "cancelled"}
Unfinished == {"pending", "processing"}
Status == {"absent"} \cup Unfinished \cup Terminal

(* Where _run is suspended:                                                 *)
(*   scheduled  created, first step still to come                           *)
(*   queued     awaiting _job_slots.acquire()                               *)
(*   granted    its acquire was woken with a slot, not resumed yet          *)
(*   dropped    its acquire was cancelled while queued, not resumed yet     *)
(*   returning  its acquire was cancelled after the slot was granted        *)
(*   marking    update_status(PROCESSING)                                   *)
(*   providing  awaiting the provider's task                                *)
(*   unwinding  wait_for timed out, cancelled the provider and awaits it    *)
(*   expired    wait_for's timer struck after the provider's task had ended *)
(*   recording  update_status(READY or ERROR)                               *)
(*   failing    update_status(ERROR, "internal error") of the outer except  *)
InLine == {"queued", "granted", "dropped", "returning"}
Awaiting == {"providing", "unwinding", "expired"}
HoldsSlot == {"granted", "returning", "marking", "recording"} \cup Awaiting
InStore == {"marking", "recording", "failing"}
TaskState == {"none", "scheduled", "ended"} \cup InLine \cup HoldsSlot \cup InStore

Calling == {"running", "asked"}       \* asked: cancelled, still unwinding
ProviderState == {"none", "result", "raised", "gone"} \cup Calling
CallerState == {"idle", "joining", "getting", "grace", "writing", "returned"}
FutureState == {"none", "pending", "result", "exception"}
Reply == {"none", "cancelled", "conflict", "notfound", "failed"}

-----------------------------------------------------------------------------
Init ==
  /\ stored = [j \in Jobs |-> "absent"]
  /\ webhooks = [j \in Jobs |-> << >>]
  /\ task = [j \in Jobs |-> "none"]
  /\ verdict = [j \in Jobs |-> "error"]
  /\ provider = [j \in Jobs |-> "none"]
  /\ activeJobs = {}
  /\ cancelTargets = [j \in Jobs |-> "none"]
  /\ cancelling = [j \in Jobs |-> NoCaller]
  /\ freeSlots = SlotCap
  /\ slotWaiters = << >>
  /\ storeQueue = << >>
  /\ faults = 0
  /\ caller = [c \in Callers |-> "idle"]
  /\ future = [c \in Callers |-> "none"]
  /\ joined = [c \in Callers |-> NoCaller]
  /\ reply = [c \in Callers |-> "none"]

(* An in-memory store call runs from issue to return without giving the    *)
(* loop away: while one is out, only its return may step.                   *)
LoopFree == StoreYields \/ storeQueue = << >>

(* Whether the call of actor a is the one the store returns next.           *)
StoreReturns(a) == storeQueue # << >> /\ Head(storeQueue) = a

(* A store call of actor a raises; `landed` says whether its UPDATE had     *)
(* committed (the SELECT after it is a statement of its own).               *)
StoreRaises(a) ==
  /\ StoreReturns(a)
  /\ faults < StoreFaults
  /\ faults' = faults + 1

Announce_RecordReadBefore(j, s) ==
  webhooks' = IF j \in Hooked THEN [webhooks EXCEPT ![j] = Append(@, stored[j])] ELSE webhooks

Announce(j, s) ==
  webhooks' = IF j \in Hooked THEN [webhooks EXCEPT ![j] = Append(@, s)] ELSE webhooks

BeingCancelled(j) == cancelling[j] # NoCaller
Settled(f) == f \in {"result", "exception"}

-----------------------------------------------------------------------------
(* asyncio.Semaphore, as _job_slots uses it (CPython 3.11).                 *)

Locked == freeSlots = 0 \/ \E i \in DOMAIN slotWaiters : task[slotWaiters[i]] # "dropped"

(* _wake_up_next: the first waiter whose future is still pending, if any.   *)
FirstQueued(st) ==
  {slotWaiters[i] : i \in {k \in DOMAIN slotWaiters :
       /\ st[slotWaiters[k]] = "queued"
       /\ \A m \in 1 .. k - 1 : st[slotWaiters[m]] # "queued"}}

(* `st` is the tasks' state after the step, before anybody is woken; n the  *)
(* slots free at that moment.                                               *)
WakeNext(st, n) ==
  LET woken == FirstQueued(st) IN
  /\ task' = [k \in Jobs |-> IF k \in woken THEN "granted" ELSE st[k]]
  /\ freeSlots' = IF woken = {} THEN n ELSE n - 1

ReleaseSlot_LeakedByStoreFault(st) ==
  IF SlotCap > 0 /\ ~(\E j \in Jobs : st[j] = "failing" /\ task[j] # "failing")
    THEN WakeNext(st, freeSlots + 1)
    ELSE task' = st /\ UNCHANGED freeSlots

ReleaseSlot_WakesNobody(st) ==
  task' = st /\ freeSlots' = IF SlotCap > 0 THEN freeSlots + 1 ELSE freeSlots

ReleaseSlot(st) == IF SlotCap > 0 THEN WakeNext(st, freeSlots + 1)
                                  ELSE task' = st /\ UNCHANGED freeSlots

LeaveLine(j) == \E i \in DOMAIN slotWaiters :
  /\ slotWaiters[i] = j
  /\ slotWaiters' = SubSeq(slotWaiters, 1, i - 1)
                      \o SubSeq(slotWaiters, i + 1, Len(slotWaiters))

-----------------------------------------------------------------------------
(* submit(), from the return of store.create to its own return: _schedule   *)
(* registers the job before its task exists.  Nothing awaits in between,    *)
(* and the store's lock is held until then, so nobody reads the row first.  *)
Submit(j) ==
  /\ LoopFree
  /\ stored[j] = "absent" /\ j \notin Unissued
  /\ stored' = [stored EXCEPT ![j] = "pending"]
  /\ activeJobs' = activeJobs \cup {j}
  /\ task' = [task EXCEPT ![j] = "scheduled"]
  /\ UNCHANGED <<webhooks, verdict, provider, cancelTargets, cancelling,
                 slotVars, storeQueue, faults, callVars>>

(* The job's last step of _run that may still be cancelled is over: leave   *)
(* _active_jobs (waking a cancel() in its grace period) and drop an entry   *)
(* of _cancelling whose outcome is already recorded.                        *)
EndRunPhase_DropsPending(j) ==
  /\ activeJobs' = activeJobs \ {j}
  /\ cancelling' = [cancelling EXCEPT ![j] = NoCaller]

EndRunPhase_KeepsEntry(j) ==
  /\ activeJobs' = activeJobs \ {j}
  /\ UNCHANGED cancelling

EndRunPhase(j) ==
  /\ activeJobs' = activeJobs \ {j}
  /\ cancelling' = IF BeingCancelled(j) /\ Settled(future[cancelling[j]])
                     THEN [cancelling EXCEPT ![j] = NoCaller]
                     ELSE cancelling

(* The task's first step.  Without a cap, or with a slot free, acquire()    *)
(* does not await, and the PROCESSING write is issued in the same step.     *)
Begin(j) ==
  /\ LoopFree
  /\ task[j] = "scheduled"
  /\ IF SlotCap > 0 /\ Locked
       THEN /\ task' = [task EXCEPT ![j] = "queued"]
            /\ slotWaiters' = Append(slotWaiters, j)
            /\ cancelTargets' = [cancelTargets EXCEPT ![j] = "slotwait"]
            /\ UNCHANGED <<freeSlots, storeQueue>>
       ELSE /\ task' = [task EXCEPT ![j] = "marking"]
            /\ freeSlots' = IF SlotCap > 0 THEN freeSlots - 1 ELSE freeSlots
            /\ storeQueue' = Append(storeQueue, j)
            /\ UNCHANGED <<slotWaiters, cancelTargets>>
  /\ UNCHANGED <<stored, webhooks, verdict, provider, activeJobs, cancelling,
                 faults, callVars>>

(* acquire() returns with the slot it was granted; if more are free it      *)
(* passes the wake-up on.  The job is no longer cancellable by its task.    *)
TakeSlot(j) ==
  /\ LoopFree
  /\ task[j] = "granted"
  /\ LeaveLine(j)
  /\ LET st == [task EXCEPT ![j] = "marking"] IN
       IF freeSlots > 0 THEN WakeNext(st, freeSlots)
                        ELSE task' = st /\ UNCHANGED freeSlots
  /\ cancelTargets' = [cancelTargets EXCEPT ![j] = "none"]
  /\ storeQueue' = Append(storeQueue, j)
  /\ UNCHANGED <<stored, webhooks, verdict, provider, activeJobs, cancelling,
                 faults, callVars>>

(* acquire() raises CancelledError: a slot already granted is given back.   *)
GivesBack(j) == task[j] = "returning"

LeaveSlotWait(j) ==
  /\ LoopFree
  /\ task[j] \in {"dropped", "returning"}
  /\ LeaveLine(j)
  /\ LET st == [task EXCEPT ![j] = "ended"] IN
       IF GivesBack(j) THEN WakeNext(st, freeSlots + 1)
                                ELSE task' = st /\ UNCHANGED freeSlots
  /\ cancelTargets' = [cancelTargets EXCEPT ![j] = "none"]
  /\ EndRunPhase(j)
  /\ UNCHANGED <<storeVars, webhooks, verdict, provider, callVars>>

(* update_status(PROCESSING) returns.  A job cancelled meanwhile never      *)
(* starts its provider; otherwise the provider's task is created.           *)
StopsBeforeProvider_NoRecheck(j) == BeingCancelled(j) /\ Settled(future[cancelling[j]])

StopsBeforeProvider(j) == BeingCancelled(j)

Marked(j) ==
  /\ task[j] = "marking"
  /\ StoreReturns(j)
  /\ storeQueue' = Tail(storeQueue)
  /\ stored' = [stored EXCEPT ![j] = "processing"]
  /\ IF StopsBeforeProvider(j)
       THEN /\ ReleaseSlot([task EXCEPT ![j] = "ended"])
            /\ EndRunPhase(j)
            /\ UNCHANGED <<provider, cancelTargets>>
       ELSE /\ task' = [task EXCEPT ![j] = "providing"]
            /\ provider' = [provider EXCEPT ![j] = "running"]
            /\ cancelTargets' = [cancelTargets EXCEPT ![j] = "provider"]
            /\ UNCHANGED <<freeSlots, activeJobs, cancelling>>
  /\ UNCHANGED <<webhooks, verdict, slotWaiters, faults, callVars>>

(* provider.run() ends by itself, or in answer to being cancelled.          *)
ProviderEnds(j) ==
  /\ LoopFree
  /\ \E how \in {"result", "raised", "gone"} :
       /\ \/ provider[j] = "running"
             /\ (how = "gone" => "selfcancels" \in Habits)
          \/ provider[j] = "asked"
             /\ (how # "gone" => "ignores" \in Habits)
       /\ provider' = [provider EXCEPT ![j] = how]
  /\ UNCHANGED <<storeVars, webhooks, task, verdict, activeJobs, cancelTargets,
                 cancelling, slotVars, callVars>>

(* wait_for's timer.  A provider still at it is cancelled and awaited to    *)
(* its end.  One whose task has just ended is not asked any more, but since *)
(* CPython 3.12 wait_for raises TimeoutError all the same, whatever the     *)
(* provider came to; 3.11 looks at the task first, so the timer is as if it *)
(* had not struck.                                                          *)
JobTimesOut(j) ==
  /\ LoopFree
  /\ JobTimeout
  /\ task[j] = "providing"
  /\ \/ /\ provider[j] \in Calling
        /\ task' = [task EXCEPT ![j] = "unwinding"]
        /\ provider' = [provider EXCEPT ![j] = "asked"]
     \/ /\ provider[j] \notin Calling
        /\ task' = [task EXCEPT ![j] = "expired"]
        /\ UNCHANGED provider
  /\ UNCHANGED <<storeVars, webhooks, verdict, activeJobs, cancelTargets,
                 cancelling, slotVars, callVars>>

(* The await on the provider ends.  A job being cancelled records nothing;  *)
(* a CancelledError from neither cancel() nor the timer leaves _run; every   *)
(* other outcome is written.                                                *)
Discarded_OnlyIfStopped(j) == BeingCancelled(j) /\ provider[j] = "gone"

Discarded(j) == BeingCancelled(j)

Escapes(j) == provider[j] = "gone" /\ task[j] = "providing"

Outlasts(j) == provider[j] = "result" /\ task[j] # "expired"

ProviderReturns(j) ==
  /\ LoopFree
  /\ task[j] \in Awaiting
  /\ provider[j] \in {"result", "raised", "gone"}
  /\ cancelTargets' = [cancelTargets EXCEPT ![j] = "none"]
  /\ IF Discarded(j) \/ Escapes(j)
       THEN /\ ReleaseSlot([task EXCEPT ![j] = "ended"])
            /\ EndRunPhase(j)
            /\ UNCHANGED <<verdict, storeQueue>>
       ELSE /\ task' = [task EXCEPT ![j] = "recording"]
            /\ verdict' = [verdict EXCEPT ![j] = IF Outlasts(j) THEN "ready" ELSE "error"]
            /\ storeQueue' = Append(storeQueue, j)
            /\ UNCHANGED <<freeSlots, activeJobs, cancelling>>
  /\ UNCHANGED <<stored, webhooks, provider, slotWaiters, faults, callVars>>

(* update_status(READY or ERROR) returns; the record goes to its webhook.   *)
Recorded(j) ==
  /\ task[j] = "recording"
  /\ StoreReturns(j)
  /\ storeQueue' = Tail(storeQueue)
  /\ stored' = [stored EXCEPT ![j] = verdict[j]]
  /\ ReleaseSlot([task EXCEPT ![j] = "ended"])
  /\ EndRunPhase(j)
  /\ Announce(j, verdict[j])
  /\ UNCHANGED <<verdict, provider, cancelTargets, slotWaiters, faults, callVars>>

(* A status write raises: the run phase ends, then the outer except issues  *)
(* one last write.                                                          *)
WriteRaises(j) ==
  /\ task[j] \in {"marking", "recording"}
  /\ StoreRaises(j)
  /\ \E landed \in BOOLEAN :
       stored' = IF landed
                   THEN [stored EXCEPT ![j] = IF task[j] = "marking" THEN "processing" ELSE verdict[j]]
                   ELSE stored
  /\ ReleaseSlot([task EXCEPT ![j] = "failing"])
  /\ EndRunPhase(j)
  /\ storeQueue' = Append(Tail(storeQueue), j)
  /\ UNCHANGED <<webhooks, verdict, provider, cancelTargets, slotWaiters, callVars>>

(* The internal-error write returns, or raises too and is given up.         *)
FailureRecorded(j) ==
  /\ task[j] = "failing"
  /\ StoreReturns(j)
  /\ storeQueue' = Tail(storeQueue)
  /\ stored' = [stored EXCEPT ![j] = "error"]
  /\ task' = [task EXCEPT ![j] = "ended"]
  /\ Announce(j, "error")
  /\ UNCHANGED <<verdict, provider, activeJobs, cancelTargets, cancelling,
                 slotVars, faults, callVars>>

FailureLost(j) ==
  /\ task[j] = "failing"
  /\ StoreRaises(j)
  /\ storeQueue' = Tail(storeQueue)
  /\ \E landed \in BOOLEAN :
       stored' = IF landed THEN [stored EXCEPT ![j] = "error"] ELSE stored
  /\ task' = [task EXCEPT ![j] = "ended"]
  /\ UNCHANGED <<webhooks, verdict, provider, activeJobs, cancelTargets,
                 cancelling, slotVars, callVars>>

-----------------------------------------------------------------------------
(* target.cancel().  A slot wait is woken with CancelledError; one already  *)
(* granted its slot is thrown it instead of resuming; a provider's task is  *)
(* cancelled unless it has ended; without a target nothing is cancelled.    *)
AfterCancel(t) == CASE t = "queued" -> "dropped"
                    [] t = "granted" -> "returning"
                    [] OTHER -> t

CancelTarget(j) ==
  /\ task' = IF cancelTargets[j] = "slotwait"
               THEN [task EXCEPT ![j] = AfterCancel(@)] ELSE task
  /\ provider' = IF cancelTargets[j] = "provider" /\ provider[j] = "running"
                   THEN [provider EXCEPT ![j] = "asked"] ELSE provider

(* cancel() claims the job: its future is what later calls wait for.        *)
Claim(c) == /\ future' = [future EXCEPT ![c] = "pending"]
            /\ cancelling' = [cancelling EXCEPT ![About[c]] = c]
            /\ CancelTarget(About[c])

Join(c) == /\ caller' = [caller EXCEPT ![c] = "joining"]
           /\ joined' = [joined EXCEPT ![c] = cancelling[About[c]]]

(* An id is known once submit() has returned it: over HTTP that is after    *)
(* the task's first step, in process it may be before.                      *)
Known(j) == j \in Unissued \/ (stored[j] # "absent" /\ (EarlyCancel \/ task[j] # "scheduled"))

(* A cancel() of the job is under way or its outcome is still held.         *)
InFlight_OnlyIfActive(j) == BeingCancelled(j) /\ j \in activeJobs

InFlight(j) == BeingCancelled(j)

(* cancel() up to its first await: join a cancellation under way, claim a   *)
(* job of this process, or look the job up.                                 *)
Cancel(c) ==
  LET j == About[c] IN
  /\ LoopFree
  /\ caller[c] = "idle"
  /\ Known(j)
  /\ \/ /\ InFlight(j)
        /\ Join(c)
        /\ UNCHANGED <<task, provider, cancelling, storeQueue, future>>
     \/ /\ ~InFlight(j) /\ j \in activeJobs
        /\ Claim(c)
        /\ \E patient \in Patience :
             /\ caller' = [caller EXCEPT ![c] = IF patient THEN "grace" ELSE "writing"]
             /\ storeQueue' = IF patient THEN storeQueue ELSE Append(storeQueue, c)
        /\ UNCHANGED joined
     \/ /\ ~InFlight(j) /\ j \notin activeJobs
        /\ caller' = [caller EXCEPT ![c] = "getting"]
        /\ storeQueue' = Append(storeQueue, c)
        /\ UNCHANGED <<task, provider, cancelling, future, joined>>
  /\ UNCHANGED <<stored, webhooks, verdict, activeJobs, cancelTargets, slotVars,
                 faults, reply>>

Resolve_SuccessOnly(c, how) ==
  future' = IF how = "result" THEN [future EXCEPT ![c] = how] ELSE future

Resolve(c, how) == future' = [future EXCEPT ![c] = how]

Return(c, r) == /\ caller' = [caller EXCEPT ![c] = "returned"]
                /\ reply' = [reply EXCEPT ![c] = r]

(* store.get returns to a cancel() of a job nothing in this process runs.   *)
(* A row that reads unfinished is claimed, without a grace period, unless a *)
(* concurrent cancel() has claimed it; any other row answers the call.  A   *)
(* terminal row whose TTL has passed reads "expired", cancelled or not.     *)
LookedUp(c) ==
  LET j == About[c] IN
  /\ caller[c] = "getting"
  /\ StoreReturns(c)
  /\ \/ /\ stored[j] \in Unfinished /\ BeingCancelled(j)
        /\ Join(c)
        /\ storeQueue' = Tail(storeQueue)
        /\ UNCHANGED <<task, provider, cancelling, future, reply>>
     \/ /\ stored[j] \in Unfinished /\ ~BeingCancelled(j)
        /\ Claim(c)
        /\ caller' = [caller EXCEPT ![c] = "writing"]
        /\ storeQueue' = Append(Tail(storeQueue), c)
        /\ UNCHANGED <<joined, reply>>
     \/ /\ stored[j] \notin Unfinished
        /\ \/ stored[j] = "absent" /\ Return(c, "notfound")
           \/ stored[j] = "cancelled" /\ Return(c, "cancelled")
           \/ stored[j] \in Terminal /\ Return(c, "conflict")
        /\ storeQueue' = Tail(storeQueue)
        /\ UNCHANGED <<task, provider, cancelling, future, joined>>
  /\ UNCHANGED <<stored, webhooks, verdict, activeJobs, cancelTargets, slotVars,
                 faults>>

LookUpRaises(c) ==
  /\ caller[c] = "getting"
  /\ StoreRaises(c)
  /\ storeQueue' = Tail(storeQueue)
  /\ Return(c, "failed")
  /\ UNCHANGED <<stored, webhooks, taskVars, cancelling, slotVars, future, joined>>

(* The grace period ends because the run phase did or because time ran out: *)
(* either way the cancelled record is written.  The timer cannot overtake a *)
(* step that was already on the loop's ready list when it was armed.        *)
Ready == {"scheduled", "dropped", "returning"}

GraceEnds(c) ==
  /\ LoopFree
  /\ caller[c] = "grace"
  /\ About[c] \notin activeJobs \/ task[About[c]] \notin Ready
  /\ caller' = [caller EXCEPT ![c] = "writing"]
  /\ storeQueue' = Append(storeQueue, c)
  /\ UNCHANGED <<stored, faults, webhooks, taskVars, cancelling, slotVars,
                 future, joined, reply>>

(* update_status(ERROR, CANCELLED_ERROR) returns: resolve the future, drop  *)
(* the entry if the run phase is over, fire the webhook.                    *)
CancelRecorded(c) ==
  LET j == About[c] IN
  /\ caller[c] = "writing"
  /\ StoreReturns(c)
  /\ storeQueue' = Tail(storeQueue)
  /\ stored' = [stored EXCEPT ![j] = "cancelled"]
  /\ Resolve(c, "result")
  /\ cancelling' = IF j \in activeJobs THEN cancelling
                                       ELSE [cancelling EXCEPT ![j] = NoCaller]
  /\ Announce(j, "cancelled")
  /\ Return(c, "cancelled")
  /\ UNCHANGED <<taskVars, slotVars, faults, joined>>

(* That write raises: nobody may be left waiting on the future.             *)
CancelWriteRaises(c) ==
  LET j == About[c] IN
  /\ caller[c] = "writing"
  /\ StoreRaises(c)
  /\ storeQueue' = Tail(storeQueue)
  /\ \E landed \in BOOLEAN :
       stored' = IF landed THEN [stored EXCEPT ![j] = "cancelled"] ELSE stored
  /\ Resolve(c, "exception")
  /\ cancelling' = [cancelling EXCEPT ![j] = NoCaller]
  /\ Return(c, "failed")
  /\ UNCHANGED <<webhooks, taskVars, slotVars, joined>>

(* The shielded future resolves: the second call returns what it holds.     *)
JoinReturns(c) ==
  /\ LoopFree
  /\ caller[c] = "joining"
  /\ Settled(future[joined[c]])
  /\ Return(c, IF future[joined[c]] = "result" THEN "cancelled" ELSE "failed")
  /\ UNCHANGED <<storeVars, webhooks, taskVars, cancelling, slotVars, future, joined>>

-----------------------------------------------------------------------------
TaskStep(j) ==
  \/ Begin(j) \/ TakeSlot(j) \/ LeaveSlotWait(j) \/ Marked(j) \/ ProviderReturns(j)
  \/ Recorded(j) \/ WriteRaises(j) \/ FailureRecorded(j) \/ FailureLost(j)

CallerStep(c) ==
  \/ LookedUp(c) \/ LookUpRaises(c) \/ GraceEnds(c) \/ CancelRecorded(c)
  \/ CancelWriteRaises(c) \/ JoinReturns(c)

Next ==
  \/ \E j \in Jobs : Submit(j) \/ TaskStep(j) \/ ProviderEnds(j) \/ JobTimesOut(j)
  \/ \E c \in Callers : Cancel(c) \/ CallerStep(c)

Spec == Init /\ [][Next]_vars

-----------------------------------------------------------------------------
(* The loop runs every task that is ready and every timer that is due, and  *)
(* the store returns.  A provider need not ever return by itself, but one   *)
(* that does not ignore CancelledError ends once it is cancelled.           *)
Fairness ==
  /\ \A j \in Jobs : /\ WF_vars(TaskStep(j))
                     /\ WF_vars(JobTimesOut(j))
                     /\ WF_vars("ignores" \notin Habits /\ provider[j] = "asked" /\ ProviderEnds(j))
  /\ \A c \in Callers : WF_vars(CallerStep(c))

FairSpec == Spec /\ Fairness

-----------------------------------------------------------------------------
(* Every variable has its type.                                             *)
TypeOK ==
  /\ stored \in [Jobs -> Status]
  /\ webhooks \in [Jobs -> Seq(Terminal)]
  /\ task \in [Jobs -> TaskState]
  /\ verdict \in [Jobs -> {"ready", "error"}]
  /\ provider \in [Jobs -> ProviderState]
  /\ activeJobs \subseteq Jobs
  /\ cancelTargets \in [Jobs -> {"none", "slotwait", "provider"}]
  /\ cancelling \in [Jobs -> Callers \cup {NoCaller}]
  /\ freeSlots \in Nat
  /\ slotWaiters \in Seq(Jobs)
  /\ storeQueue \in Seq(Jobs \cup Callers)
  /\ faults \in 0 .. StoreFaults
  /\ caller \in [Callers -> CallerState]
  /\ future \in [Callers -> FutureState]
  /\ joined \in [Callers -> Callers \cup {NoCaller}]
  /\ reply \in [Callers -> Reply]

(* The manager keeps the gateway's promise: pending, processing, then one   *)
(* terminal status that is never replaced and that is announced once.       *)
Contract == INSTANCE JobContract WITH
  Jobs <- Jobs, Hooked <- Hooked, stored <- stored, webhooks <- webhooks
KeepsContract == Contract!Spec

(* A finished job's outcome is final: no write replaces a terminal status.  *)
TerminalIsFinal ==
  [][\A j \in Jobs : stored[j] \in Terminal => stored'[j] = stored[j]]_vars

(* Once cancel() has returned the cancelled record, the record stays so: no *)
(* provider that lets go late and no write in flight replaces it.  Only the *)
(* internal-error write after a store call that raised does.                *)
CancelSticks ==
  faults = 0 =>
    \A c \in Callers : reply[c] = "cancelled" => stored[About[c]] = "cancelled"

(* A call refused with JobNotCancellableError spoke the truth: while the    *)
(* store answers, that job's record never changes again, whatever other     *)
(* cancel() calls are under way.                                            *)
RefusalIsTrue ==
  [][faults' = 0 => \A c \in Callers : reply[c] = "conflict" =>
       stored[About[c]] \in Terminal /\ stored'[About[c]] = stored[About[c]]]_vars

(* A cancel() that found the job before its provider started prevents the   *)
(* start: no provider call begins while one is under way or after one has   *)
(* returned the cancelled record.                                           *)
CancelledNeverStarts ==
  [][\A j \in Jobs : provider[j] = "none" /\ provider'[j] # "none" =>
       \A c \in Callers : About[c] = j =>
         caller[c] \notin {"grace", "writing", "joining"} /\ reply[c] # "cancelled"]_vars

(* While the store answers, the task of _run does not leave a job           *)
(* unfinished behind: when it ends, the record is terminal or a cancel() is *)
(* about to make it so.                                                     *)
NoJobLeftBehind ==
  faults = 0 =>
    \A j \in Jobs : task[j] = "ended" => stored[j] \in Terminal \/ BeingCancelled(j)

(* Job slots are conserved through every way out of the run phase, so that  *)
(* no more providers run than max_concurrent_jobs, those that linger past   *)
(* their cancellation included.                                             *)
SlotsConserved ==
  SlotCap > 0 =>
    /\ freeSlots + Cardinality({j \in Jobs : task[j] \in HoldsSlot}) = SlotCap
    /\ Cardinality({j \in Jobs : provider[j] \in Calling}) <= SlotCap

(* _cancelling does not leak: an entry belongs to a cancel() still under    *)
(* way, or to a job whose run phase will drop it.                           *)
NoCancellingLeak ==
  \A j \in Jobs : BeingCancelled(j) =>
    \/ j \in activeJobs
    \/ future[cancelling[j]] = "pending" /\ caller[cancelling[j]] \in {"grace", "writing"}

(* Nobody waits on a future no one will resolve.                            *)
NoOrphanedWaiter ==
  \A c \in Callers : caller[c] = "joining" =>
    \/ Settled(future[joined[c]])
    \/ cancelling[About[c]] = joined[c] /\ caller[joined[c]] \in {"grace", "writing"}

(* Every cancel() returns, even for a provider that never lets go: no call  *)
(* is under way for ever.                                                   *)
CancelReturns ==
  \A c \in Callers : []<>(caller[c] \in {"idle", "returned"})

(* With a job timeout every submitted job reaches a terminal status, even   *)
(* if its provider would never return by itself: what it takes is that a    *)
(* provider which was cancelled ends, and that no store call raises.        *)
LetsGo(j) == []<>(provider[j] # "asked")

EveryJobSettles ==
  [](faults = 0) /\ (\A j \in Jobs : LetsGo(j))
    => \A j \in Jobs : task[j] = "scheduled" ~> stored[j] \in Terminal

=============================================================================
