------------------------- MODULE JobLifecycleMemory -------------------------
(***************************************************************************)
(* Over an InMemoryJobStore, with cancel() calls that arrive after the     *)
(* task's first step (every call over HTTP does), the manager keeps the    *)
(* contract: proved for every set of jobs and calls, every slot cap, grace *)
(* period, job timeout and provider.                                       *)
(***************************************************************************)
EXTENDS JobLifecycleProofs

(* A store whose calls neither give the loop away nor raise.                *)
InMemory == ~StoreYields /\ StoreFaults = 0 /\ ~EarlyCancel

(* At most one store call is out, and it is the call of whoever is in one;  *)
(* while cancel() looks a job up, nothing can start that job.               *)
OneCallAtATime ==
  /\ storeQueue = << >> \/ \E a \in Jobs \cup Callers : storeQueue = <<a>>
  /\ \A j \in Jobs : task[j] \in InStore => storeQueue = <<j>>
  /\ \A c \in Callers : caller[c] \in {"getting", "writing"} => storeQueue = <<c>>
  /\ \A c \in Callers : caller[c] = "getting" => About[c] \notin activeJobs

(* While nobody cancels a job its record follows its task; a job being      *)
(* cancelled has left the slot queue and will record nothing.               *)
RecordFollowsTask(j) ==
  /\ task[j] # "failing"
  /\ task[j] = "none" <=> stored[j] = "absent"
  /\ j \in Unissued => task[j] = "none"
  /\ task[j] \in {"none", "ended"} <=> j \notin activeJobs
  /\ task[j] \in {"scheduled", "queued", "granted", "marking"} =>
       stored[j] = "pending" /\ ~BeingCancelled(j)
  /\ task[j] \in {"queued", "granted"} => cancelTargets[j] = "slotwait"
  /\ task[j] \in {"dropped", "returning"} => BeingCancelled(j)
  /\ task[j] = "recording" => stored[j] = "processing" /\ ~BeingCancelled(j)
  /\ task[j] \in Awaiting => BeingCancelled(j) \/ stored[j] = "processing"

(* A cancel() under way found its job unfinished, and nobody has finished   *)
(* it since.                                                                *)
CancelInTime(j) ==
  BeingCancelled(j) /\ UnderWay(cancelling[j]) => stored[j] \in Unfinished

(* Nothing is announced before the record is terminal.                      *)
SilentUntilTerminal(j) == stored[j] \notin Terminal => webhooks[j] = << >>

JobInv(j) == RecordFollowsTask(j) /\ CancelInTime(j) /\ SilentUntilTerminal(j)

MemoryInv == ClaimInv /\ OneCallAtATime /\ \A j \in Jobs : JobInv(j)

-----------------------------------------------------------------------------
(* Short queues.                                                            *)
LEMMA ShortQueues ==
  /\ \A a, b : Head(<<a>>) = a /\ Tail(<<a>>) = << >> /\ <<a>> # << >>
               /\ (<<a>> = <<b>> => a = b)
  /\ \A a : Append(<< >>, a) = <<a>>
OBVIOUS

(* A job none of whose state a step touches, other than being woken.        *)
LEMMA Bystander ==
  ASSUME MemoryInv, NEW k \in Jobs,
         task'[k] = task[k] \/ (task[k] = "queued" /\ task'[k] = "granted"),
         stored'[k] = stored[k], webhooks'[k] = webhooks[k],
         cancelling'[k] = cancelling[k], cancelTargets'[k] = cancelTargets[k],
         k \in activeJobs' <=> k \in activeJobs,
         BeingCancelled(k) /\ caller'[cancelling[k]] \in {"grace", "writing"} => UnderWay(cancelling[k])
  PROVE  JobInv(k)'
BY DEF MemoryInv, JobInv, RecordFollowsTask, Awaiting, CancelInTime, SilentUntilTerminal, BeingCancelled,
       UnderWay

(* A step of one task with no call out: it issues its call or none.         *)
LEMMA TaskCalls ==
  ASSUME OneCallAtATime, TypeOK, NEW j \in Jobs, storeQueue = << >>, UNCHANGED caller,
         \A k \in Jobs \ {j} : task'[k] \in InStore => task[k] \in InStore,
         \/ storeQueue' = << >> /\ task'[j] \notin InStore
         \/ storeQueue' = Append(storeQueue, j)
  PROVE  OneCallAtATime'
BY ShortQueues DEF OneCallAtATime

(* The return of a task's call.                                             *)
LEMMA TaskReturns ==
  ASSUME OneCallAtATime, TypeOK, NEW j \in Jobs, StoreReturns(j), UNCHANGED caller,
         storeQueue' = Tail(storeQueue),
         \A k \in Jobs \ {j} : task'[k] \in InStore => task[k] \in InStore,
         task'[j] \notin InStore
  PROVE  OneCallAtATime'
<1>1. storeQueue = <<j>>
  BY ShortQueues DEF OneCallAtATime, StoreReturns
<1>2. storeQueue' = << >>
  BY <1>1, ShortQueues
<1>3. \A k \in Jobs \ {j} : task[k] \notin InStore
  BY <1>1, ShortQueues DEF OneCallAtATime
<1>4. \A c \in Callers : caller[c] \notin {"getting", "writing"}
  BY <1>1, ShortQueues, ConstantsAssumption DEF OneCallAtATime
<1> QED
  BY <1>2, <1>3, <1>4 DEF OneCallAtATime

(* The same two for a cancel() call.                                        *)
LEMMA CallerCalls ==
  ASSUME OneCallAtATime, TypeOK, NEW c \in Callers, storeQueue = << >>,
         \A k \in Jobs : task'[k] \in InStore => task[k] \in InStore,
         \A d \in Callers \ {c} : caller'[d] = caller[d],
         caller'[c] = "getting" => About[c] \notin activeJobs',
         \/ storeQueue' = << >> /\ caller'[c] \notin {"getting", "writing"}
         \/ storeQueue' = Append(storeQueue, c)
  PROVE  OneCallAtATime'
BY ShortQueues DEF OneCallAtATime

LEMMA CallerReturns ==
  ASSUME OneCallAtATime, TypeOK, NEW c \in Callers, StoreReturns(c),
         \A k \in Jobs : task'[k] \in InStore => task[k] \in InStore,
         \A d \in Callers \ {c} : caller'[d] = caller[d], caller'[c] # "getting",
         \/ storeQueue' = Tail(storeQueue) /\ caller'[c] \notin {"getting", "writing"}
         \/ storeQueue' = Append(Tail(storeQueue), c)
  PROVE  OneCallAtATime'
<1>1. storeQueue = <<c>>
  BY ShortQueues DEF OneCallAtATime, StoreReturns
<1>2. \/ storeQueue' = << >> /\ caller'[c] \notin {"getting", "writing"}
      \/ storeQueue' = <<c>>
  BY <1>1, ShortQueues
<1>3. \A k \in Jobs : task[k] \notin InStore
  BY <1>1, ShortQueues, ConstantsAssumption DEF OneCallAtATime
<1>4. \A d \in Callers \ {c} : caller[d] \notin {"getting", "writing"}
  BY <1>1, ShortQueues DEF OneCallAtATime
<1> QED
  BY <1>2, <1>3, <1>4 DEF OneCallAtATime

-----------------------------------------------------------------------------
(* Every step keeps the invariant and is a step of the contract.            *)
ContractStep == Contract!Next \/ UNCHANGED Contract!vars

LEMMA QuietStep ==
  ASSUME UNCHANGED <<stored, webhooks>>
  PROVE  ContractStep
BY DEF ContractStep, Contract!vars

LEMMA SubmitStep ==
  ASSUME InMemory, MemoryInv, NEW j \in Jobs, Submit(j)
  PROVE  OneCallAtATime' /\ (\A k \in Jobs : JobInv(k)') /\ ContractStep
<1> USE DEF callVars, slotVars
<1>1. storeQueue = << >> /\ TypeOK
  BY DEF Submit, LoopFree, InMemory, MemoryInv, ClaimInv
<1>2. /\ task' = [task EXCEPT ![j] = "scheduled"]
      /\ stored' = [stored EXCEPT ![j] = "pending"]
      /\ activeJobs' = activeJobs \cup {j}
      /\ UNCHANGED <<webhooks, cancelling, cancelTargets, caller, storeQueue>>
      /\ stored[j] = "absent" /\ j \notin Unissued
  BY DEF Submit
<1>3. OneCallAtATime'
  BY <1>1, <1>2, TaskCalls DEF MemoryInv, TypeOK, InStore
<1>4. ASSUME NEW k \in Jobs, k # j PROVE JobInv(k)'
  BY <1>1, <1>2, <1>4, Bystander DEF TypeOK, UnderWay
<1>5. JobInv(j) /\ task[j] = "none"
  BY <1>2 DEF MemoryInv, JobInv, RecordFollowsTask, Awaiting
<1>6. ~BeingCancelled(j)
  BY <1>2, <1>5 DEF MemoryInv, ClaimInv, EntriesHaveOwners, BeingCancelled, JobInv, CancelInTime,
     RecordFollowsTask, Awaiting, Unfinished
<1>7. JobInv(j)'
  BY <1>1, <1>2, <1>5, <1>6 DEF JobInv, RecordFollowsTask, Awaiting, CancelInTime, SilentUntilTerminal,
     BeingCancelled, TypeOK, Terminal
<1>8. ContractStep
  BY <1>2 DEF ContractStep, Contract!Next, Contract!Create
<1> QED
  BY <1>3, <1>4, <1>7, <1>8

LEMMA BeginStep ==
  ASSUME InMemory, MemoryInv, NEW j \in Jobs, Begin(j)
  PROVE  OneCallAtATime' /\ (\A k \in Jobs : JobInv(k)') /\ ContractStep
<1> USE DEF callVars
<1>1. storeQueue = << >> /\ TypeOK
  BY DEF Begin, LoopFree, InMemory, MemoryInv, ClaimInv
<1>2. /\ task[j] = "scheduled"
      /\ \/ /\ task' = [task EXCEPT ![j] = "queued"]
            /\ cancelTargets' = [cancelTargets EXCEPT ![j] = "slotwait"]
            /\ storeQueue' = storeQueue
         \/ /\ task' = [task EXCEPT ![j] = "marking"]
            /\ cancelTargets' = cancelTargets
            /\ storeQueue' = Append(storeQueue, j)
      /\ UNCHANGED <<stored, webhooks, cancelling, activeJobs, caller>>
  BY DEF Begin
<1>3. OneCallAtATime'
  BY <1>1, <1>2, TaskCalls DEF MemoryInv, TypeOK, InStore
<1>4. ASSUME NEW k \in Jobs, k # j PROVE JobInv(k)'
  BY <1>1, <1>2, <1>4, Bystander DEF TypeOK, UnderWay
<1>5. JobInv(j)'
  BY <1>1, <1>2 DEF MemoryInv, JobInv, RecordFollowsTask, Awaiting, CancelInTime, SilentUntilTerminal,
     BeingCancelled, TypeOK
<1> QED
  BY <1>2, <1>3, <1>4, <1>5, QuietStep

LEMMA TakeSlotStep ==
  ASSUME InMemory, MemoryInv, NEW j \in Jobs, TakeSlot(j)
  PROVE  OneCallAtATime' /\ (\A k \in Jobs : JobInv(k)') /\ ContractStep
<1> USE DEF callVars
<1> DEFINE st == [task EXCEPT ![j] = "marking"]
<1>1. storeQueue = << >> /\ TypeOK
  BY DEF TakeSlot, LoopFree, InMemory, MemoryInv, ClaimInv
<1>2. /\ task[j] = "granted"
      /\ task' = st \/ WakeNext(st, freeSlots)
      /\ cancelTargets' = [cancelTargets EXCEPT ![j] = "none"]
      /\ storeQueue' = Append(storeQueue, j)
      /\ UNCHANGED <<stored, webhooks, cancelling, activeJobs, caller>>
  BY DEF TakeSlot
<1>3. \A k \in Jobs : task'[k] = st[k] \/ (st[k] = "queued" /\ task'[k] = "granted")
  BY <1>2, WakeMoves
<1>4. /\ task'[j] = "marking"
      /\ \A k \in Jobs \ {j} : task'[k] = task[k] \/ (task[k] = "queued" /\ task'[k] = "granted")
  BY <1>1, <1>3 DEF TypeOK
<1>5. OneCallAtATime'
  BY <1>1, <1>2, <1>4, TaskCalls DEF MemoryInv, InStore
<1>6. ASSUME NEW k \in Jobs, k # j PROVE JobInv(k)'
  BY <1>1, <1>2, <1>4, <1>6, Bystander DEF TypeOK, UnderWay
<1>7. JobInv(j)'
  BY <1>1, <1>2, <1>4 DEF MemoryInv, JobInv, RecordFollowsTask, Awaiting, CancelInTime, SilentUntilTerminal,
     BeingCancelled, TypeOK
<1> QED
  BY <1>2, <1>5, <1>6, <1>7, QuietStep

(* The end of a run phase that records nothing: the job leaves the active   *)
(* set, and its entry in _cancelling stays only for an owner under way.     *)
LEMMA SilentEnd ==
  ASSUME MemoryInv, NEW j \in Jobs, EndRunPhase(j), task'[j] = "ended", UNCHANGED <<webhooks, caller>>,
         stored'[j] = stored[j], stored[j] # "absent"
  PROVE  JobInv(j)' /\ (\A k \in Jobs \ {j} : cancelling'[k] = cancelling[k])
<1>1. cancelling'[j] # NoCaller => cancelling'[j] = cancelling[j]
  BY DEF EndRunPhase, MemoryInv, ClaimInv, TypeOK
<1>2. \A k \in Jobs \ {j} : cancelling'[k] = cancelling[k]
  BY DEF EndRunPhase, MemoryInv, ClaimInv, TypeOK
<1>3. j \notin activeJobs' /\ j \notin Unissued
  BY DEF EndRunPhase, MemoryInv, JobInv, RecordFollowsTask, Awaiting
<1> QED
  BY <1>1, <1>2, <1>3 DEF MemoryInv, JobInv, RecordFollowsTask, Awaiting, CancelInTime, SilentUntilTerminal,
     BeingCancelled, UnderWay

LEMMA LeaveSlotWaitStep ==
  ASSUME InMemory, MemoryInv, NEW j \in Jobs, LeaveSlotWait(j)
  PROVE  OneCallAtATime' /\ (\A k \in Jobs : JobInv(k)') /\ ContractStep
<1> USE DEF callVars, storeVars
<1> DEFINE st == [task EXCEPT ![j] = "ended"]
<1>1. storeQueue = << >> /\ TypeOK
  BY DEF LeaveSlotWait, LoopFree, InMemory, MemoryInv, ClaimInv
<1>2. /\ task[j] \in {"dropped", "returning"}
      /\ task' = st \/ WakeNext(st, freeSlots + 1)
      /\ cancelTargets' = [cancelTargets EXCEPT ![j] = "none"]
      /\ EndRunPhase(j)
      /\ UNCHANGED <<stored, webhooks, storeQueue, caller>>
  BY DEF LeaveSlotWait
<1>3. \A k \in Jobs : task'[k] = st[k] \/ (st[k] = "queued" /\ task'[k] = "granted")
  BY <1>2, WakeMoves
<1>4. /\ task'[j] = "ended"
      /\ \A k \in Jobs \ {j} : task'[k] = task[k] \/ (task[k] = "queued" /\ task'[k] = "granted")
  BY <1>1, <1>3 DEF TypeOK
<1>5. OneCallAtATime'
  BY <1>1, <1>2, <1>4, TaskCalls DEF MemoryInv, InStore
<1>6. stored[j] # "absent"
  BY <1>2 DEF MemoryInv, JobInv, RecordFollowsTask, Awaiting
<1>7. JobInv(j)' /\ (\A k \in Jobs \ {j} : cancelling'[k] = cancelling[k])
  BY <1>2, <1>4, <1>6, SilentEnd
<1>8. ASSUME NEW k \in Jobs, k # j PROVE JobInv(k)'
  BY <1>1, <1>2, <1>4, <1>7, <1>8, Bystander DEF TypeOK, UnderWay, EndRunPhase
<1> QED
  BY <1>2, <1>5, <1>7, <1>8, QuietStep

(* The PROCESSING write of a job nobody cancels returns: the job starts.    *)
LEMMA MarkedStep ==
  ASSUME InMemory, MemoryInv, NEW j \in Jobs, Marked(j)
  PROVE  OneCallAtATime' /\ (\A k \in Jobs : JobInv(k)') /\ ContractStep
<1> USE DEF callVars
<1>1. task[j] = "marking" /\ stored[j] = "pending" /\ ~BeingCancelled(j) /\ TypeOK
  BY DEF Marked, MemoryInv, JobInv, RecordFollowsTask, Awaiting, ClaimInv
<1>2. /\ StoreReturns(j) /\ storeQueue' = Tail(storeQueue)
      /\ task' = [task EXCEPT ![j] = "providing"]
      /\ cancelTargets' = [cancelTargets EXCEPT ![j] = "provider"]
      /\ stored' = [stored EXCEPT ![j] = "processing"]
      /\ UNCHANGED <<webhooks, cancelling, activeJobs, caller>>
  BY <1>1 DEF Marked, StopsBeforeProvider
<1>3. OneCallAtATime'
  BY <1>1, <1>2, TaskReturns DEF MemoryInv, TypeOK, InStore
<1>4. ASSUME NEW k \in Jobs, k # j PROVE JobInv(k)'
  BY <1>1, <1>2, <1>4, Bystander DEF TypeOK, UnderWay
<1>5. JobInv(j)'
  BY <1>1, <1>2 DEF MemoryInv, JobInv, RecordFollowsTask, Awaiting, CancelInTime, SilentUntilTerminal,
     BeingCancelled, TypeOK, Terminal
<1>6. ContractStep
  BY <1>1, <1>2 DEF ContractStep, Contract!Next, Contract!Start
<1> QED
  BY <1>3, <1>4, <1>5, <1>6

(* The provider's outcome is dropped, or its record is on its way.          *)
LEMMA ProviderReturnsStep ==
  ASSUME InMemory, MemoryInv, NEW j \in Jobs, ProviderReturns(j)
  PROVE  OneCallAtATime' /\ (\A k \in Jobs : JobInv(k)') /\ ContractStep
<1> USE DEF callVars
<1>1. /\ storeQueue = << >> /\ TypeOK
      /\ task[j] \in Awaiting /\ stored[j] # "absent"
      /\ cancelTargets' = [cancelTargets EXCEPT ![j] = "none"]
      /\ UNCHANGED <<stored, webhooks, caller>>
  BY DEF ProviderReturns, Awaiting, LoopFree, InMemory, MemoryInv, ClaimInv, JobInv, RecordFollowsTask
<1>2. CASE Discarded(j) \/ Escapes(j)
  <2> DEFINE st == [task EXCEPT ![j] = "ended"]
  <2>1. ReleaseSlot(st) /\ EndRunPhase(j) /\ storeQueue' = storeQueue
    BY <1>2 DEF ProviderReturns, Awaiting
  <2>2. \A k \in Jobs : task'[k] = st[k] \/ (st[k] = "queued" /\ task'[k] = "granted")
    BY <2>1, ReleaseMoves
  <2>3. /\ task'[j] = "ended"
        /\ \A k \in Jobs \ {j} : task'[k] = task[k] \/ (task[k] = "queued" /\ task'[k] = "granted")
    BY <1>1, <2>2 DEF TypeOK
  <2>4. OneCallAtATime'
    BY <1>1, <2>1, <2>3, TaskCalls DEF MemoryInv, InStore
  <2>5. JobInv(j)' /\ (\A k \in Jobs \ {j} : cancelling'[k] = cancelling[k])
    BY <1>1, <2>1, <2>3, SilentEnd
  <2>6. ASSUME NEW k \in Jobs, k # j PROVE JobInv(k)'
    BY <1>1, <2>1, <2>3, <2>5, <2>6, Bystander DEF TypeOK, UnderWay, EndRunPhase
  <2> QED
    BY <1>1, <2>4, <2>5, <2>6, QuietStep
<1>3. CASE ~(Discarded(j) \/ Escapes(j))
  <2>1. /\ task' = [task EXCEPT ![j] = "recording"]
        /\ storeQueue' = Append(storeQueue, j)
        /\ UNCHANGED <<activeJobs, cancelling>>
        /\ ~BeingCancelled(j)
    BY <1>3 DEF ProviderReturns, Awaiting, Discarded
  <2>2. OneCallAtATime'
    BY <1>1, <2>1, TaskCalls DEF MemoryInv, TypeOK, InStore
  <2>3. ASSUME NEW k \in Jobs, k # j PROVE JobInv(k)'
    BY <1>1, <2>1, <2>3, Bystander DEF TypeOK, UnderWay
  <2>4. JobInv(j)'
    BY <1>1, <2>1 DEF MemoryInv, JobInv, RecordFollowsTask, Awaiting, CancelInTime, SilentUntilTerminal,
       BeingCancelled, TypeOK
  <2> QED
    BY <1>1, <2>2, <2>3, <2>4, QuietStep
<1> QED
  BY <1>2, <1>3

(* The record of a job nobody cancels turns terminal and is announced.      *)
LEMMA RecordedStep ==
  ASSUME InMemory, MemoryInv, NEW j \in Jobs, Recorded(j)
  PROVE  OneCallAtATime' /\ (\A k \in Jobs : JobInv(k)') /\ ContractStep
<1> USE DEF callVars
<1> DEFINE st == [task EXCEPT ![j] = "ended"]
<1>1. /\ task[j] = "recording" /\ stored[j] = "processing" /\ ~BeingCancelled(j) /\ TypeOK
      /\ webhooks[j] = << >> /\ j \notin Unissued
  BY DEF Recorded, MemoryInv, JobInv, RecordFollowsTask, Awaiting, ClaimInv, SilentUntilTerminal, Terminal
<1>2. /\ StoreReturns(j) /\ storeQueue' = Tail(storeQueue)
      /\ ReleaseSlot(st)
      /\ stored' = [stored EXCEPT ![j] = verdict[j]]
      /\ Announce(j, verdict[j])
      /\ activeJobs' = activeJobs \ {j}
      /\ UNCHANGED <<cancelling, cancelTargets, caller>>
  BY <1>1 DEF Recorded, EndRunPhase
<1>3. \A k \in Jobs : task'[k] = st[k] \/ (st[k] = "queued" /\ task'[k] = "granted")
  BY <1>2, ReleaseMoves
<1>4. /\ task'[j] = "ended"
      /\ \A k \in Jobs \ {j} : task'[k] = task[k] \/ (task[k] = "queued" /\ task'[k] = "granted")
  BY <1>1, <1>3 DEF TypeOK
<1>5. OneCallAtATime'
  BY <1>1, <1>2, <1>4, TaskReturns DEF MemoryInv, InStore
<1>6. verdict[j] \in Terminal /\ verdict[j] # "absent" /\ stored'[j] = verdict[j]
  BY <1>1, <1>2 DEF TypeOK, Terminal
<1>7. ASSUME NEW k \in Jobs, k # j PROVE JobInv(k)'
  <2>1. webhooks'[k] = webhooks[k] /\ stored'[k] = stored[k]
    BY <1>1, <1>2, <1>7 DEF Announce, TypeOK
  <2> QED
    BY <1>1, <1>2, <1>4, <1>7, <2>1, Bystander DEF TypeOK, UnderWay
<1>8. JobInv(j)'
  BY <1>1, <1>2, <1>4, <1>6 DEF JobInv, RecordFollowsTask, Awaiting, CancelInTime, SilentUntilTerminal,
     BeingCancelled, TypeOK
<1>9. Contract!Settle(j, verdict[j])
  BY <1>1, <1>2, ShortQueues DEF Contract!Settle, Announce
<1>10. ContractStep
  BY <1>6, <1>9 DEF ContractStep, Contract!Next, Contract!Terminal, Terminal
<1> QED
  BY <1>5, <1>7, <1>8, <1>10

(* A provider that ends and a job that times out touch no record.           *)
LEMMA ProviderStep ==
  ASSUME InMemory, MemoryInv, NEW j \in Jobs, ProviderEnds(j) \/ JobTimesOut(j)
  PROVE  OneCallAtATime' /\ (\A k \in Jobs : JobInv(k)') /\ ContractStep
<1> USE DEF callVars, storeVars
<1>1. /\ storeQueue = << >> /\ TypeOK
      /\ \/ task' = task
         \/ \E s \in {"unwinding", "expired"} : task[j] = "providing" /\ task' = [task EXCEPT ![j] = s]
      /\ UNCHANGED <<stored, webhooks, cancelling, cancelTargets, activeJobs, caller, storeQueue>>
  BY DEF ProviderEnds, JobTimesOut, LoopFree, InMemory, MemoryInv, ClaimInv
<1>2. OneCallAtATime'
  BY <1>1, TaskCalls DEF MemoryInv, OneCallAtATime, TypeOK, InStore
<1>3. ASSUME NEW k \in Jobs, k # j PROVE JobInv(k)'
  BY <1>1, <1>3, Bystander DEF TypeOK, UnderWay
<1>4. JobInv(j)'
  BY <1>1 DEF MemoryInv, JobInv, RecordFollowsTask, Awaiting, CancelInTime, SilentUntilTerminal,
     BeingCancelled, UnderWay, TypeOK
<1> QED
  BY <1>1, <1>2, <1>3, <1>4, QuietStep

(* A claim stops a job in the slot queue or at its provider, and finds its  *)
(* record unfinished.                                                       *)
LEMMA ClaimStep ==
  ASSUME MemoryInv, NEW c \in Callers, Claim(c), ~BeingCancelled(About[c]),
         stored[About[c]] \in Unfinished, task[About[c]] \notin {"scheduled"} \cup InStore,
         \A d \in Callers \ {c} : caller'[d] = caller[d],
         UNCHANGED <<stored, webhooks, cancelTargets, activeJobs>>
  PROVE  /\ \A k \in Jobs : JobInv(k)'
         /\ \A k \in Jobs : task'[k] \in InStore => task[k] \in InStore
<1>1. About[c] \in Jobs /\ TypeOK /\ \A k \in Jobs : JobInv(k)
  BY ConstantsAssumption DEF MemoryInv, ClaimInv
<1>2. cancelling' = [cancelling EXCEPT ![About[c]] = c] /\ c # NoCaller
  BY ConstantsAssumption DEF Claim
<1>3. \A k \in Jobs \ {About[c]} : task'[k] = task[k]
  BY <1>1 DEF Claim, CancelTarget, TypeOK
<1>4. task'[About[c]] = IF cancelTargets[About[c]] = "slotwait"
                          THEN AfterCancel(task[About[c]]) ELSE task[About[c]]
  BY <1>1 DEF Claim, CancelTarget, TypeOK
<1>5. /\ task'[About[c]] \notin {"scheduled", "queued", "granted", "none"} \cup InStore
      /\ task'[About[c]] = "ended" <=> task[About[c]] = "ended"
  BY <1>1, <1>4 DEF JobInv, RecordFollowsTask, Awaiting, AfterCancel, InStore, Unfinished
<1>6. ASSUME NEW k \in Jobs, k # About[c] PROVE JobInv(k)'
  <2>1. cancelling'[k] = cancelling[k]
    BY <1>1, <1>2, <1>6 DEF TypeOK
  <2>2. BeingCancelled(k) => cancelling[k] \in Callers \ {c}
    BY <1>6, <1>1 DEF MemoryInv, ClaimInv, EntriesHaveOwners, BeingCancelled, TypeOK
  <2> QED
    BY <1>3, <1>6, <2>1, <2>2, Bystander DEF UnderWay
<1>7. JobInv(About[c])'
  BY <1>1, <1>2, <1>5 DEF JobInv, RecordFollowsTask, Awaiting, CancelInTime, SilentUntilTerminal,
     BeingCancelled, TypeOK, InStore, Unfinished
<1> QED
  BY <1>3, <1>5, <1>6, <1>7

(* A step of a call that changes no job's state but its own progress.       *)
LEMMA CallerMoves ==
  ASSUME MemoryInv, NEW c \in Callers, \A d \in Callers \ {c} : caller'[d] = caller[d],
         UnderWay(c)' => UnderWay(c),
         UNCHANGED <<task, stored, webhooks, cancelling, cancelTargets, activeJobs>>
  PROVE  \A k \in Jobs : JobInv(k)'
<1>1. SUFFICES ASSUME NEW k \in Jobs PROVE JobInv(k)'
  OBVIOUS
<1>2. BeingCancelled(k) => cancelling[k] \in Callers
  BY DEF MemoryInv, ClaimInv, BeingCancelled, TypeOK
<1> QED
  BY <1>2, Bystander DEF UnderWay

LEMMA CancelStep ==
  ASSUME InMemory, MemoryInv, NEW c \in Callers, Cancel(c)
  PROVE  OneCallAtATime' /\ (\A k \in Jobs : JobInv(k)') /\ ContractStep
<1>1. /\ storeQueue = << >> /\ TypeOK /\ About[c] \in Jobs
      /\ caller[c] = "idle" /\ Known(About[c])
      /\ UNCHANGED <<stored, webhooks, cancelTargets, activeJobs>>
  BY ConstantsAssumption DEF Cancel, LoopFree, InMemory, MemoryInv, ClaimInv
<1>2. CASE BeingCancelled(About[c])
  <2>1. /\ caller' = [caller EXCEPT ![c] = "joining"]
        /\ UNCHANGED <<task, cancelling, storeQueue>>
    BY <1>2 DEF Cancel, InFlight, Join
  <2>2. OneCallAtATime'
    BY <1>1, <2>1, CallerCalls DEF MemoryInv, TypeOK
  <2> QED
    BY <1>1, <2>1, <2>2, CallerMoves, QuietStep DEF TypeOK, UnderWay
<1>3. CASE ~BeingCancelled(About[c]) /\ About[c] \in activeJobs
  <2>1. PICK s \in {"grace", "writing"} :
          /\ Claim(c) /\ caller' = [caller EXCEPT ![c] = s]
          /\ storeQueue' = IF s = "grace" THEN storeQueue ELSE Append(storeQueue, c)
    BY <1>3 DEF Cancel, InFlight
  <2>2. task[About[c]] \notin InStore
    BY <1>1, ShortQueues DEF MemoryInv, OneCallAtATime
  <2>3. task[About[c]] # "scheduled" /\ stored[About[c]] \in Unfinished
    BY <1>1, <1>3, <2>2 DEF MemoryInv, JobInv, RecordFollowsTask, Known, InMemory, TypeOK,
       TaskState, InLine, HoldsSlot, Awaiting, InStore, Unfinished
  <2>4. \A d \in Callers \ {c} : caller'[d] = caller[d]
    BY <1>1, <2>1 DEF TypeOK
  <2>5. /\ \A k \in Jobs : JobInv(k)'
        /\ \A k \in Jobs : task'[k] \in InStore => task[k] \in InStore
    BY <1>1, <1>3, <2>1, <2>2, <2>3, <2>4, ClaimStep
  <2>6. \/ storeQueue' = << >> /\ caller'[c] \notin {"getting", "writing"}
        \/ storeQueue' = Append(storeQueue, c)
    BY <1>1, <2>1 DEF TypeOK
  <2>7. caller'[c] # "getting"
    BY <1>1, <2>1 DEF TypeOK
  <2>8. OneCallAtATime'
    BY <1>1, <2>4, <2>5, <2>6, <2>7, CallerCalls DEF MemoryInv
  <2> QED
    BY <1>1, <2>5, <2>8, QuietStep
<1>4. CASE ~BeingCancelled(About[c]) /\ About[c] \notin activeJobs
  <2>1. /\ caller' = [caller EXCEPT ![c] = "getting"]
        /\ storeQueue' = Append(storeQueue, c)
        /\ UNCHANGED <<task, cancelling>>
    BY <1>4 DEF Cancel, InFlight
  <2>2. About[c] \notin activeJobs' /\ \A d \in Callers \ {c} : caller'[d] = caller[d]
    BY <1>1, <1>4, <2>1 DEF TypeOK
  <2>3. OneCallAtATime'
    BY <1>1, <2>1, <2>2, CallerCalls DEF MemoryInv
  <2> QED
    BY <1>1, <2>1, <2>3, CallerMoves, QuietStep DEF TypeOK, UnderWay
<1> QED
  BY <1>2, <1>3, <1>4

LEMMA LookedUpStep ==
  ASSUME InMemory, MemoryInv, NEW c \in Callers, LookedUp(c)
  PROVE  OneCallAtATime' /\ (\A k \in Jobs : JobInv(k)') /\ ContractStep
<1>1. /\ StoreReturns(c) /\ TypeOK /\ About[c] \in Jobs
      /\ caller[c] = "getting"
      /\ UNCHANGED <<stored, webhooks, cancelTargets, activeJobs>>
  BY ConstantsAssumption DEF LookedUp, MemoryInv, ClaimInv
<1>2. CASE stored[About[c]] \in Unfinished /\ ~BeingCancelled(About[c])
  <2>1. /\ Claim(c) /\ caller' = [caller EXCEPT ![c] = "writing"]
        /\ storeQueue' = Append(Tail(storeQueue), c)
    BY <1>2 DEF LookedUp
  <2>2. storeQueue = <<c>>
    BY <1>1, ShortQueues DEF MemoryInv, OneCallAtATime, StoreReturns
  <2>3. task[About[c]] \notin InStore
    BY <1>1, <2>2, ShortQueues, ConstantsAssumption DEF MemoryInv, OneCallAtATime
  <2>4. \A d \in Callers \ {c} : caller'[d] = caller[d]
    BY <1>1, <2>1 DEF TypeOK
  <2>5. task[About[c]] # "scheduled"
    BY <1>1 DEF MemoryInv, OneCallAtATime, JobInv, RecordFollowsTask, Awaiting
  <2>6. /\ \A k \in Jobs : JobInv(k)'
        /\ \A k \in Jobs : task'[k] \in InStore => task[k] \in InStore
    BY <1>1, <1>2, <2>1, <2>3, <2>4, <2>5, ClaimStep
  <2>7. OneCallAtATime'
    BY <1>1, <2>1, <2>4, <2>6, CallerReturns DEF MemoryInv, TypeOK
  <2> QED
    BY <1>1, <2>6, <2>7, QuietStep
<1>3. CASE ~(stored[About[c]] \in Unfinished /\ ~BeingCancelled(About[c]))
  <2>1. /\ \E s \in {"joining", "returned"} : caller' = [caller EXCEPT ![c] = s]
        /\ storeQueue' = Tail(storeQueue)
        /\ UNCHANGED <<task, cancelling>>
    BY <1>3 DEF LookedUp, Join, Return
  <2>2. OneCallAtATime'
    BY <1>1, <2>1, CallerReturns DEF MemoryInv, TypeOK
  <2> QED
    BY <1>1, <2>1, <2>2, CallerMoves, QuietStep DEF TypeOK, UnderWay
<1> QED
  BY <1>2, <1>3

LEMMA GraceEndsStep ==
  ASSUME InMemory, MemoryInv, NEW c \in Callers, GraceEnds(c)
  PROVE  OneCallAtATime' /\ (\A k \in Jobs : JobInv(k)') /\ ContractStep
<1>1. /\ storeQueue = << >> /\ TypeOK
      /\ caller[c] = "grace" /\ caller' = [caller EXCEPT ![c] = "writing"]
      /\ storeQueue' = Append(storeQueue, c)
      /\ UNCHANGED <<task, stored, webhooks, cancelling, cancelTargets, activeJobs>>
  BY DEF GraceEnds, LoopFree, InMemory, MemoryInv, ClaimInv, taskVars
<1>2. OneCallAtATime'
  BY <1>1, CallerCalls DEF MemoryInv, TypeOK
<1> QED
  BY <1>1, <1>2, CallerMoves, QuietStep DEF TypeOK, UnderWay

(* The cancelled record is written over an unfinished one and announced.    *)
LEMMA CancelRecordedStep ==
  ASSUME InMemory, MemoryInv, NEW c \in Callers, CancelRecorded(c)
  PROVE  OneCallAtATime' /\ (\A k \in Jobs : JobInv(k)') /\ ContractStep
<1> DEFINE j == About[c]
<1>1. /\ StoreReturns(c) /\ storeQueue' = Tail(storeQueue) /\ TypeOK /\ j \in Jobs
      /\ caller[c] = "writing" /\ caller' = [caller EXCEPT ![c] = "returned"]
      /\ stored' = [stored EXCEPT ![j] = "cancelled"]
      /\ Announce(j, "cancelled")
      /\ UNCHANGED <<task, cancelTargets, activeJobs>>
  BY ConstantsAssumption DEF CancelRecorded, Return, taskVars, MemoryInv, ClaimInv
<1>2. cancelling' = IF j \in activeJobs THEN cancelling ELSE [cancelling EXCEPT ![j] = NoCaller]
  BY DEF CancelRecorded
<1>3. cancelling[j] = c /\ c # NoCaller
  BY <1>1, ConstantsAssumption DEF MemoryInv, ClaimInv, OwnersHoldEntries, UnderWay
<1>4. stored[j] \in Unfinished /\ webhooks[j] = << >>
  BY <1>1, <1>3 DEF MemoryInv, JobInv, CancelInTime, SilentUntilTerminal, UnderWay,
     BeingCancelled, Unfinished, Terminal
<1>5. OneCallAtATime'
  BY <1>1, CallerReturns DEF MemoryInv, TypeOK
<1>6. ASSUME NEW k \in Jobs, k # j PROVE JobInv(k)'
  <2>1. webhooks'[k] = webhooks[k] /\ stored'[k] = stored[k] /\ cancelling'[k] = cancelling[k]
    BY <1>1, <1>2, <1>6 DEF Announce, TypeOK
  <2>2. BeingCancelled(k) => cancelling[k] \in Callers \ {c}
    BY <1>6, <1>1 DEF MemoryInv, ClaimInv, EntriesHaveOwners, BeingCancelled, TypeOK
  <2> QED
    BY <1>1, <2>1, <2>2, Bystander DEF UnderWay, TypeOK
<1>7. stored'[j] = "cancelled" /\ JobInv(j)
  BY <1>1 DEF MemoryInv, TypeOK
<1>8. task[j] \in {"dropped", "returning", "ended"} \cup Awaiting
  <2>1. RecordFollowsTask(j) /\ BeingCancelled(j) /\ stored[j] # "absent"
    BY <1>3, <1>4, <1>7 DEF JobInv, BeingCancelled, Unfinished
  <2>2. task[j] \notin {"none", "scheduled", "queued", "granted", "marking", "recording", "failing"}
    BY <2>1 DEF RecordFollowsTask, Awaiting
  <2>3. task[j] \in TaskState
    BY <1>1 DEF TypeOK
  <2> QED
    BY <2>2, <2>3 DEF TaskState, InLine, HoldsSlot, Awaiting, InStore
<1>9. task[j] # "ended" => cancelling'[j] = c
  BY <1>2, <1>3, <1>7, <1>8 DEF JobInv, RecordFollowsTask, Awaiting
<1>10. JobInv(j)'
  <2>1. RecordFollowsTask(j)'
    BY <1>1, <1>3, <1>7, <1>8, <1>9 DEF JobInv, RecordFollowsTask, Awaiting, BeingCancelled
  <2>2. CancelInTime(j)'
    <3>1. cancelling'[j] # NoCaller => cancelling'[j] = c
      BY <1>1, <1>2, <1>3 DEF TypeOK
    <3>2. caller'[c] = "returned"
      BY <1>1 DEF TypeOK
    <3> QED
      BY <3>1, <3>2 DEF CancelInTime, BeingCancelled, UnderWay
  <2>3. SilentUntilTerminal(j)'
    BY <1>7 DEF SilentUntilTerminal, Terminal
  <2> QED
    BY <2>1, <2>2, <2>3 DEF JobInv
<1>11. Contract!Settle(j, "cancelled")
  BY <1>1, <1>4, ShortQueues DEF Contract!Settle, Announce, Unfinished
<1>12. ContractStep
  BY <1>1, <1>11 DEF ContractStep, Contract!Next, Contract!Terminal
<1> QED
  BY <1>5, <1>6, <1>10, <1>12

LEMMA JoinReturnsStep ==
  ASSUME InMemory, MemoryInv, NEW c \in Callers, JoinReturns(c)
  PROVE  OneCallAtATime' /\ (\A k \in Jobs : JobInv(k)') /\ ContractStep
<1>1. /\ storeQueue = << >> /\ TypeOK
      /\ caller[c] = "joining" /\ caller' = [caller EXCEPT ![c] = "returned"]
      /\ storeQueue' = storeQueue
      /\ UNCHANGED <<task, stored, webhooks, cancelling, cancelTargets, activeJobs>>
  BY DEF JoinReturns, Return, LoopFree, InMemory, MemoryInv, ClaimInv, taskVars, storeVars
<1>2. OneCallAtATime'
  BY <1>1, CallerCalls DEF MemoryInv, TypeOK
<1> QED
  BY <1>1, <1>2, CallerMoves, QuietStep DEF TypeOK, UnderWay

LEMMA StutterStep ==
  ASSUME MemoryInv, UNCHANGED vars
  PROVE  OneCallAtATime' /\ (\A k \in Jobs : JobInv(k)') /\ ContractStep
<1>1. OneCallAtATime'
  BY DEF vars, MemoryInv, OneCallAtATime
<1>2. \A k \in Jobs : JobInv(k)'
  BY Bystander DEF vars, UnderWay
<1> QED
  BY <1>1, <1>2, QuietStep DEF vars

(* A store that does not raise takes none of the failure paths.             *)
LEMMA NothingRaises ==
  ASSUME InMemory, TypeOK, NEW a
  PROVE  ~StoreRaises(a)
BY DEF InMemory, TypeOK, StoreRaises

LEMMA EveryStep ==
  ASSUME InMemory, MemoryInv, [Next]_vars
  PROVE  OneCallAtATime' /\ (\A k \in Jobs : JobInv(k)') /\ ContractStep
<1>1. TypeOK /\ \A j \in Jobs : task[j] # "failing"
  BY DEF MemoryInv, ClaimInv, JobInv, RecordFollowsTask, Awaiting
<1>2. \A j \in Jobs : ~WriteRaises(j) /\ ~FailureRecorded(j) /\ ~FailureLost(j)
  BY <1>1, NothingRaises DEF WriteRaises, FailureRecorded, FailureLost
<1>3. \A c \in Callers : ~LookUpRaises(c) /\ ~CancelWriteRaises(c)
  BY <1>1, NothingRaises DEF LookUpRaises, CancelWriteRaises
<1> QED
  BY <1>2, <1>3, SubmitStep, BeginStep, TakeSlotStep, LeaveSlotWaitStep, MarkedStep,
     ProviderReturnsStep, RecordedStep, ProviderStep, CancelStep, LookedUpStep, GraceEndsStep,
     CancelRecordedStep, JoinReturnsStep, StutterStep
  DEF Next, TaskStep, CallerStep

-----------------------------------------------------------------------------
LEMMA MemoryInvKept ==
  ASSUME InMemory
  PROVE  Spec => []MemoryInv
<1>1. Init /\ ClaimInv => MemoryInv
  BY ConstantsAssumption DEF Init, MemoryInv, OneCallAtATime, JobInv, RecordFollowsTask, Awaiting, CancelInTime,
     SilentUntilTerminal, BeingCancelled, InStore, UnderWay
<1>2. MemoryInv /\ ClaimInv' /\ [Next]_vars => MemoryInv'
  BY EveryStep DEF MemoryInv
<1> QED
  BY <1>1, <1>2, ClaimsKept, PTL DEF Spec

(* The manager over an in-memory store implements the contract: what every  *)
(* job's record and webhook show of it is a behaviour of JobContract.       *)
THEOREM MemoryKeepsContract ==
  ASSUME InMemory
  PROVE  Spec => KeepsContract
<1>1. Init => Contract!Init
  BY DEF Init, Contract!Init
<1>2. MemoryInv /\ [Next]_vars => [Contract!Next]_(Contract!vars)
  BY EveryStep DEF ContractStep
<1> QED
  BY <1>1, <1>2, MemoryInvKept, PTL DEF Spec, KeepsContract, Contract!Spec

(* So a finished job's outcome is final there: neither a provider that lets *)
(* go late nor a cancel() writes over it.                                   *)
THEOREM MemoryOutcomesAreFinal ==
  ASSUME InMemory
  PROVE  Spec => TerminalIsFinal
<1>1. MemoryInv /\ [Next]_vars
        => [\A j \in Jobs : stored[j] \in Terminal => stored'[j] = stored[j]]_vars
  <2> SUFFICES ASSUME MemoryInv, [Next]_vars, NEW j \in Jobs, stored[j] \in Terminal
               PROVE  stored'[j] = stored[j]
    OBVIOUS
  <2>1. ContractStep /\ TypeOK
    BY EveryStep DEF MemoryInv, ClaimInv
  <2>2. ASSUME NEW k \in Jobs, Contract!Create(k) \/ Contract!Start(k)
        PROVE  stored'[j] = stored[j]
    BY <2>1, <2>2 DEF Contract!Create, Contract!Start, TypeOK, Terminal
  <2>3. ASSUME NEW k \in Jobs, NEW s \in Terminal, Contract!Settle(k, s)
        PROVE  stored'[j] = stored[j]
    BY <2>1, <2>3 DEF Contract!Settle, TypeOK, Terminal
  <2> QED
    BY <2>1, <2>2, <2>3 DEF ContractStep, Contract!Next, Contract!vars, Contract!Terminal, Terminal
<1> QED
  BY <1>1, MemoryInvKept, PTL DEF Spec, TerminalIsFinal

=============================================================================
