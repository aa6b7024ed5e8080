-------------------------- MODULE ProviderRunProofs --------------------------
(***************************************************************************)
(* The providers opened up implement the provider JobLifecycle leaves      *)
(* free, so what is proved of the manager holds with them: for any jobs,   *)
(* any mix of providers, any limits, either store.                         *)
(***************************************************************************)
EXTENDS ProviderRun, JobLifecycleMemory

(* The step that ends run() is JobLifecycle's ProviderEnds: a provider that *)
(* was not cancelled returns or raises, one that was is gone.               *)
LEMMA EndIsProviderEnds ==
  ASSUME NEW j \in Jobs, NEW how \in {"result", "raised", "gone"}, LoopFree,
         \/ provider[j] = "running" /\ how # "gone"
         \/ provider[j] = "asked" /\ how = "gone",
         provider' = [provider EXCEPT ![j] = how],
         UNCHANGED lifecycle
  PROVE  ProviderEnds(j)
BY DEF ProviderEnds, lifecycle, storeVars, slotVars, callVars

(* Every step inside run() either ends it or leaves the manager's variables *)
(* alone.                                                                   *)
LEMMA RunStepIsLifecycles ==
  ASSUME NEW j \in Jobs, StepInRun(j)
  PROVE  ProviderEnds(j) \/ UNCHANGED vars
<1> DEFINE Still == UNCHANGED <<lifecycle, provider>>
<1>1. Still => UNCHANGED vars
  BY DEF lifecycle, vars
<1>2. CASE NeverBegins(j)
  BY <1>2, EndIsProviderEnds DEF NeverBegins
<1>3. CASE EndsAtOnce(j)
  BY <1>3, EndIsProviderEnds DEF EndsAtOnce, At
<1>4. CASE OtherEnds(j)
  BY <1>4 DEF OtherEnds
<1>5. CASE MediaEnds(j)
  BY <1>5, EndIsProviderEnds DEF MediaEnds, Ends
<1>6. CASE Fetched(j)
  BY <1>1, <1>6, EndIsProviderEnds DEF Fetched, At, Ends
<1>7. CASE Saved(j)
  BY <1>7, EndIsProviderEnds DEF Saved, At, Ends
<1>8. CASE Unwinds(j)
  BY <1>1, <1>8, EndIsProviderEnds DEF Unwinds, Ends
<1>9. CASE OtherBegins(j) \/ MediaBegins(j) \/ ThreadEnds(j) \/ ImageBegins(j)
  BY <1>1, <1>9 DEF OtherBegins, MediaBegins, ThreadEnds, ImageBegins
<1>10. CASE Headers(j) \/ Chunk(j) \/ BodyEnds(j)
  BY <1>1, <1>10 DEF Headers, Chunk, BodyEnds
<1> QED
  BY <1>2, <1>3, <1>4, <1>5, <1>6, <1>7, <1>8, <1>9, <1>10 DEF StepInRun

(* Every behaviour with image downloads, media threads and metrics is a     *)
(* behaviour of JobLifecycle.                                               *)
THEOREM RunImplementsLifecycle == RunSpec => Spec
<1>1. RunInit => Init
  BY DEF RunInit
<1>2. ManagerStep => Next
  BY DEF ManagerStep, Next
<1>3. [RunNext]_<<vars, runVars>> => [Next]_vars
  <2>1. ASSUME NEW j \in Jobs, StepInRun(j)
        PROVE  Next \/ UNCHANGED vars
    BY <2>1, RunStepIsLifecycles DEF Next
  <2> QED
    BY <1>2, <2>1 DEF RunNext
<1> QED
  BY <1>1, <1>3, PTL DEF RunSpec, Spec

(* Over an in-memory store the gateway with its real providers keeps the    *)
(* contract: one terminal status per job, never replaced, announced once.   *)
THEOREM RunsKeepContract ==
  ASSUME InMemory
  PROVE  RunSpec => KeepsContract
BY RunImplementsLifecycle, MemoryKeepsContract, PTL

-----------------------------------------------------------------------------
(* What the manager's invariants are missing about the provider's part: a   *)
(* job has one once its PROCESSING write is over, "ready" is the verdict    *)
(* and the record of a result only, an error is recorded of a provider that *)
(* has ended, and a cancellation recorded while it runs stays recorded.     *)
Provided(j) ==
  /\ provider[j] # "none" => task[j] \in {"recording", "failing", "ended"} \cup Awaiting
  /\ task[j] \in {"recording"} \cup Awaiting => provider[j] # "none"
  /\ provider[j] \in Calling => stored[j] \notin {"ready", "error"}
  /\ task[j] = "recording" /\ verdict[j] = "ready" => provider[j] = "result"
  /\ stored[j] = "ready" => provider[j] = "result"
  /\ faults = 0 /\ stored[j] = "error" => provider[j] # "none"
  /\ faults = 0 /\ task[j] \in Awaiting /\ BeingCancelled(j)
       /\ future[cancelling[j]] = "result" => stored[j] = "cancelled"

Submitted == {j \in Jobs : stored[j] # "absent"}

ProvidedInv == BaseInv /\ SlotInv /\ IsFiniteSet(Submitted) /\ \A j \in Jobs : Provided(j)

(* What "recording" is going to write, and what it writes.                  *)
LEMMA VerdictMoves ==
  ASSUME TypeOK, NEW j \in Jobs, Shape(j), Submit(j) \/ TaskStep(j) \/ ProviderEnds(j) \/ JobTimesOut(j)
  PROVE  /\ \A k \in Jobs \ {j} : verdict'[k] = verdict[k]
         /\ verdict'[j] = verdict[j] \/
              (task[j] \in Awaiting /\ task'[j] = "recording"
                 /\ (verdict'[j] = "ready" <=> Outlasts(j)))
         /\ task[j] \in Awaiting /\ task'[j] = "recording" =>
              (verdict'[j] = "ready" <=> Outlasts(j))
         /\ task[j] = "recording" => stored'[j] \in {stored[j], verdict[j]}
         /\ task[j] = "recording" /\ task'[j] = "ended" => stored'[j] = verdict[j]
         /\ task[j] # "recording" => stored'[j] # "ready" \/ stored'[j] = stored[j]
<1> USE DEF TypeOK, storeVars, slotVars, taskVars
<1>0. ASSUME NEW s \in TaskState \ {"queued"}, ReleaseSlot([task EXCEPT ![j] = s])
      PROVE  task'[j] = s
  <2> DEFINE st == [task EXCEPT ![j] = s]
  <2>1. task'[j] = st[j] \/ (st[j] = "queued" /\ task'[j] = "granted")
    BY <1>0, ReleaseMoves
  <2> QED
    BY <2>1
<1>1. CASE Submit(j) \/ Begin(j) \/ TakeSlot(j) \/ LeaveSlotWait(j)
  BY <1>1 DEF Submit, Begin, TakeSlot, LeaveSlotWait, Shape, Awaiting
<1>6. CASE FailureRecorded(j) \/ FailureLost(j)
  <2>1. stored'[j] \in {stored[j], "error"} /\ task[j] = "failing" /\ UNCHANGED verdict
    BY <1>6 DEF FailureRecorded, FailureLost
  <2> QED
    BY <2>1 DEF Awaiting
<1>2. CASE Marked(j) \/ Recorded(j)
  BY <1>2 DEF Marked, Recorded, Awaiting
<1>3. CASE WriteRaises(j)
  <2>1. stored'[j] \in {stored[j], IF task[j] = "marking" THEN "processing" ELSE verdict[j]}
    BY <1>3 DEF WriteRaises
  <2>2. task'[j] = "failing"
    <3>1. ReleaseSlot([task EXCEPT ![j] = "failing"]) /\ "failing" \in TaskState \ {"queued"}
      BY <1>3 DEF WriteRaises, TaskState, InStore
    <3> QED
      BY <1>0, <3>1
  <2> QED
    BY <1>3, <2>1, <2>2 DEF WriteRaises
<1>4. CASE ProviderReturns(j)
  <2>1. CASE Discarded(j) \/ Escapes(j)
    <3>1. ReleaseSlot([task EXCEPT ![j] = "ended"]) /\ "ended" \in TaskState \ {"queued"}
      BY <1>4, <2>1 DEF ProviderReturns, Awaiting, TaskState
    <3>2. task'[j] = "ended"
      BY <1>0, <3>1
    <3> QED
      BY <1>4, <2>1, <3>2 DEF ProviderReturns, Awaiting
  <2>2. CASE ~(Discarded(j) \/ Escapes(j))
    BY <1>4, <2>2 DEF ProviderReturns, Awaiting
  <2> QED
    BY <2>1, <2>2
<1>5. CASE ProviderEnds(j) \/ JobTimesOut(j)
  BY <1>5 DEF ProviderEnds, JobTimesOut, Awaiting
<1> QED
  BY <1>1, <1>2, <1>3, <1>4, <1>5, <1>6 DEF TaskStep

LEMMA TaskProvides ==
  ASSUME ProvidedInv, NEW j \in Jobs, Submit(j) \/ TaskStep(j) \/ ProviderEnds(j) \/ JobTimesOut(j)
  PROVE  IsFiniteSet(Submitted') /\ \A k \in Jobs : Provided(k)'
<1>0. /\ BaseInv /\ TypeOK /\ Shape(j) /\ Hosted(j) /\ (\A k \in Jobs : Provided(k))
      /\ IsFiniteSet(Submitted)
  BY DEF ProvidedInv, BaseInv, ClaimInv, SlotInv
<1>1. Others(j) /\ TaskMove(j) /\ UNCHANGED callVars
  BY <1>0, TaskFacts
<1>2. faults \in Nat /\ faults' \in Nat /\ (faults' = 0 => faults = 0)
  BY <1>0, <1>1 DEF TypeOK, TaskMove, Awaiting
<1>3. ASSUME NEW k \in Jobs \ {j} PROVE Provided(k)'
  BY <1>0, <1>1, <1>2, VerdictMoves DEF Others, callVars, Provided, Awaiting, BeingCancelled
<1>4. Provided(j)
  BY <1>0
<1>5. RunGoesOn(j) => (BeingCancelled(j)' <=> BeingCancelled(j))
  BY DEF RunGoesOn, BeingCancelled
<1>6. /\ provider'[j] # "none" => task'[j] \in {"recording", "failing", "ended"} \cup Awaiting
      /\ task'[j] \in {"recording"} \cup Awaiting => provider'[j] # "none"
  BY <1>0, <1>1, <1>4 DEF TaskMove, Awaiting, Provided, Hosted, Calling, Shape
<1>7. provider'[j] \in Calling => stored'[j] \notin {"ready", "error"}
  BY <1>0, <1>1, <1>4 DEF TaskMove, Awaiting, Provided, Hosted, Calling
<1>8. task'[j] = "recording" /\ verdict'[j] = "ready" => provider'[j] = "result"
  BY <1>0, <1>1, <1>4, VerdictMoves DEF TaskMove, Awaiting, Provided, Hosted, Outlasts
<1>9. stored'[j] = "ready" => provider'[j] = "result"
  BY <1>0, <1>1, <1>4, VerdictMoves DEF TaskMove, Awaiting, Provided, Calling
<1>10. faults' = 0 /\ stored'[j] = "error" => provider'[j] # "none"
  BY <1>0, <1>1, <1>2, <1>4 DEF TaskMove, Awaiting, Provided, Hosted, Calling, Shape, TypeOK
<1>11. faults' = 0 /\ task'[j] \in Awaiting /\ BeingCancelled(j)'
         /\ future'[cancelling'[j]] = "result" => stored'[j] = "cancelled"
  BY <1>0, <1>1, <1>2, <1>4, <1>5 DEF TaskMove, Awaiting, Provided, RunGoesOn, callVars
<1>12. Provided(j)'
  BY <1>6, <1>7, <1>8, <1>9, <1>10, <1>11 DEF Provided, Awaiting
<1>13. IsFiniteSet(Submitted')
  <2>1. Submitted' \subseteq Submitted \cup {j}
    BY <1>1 DEF Others, Submitted
  <2>2. IsFiniteSet(Submitted \cup {j})
    BY <1>0, FS_AddElement
  <2> QED
    BY <2>1, <2>2, FS_Subset
<1> QED
  BY <1>3, <1>12, <1>13

LEMMA CallProvides ==
  ASSUME ProvidedInv, NEW c \in Callers, Cancel(c) \/ CallerStep(c)
  PROVE  IsFiniteSet(Submitted') /\ \A k \in Jobs : Provided(k)'
<1> DEFINE j == About[c]
<1>0. /\ j \in Jobs /\ BaseInv /\ ClaimInv /\ TypeOK /\ Shape(j) /\ Hosted(j) /\ CallShape(c)
      /\ (\A k \in Jobs : Provided(k)) /\ IsFiniteSet(Submitted)
  BY ConstantsAssumption DEF ProvidedInv, BaseInv, ClaimInv, SlotInv
<1>1. CallsApart(c) /\ CallMove(c)
  BY <1>0, CallFacts
<1>2. faults \in Nat /\ faults' \in Nat /\ (faults' = 0 => faults = 0)
  BY <1>0, <1>1 DEF TypeOK, CallMove, JoinsIn, Claims
<1>3. UNCHANGED verdict
  BY DEF Cancel, CallerStep, LookedUp, LookUpRaises, GraceEnds, CancelRecorded, CancelWriteRaises,
         JoinReturns, taskVars
<1>4. ASSUME NEW k \in Jobs \ {j} PROVE Provided(k)'
  <2>1. BeingCancelled(k) => cancelling[k] \in Callers /\ cancelling[k] # c
    BY <1>0, Claimant
  <2> QED
    BY <1>0, <1>1, <1>2, <1>3, <2>1 DEF CallsApart, TargetStays, Provided, Awaiting, BeingCancelled
<1>5. Provided(j)
  BY <1>0
<1>6. /\ task'[j] = task[j] \/ (task[j] = "queued" /\ task'[j] = "dropped")
           \/ (task[j] = "granted" /\ task'[j] = "returning")
      /\ provider'[j] = provider[j] \/ (provider[j] = "running" /\ provider'[j] = "asked")
      /\ stored'[j] \in {stored[j], "cancelled"}
  BY <1>1 DEF CallMove, JoinsIn, Claims, Answers, TargetStays, TargetMoves, AfterCancel
<1>7. task[j] \in Awaiting => j \in activeJobs
  BY <1>0 DEF Shape, Over, Awaiting
<1>8. faults' = 0 /\ task'[j] \in Awaiting /\ BeingCancelled(j)'
         /\ future'[cancelling'[j]] = "result" => stored'[j] = "cancelled"
  <2> SUFFICES ASSUME faults' = 0, task'[j] \in Awaiting, BeingCancelled(j)',
                      future'[cancelling'[j]] = "result"
               PROVE  stored'[j] = "cancelled"
    OBVIOUS
  <2>1. task[j] \in Awaiting /\ j \in activeJobs
    BY <1>6, <1>7 DEF Awaiting
  <2>2. CASE BeingCancelled(j) /\ cancelling'[j] = cancelling[j]
    <3>1. cancelling[j] \in Callers
      BY <1>0, <2>2, Claimant
    <3>2. future[cancelling[j]] = "result" \/ stored'[j] = "cancelled"
      BY <1>1, <2>2, <3>1 DEF CallMove, JoinsIn, Claims, CallsApart
    <3> QED
      BY <1>2, <1>5, <1>6, <2>1, <2>2, <3>2 DEF Provided, Awaiting
  <2>3. CASE ~(BeingCancelled(j) /\ cancelling'[j] = cancelling[j])
    <3>1. Claims(c) \/ stored'[j] = "cancelled"
      BY <1>1, <2>1, <2>3 DEF CallMove, JoinsIn, BeingCancelled
    <3> QED
      BY <3>1 DEF Claims
  <2> QED
    BY <2>2, <2>3
<1>9. Provided(j)'
  BY <1>2, <1>3, <1>5, <1>6, <1>8 DEF Provided, Awaiting, Calling
<1>10. IsFiniteSet(Submitted')
  <2>1. Submitted' \subseteq Submitted \cup {j}
    BY <1>1 DEF CallsApart, Submitted
  <2>2. IsFiniteSet(Submitted \cup {j})
    BY <1>0, FS_AddElement
  <2> QED
    BY <2>1, <2>2, FS_Subset
<1> QED
  BY <1>4, <1>9, <1>10

(* In every reachable state the provider's part agrees with the job's task, *)
(* its record and the cancellation under way, whatever the store does.      *)
THEOREM ProvidedKept == Spec => []ProvidedInv
<1>1. Init /\ BaseInv /\ SlotInv => ProvidedInv
  <2> SUFFICES ASSUME Init, BaseInv, SlotInv PROVE IsFiniteSet(Submitted) /\ \A j \in Jobs : Provided(j)
    BY DEF ProvidedInv
  <2>1. Submitted = {}
    BY DEF Init, Submitted
  <2> QED
    BY <2>1, FS_EmptySet DEF Init, Provided, Awaiting, Calling
<1>2. ProvidedInv /\ BaseInv' /\ SlotInv' /\ [Next]_vars => ProvidedInv'
  <2> SUFFICES ASSUME ProvidedInv, [Next]_vars
               PROVE  IsFiniteSet(Submitted') /\ \A j \in Jobs : Provided(j)'
    BY DEF ProvidedInv
  <2>1. ASSUME UNCHANGED vars
        PROVE  IsFiniteSet(Submitted') /\ \A j \in Jobs : Provided(j)'
    BY <2>1 DEF ProvidedInv, vars, Submitted, Provided, Awaiting, BeingCancelled
  <2> QED
    BY <2>1, TaskProvides, CallProvides DEF Next
<1> QED
  BY <1>1, <1>2, BaseKept, SlotInvKept, PTL DEF Spec

-----------------------------------------------------------------------------
(* Inside run().                                                            *)
Inside == {"working", "requesting", "reading", "closing", "saving", "threaded"}
Done == {"result", "raised", "gone"}

RunTypes ==
  /\ stage \in [Jobs -> Stage]
  /\ buffered \in [Jobs -> 0 .. MaxDownload]
  /\ body \in [Jobs -> Body]
  /\ clients \subseteq Jobs /\ part \subseteq Jobs /\ threads \subseteq Media
  /\ final \in [Jobs -> File]

(* The stage goes with the provider's state and its kind, and everything a  *)
(* run holds goes with its stage; the file it names is there once it has    *)
(* returned.                                                                *)
Staged(j) ==
  /\ stage[j] = "none" <=> provider[j] = "none"
  /\ stage[j] = "over" <=> provider[j] \in Done
  /\ stage[j] = "created" => task[j] = "providing"
  /\ stage[j] \in {"requesting", "reading", "closing", "saving"} => j \in Images
  /\ stage[j] = "threaded" => j \in Media
  /\ stage[j] = "working" => j \notin Images \cup Media
  /\ stage[j] = "saving" => provider[j] = "running" /\ body[j] = "image"
  /\ j \in clients => stage[j] \in {"requesting", "reading", "closing"}
  /\ buffered[j] # 0 => stage[j] \in {"reading", "closing"}
  /\ j \in threads => stage[j] = "threaded" \/ provider[j] = "gone"
  /\ final[j] = IF j \in Images /\ provider[j] = "result" THEN "whole" ELSE "none"

(* While the store answers, an image or media run that was stopped, and any *)
(* run stopped before its first step, was stopped by cancel() or by its     *)
(* job's timer, and a thread that outlived it is of such a job.             *)
Stopped(j) ==
  faults = 0 =>
    /\ j \in Images \cup Media /\ task[j] = "providing" /\ provider[j] \in {"asked", "gone"} =>
         BeingCancelled(j)
    /\ stage[j] = "created" /\ provider[j] = "asked" => BeingCancelled(j)
    /\ j \in threads => j \in activeJobs \/ BeingCancelled(j) \/ stored[j] \in {"error", "cancelled"}

(* A job whose timer struck after its run had ended is in `late`; "ready"   *)
(* is the verdict on the result of every other, and their errors are those  *)
(* of providers that raised or were stopped.                                *)
Timed(j) ==
  /\ task[j] = "expired" => j \in late
  /\ task[j] = "recording" /\ j \notin late => (verdict[j] = "ready" <=> provider[j] = "result")
  /\ faults = 0 /\ stored[j] = "error" /\ j \notin late => provider[j] \in {"raised", "gone"}

(* Every run is counted once on its way in and once on its way out, but for *)
(* those that were cancelled before their first step; while the store       *)
(* answers, no such job is or will be recorded as an error.                 *)
With(s) == {j \in Jobs : provider[j] = s}
InRun == {j \in Jobs : stage[j] \in Inside}
Uncounted(j) == faults = 0 =>
  /\ stored[j] # "error"
  /\ task[j] = "ended" \/ (task[j] \in {"providing", "expired"} /\ BeingCancelled(j))
GoneCounted(C) ==
  /\ C \subseteq With("gone") /\ runs["cancelled"] = Cardinality(C)
  /\ \A j \in With("gone") \ C : Uncounted(j)

CountInv ==
  /\ runs \in [Outcome -> Nat] /\ waits \in Nat /\ inFlight \in Nat
  /\ inFlight = Cardinality(InRun)
  /\ runs["ready"] = Cardinality(With("result"))
  /\ runs["error"] = Cardinality(With("raised"))
  /\ \E C : GoneCounted(C)
  /\ waits = inFlight + runs["ready"] + runs["error"] + runs["cancelled"]

RunInv ==
  /\ ProvidedInv /\ RunTypes /\ (\A j \in Jobs : Staged(j)) /\ (\A j \in Jobs : Stopped(j))
  /\ late \subseteq Jobs /\ (\A j \in Jobs : Timed(j))
  /\ CountInv

(* The sets that are counted are finite.                                    *)
LEMMA CountedFinite ==
  ASSUME RunInv
  PROVE  IsFiniteSet(InRun) /\ \A s \in Done : IsFiniteSet(With(s))
<1>1. /\ IsFiniteSet(Holders) /\ IsFiniteSet(Submitted)
      /\ \A j \in Jobs : Hosted(j) /\ Provided(j) /\ Shape(j) /\ Staged(j) /\ provider[j] \in ProviderState
      /\ stage \in [Jobs -> Stage]
  BY DEF RunInv, ProvidedInv, SlotInv, Counted, BaseInv, ClaimInv, TypeOK, RunTypes
<1>2. InRun \subseteq Holders
  BY <1>1 DEF InRun, Inside, Staged, Hosted, Holders, HoldersOf, HoldsSlot, Awaiting, ProviderState, Calling, Done
<1>3. \A s \in Done : With(s) \subseteq Submitted
  BY <1>1 DEF With, Done, Provided, Awaiting, Shape, Submitted
<1> QED
  BY <1>1, <1>2, <1>3, FS_Subset

-----------------------------------------------------------------------------
(* A step inside run(), as the invariants see it.                           *)
RunApart(j) ==
  /\ \A k \in Jobs \ {j} :
       /\ stage'[k] = stage[k] /\ provider'[k] = provider[k]
       /\ buffered'[k] = buffered[k] /\ body'[k] = body[k] /\ final'[k] = final[k]
       /\ (k \in clients' <=> k \in clients) /\ (k \in threads' <=> k \in threads)
  /\ UNCHANGED lifecycle

(* What the metrics see of it.                                              *)
RunMove(j) ==
  \/ /\ stage[j] \notin Inside /\ stage'[j] \in Inside /\ provider'[j] = provider[j] /\ Began
  \/ /\ stage[j] \in Inside <=> stage'[j] \in Inside
     /\ provider'[j] = provider[j] /\ UNCHANGED metrics
  \/ /\ stage[j] \in Inside /\ stage'[j] \notin Inside
     /\ provider[j] \in Calling /\ provider'[j] \in Done /\ Ended(provider'[j])
  \/ /\ stage[j] \notin Inside /\ stage'[j] \notin Inside
     /\ provider[j] \in Calling /\ provider'[j] \in {"result", "raised"}
     /\ runs' = [runs EXCEPT ![OutcomeOf(provider'[j])] = @ + 1]
     /\ waits' = waits + 1 /\ UNCHANGED inFlight
  \/ /\ stage[j] = "created" /\ stage'[j] \notin Inside
     /\ provider[j] = "asked" /\ provider'[j] = "gone" /\ UNCHANGED metrics

StageStep(j) ==
  /\ RunTypes' /\ RunApart(j) /\ RunMove(j) /\ Staged(j)' /\ stage'[j] # "created"
  /\ provider[j] = "none" <=> provider'[j] = "none"
  /\ provider'[j] \in {"asked", "gone"} => provider[j] \in {"asked", "gone"} \/ j \notin Images \cup Media
  /\ j \in threads' => j \in threads \/ provider[j] = "running"

LEMMA RunSteps ==
  ASSUME RunInv, NEW j \in Jobs, StepInRun(j)
  PROVE  StageStep(j)
<1>1. /\ provider \in [Jobs -> ProviderState] /\ Staged(j) /\ MaxDownload \in Nat \ {0}
      /\ Images \subseteq Jobs /\ Media \subseteq Jobs /\ Images \cap Media = {}
  BY ImagesAssumption DEF RunInv, ProvidedInv, BaseInv, ClaimInv, TypeOK
<1>2. RunTypes
  BY DEF RunInv
<1>3. provider[j] \in Calling => stage[j] \notin {"none", "over"}
  BY <1>1 DEF Staged, Calling, Done
<1> USE <1>1, <1>2, <1>3 DEF RunTypes, Stage, Body, File, Calling, Done, Inside, lifecycle, metrics, Go, At
<1>4. CASE NeverBegins(j)
  BY <1>4 DEF NeverBegins, StageStep, RunApart, RunMove, Staged, fetchVars, files
<1>5. CASE EndsAtOnce(j)
  BY <1>5 DEF EndsAtOnce, StageStep, RunApart, RunMove, Staged, fetchVars, files
<1>6. CASE OtherBegins(j)
  BY <1>6 DEF OtherBegins, StageStep, RunApart, RunMove, Staged, fetchVars, files
<1>7. CASE OtherEnds(j)
  <2>1. \E how \in Done : provider' = [provider EXCEPT ![j] = how]
    BY <1>7 DEF OtherEnds, ProviderEnds
  <2>2. provider[j] \in Calling /\ UNCHANGED lifecycle
    BY <1>7 DEF OtherEnds, ProviderEnds, storeVars, slotVars, callVars
  <2> QED
    BY <1>7, <2>1, <2>2 DEF OtherEnds, StageStep, RunApart, RunMove, Staged, fetchVars, files
<1>8. CASE MediaBegins(j)
  BY <1>8 DEF MediaBegins, StageStep, RunApart, RunMove, Staged, fetchVars
<1>9. CASE ThreadEnds(j)
  BY <1>9 DEF ThreadEnds, StageStep, RunApart, RunMove, Staged, fetchVars
<1>10. CASE MediaEnds(j)
  BY <1>10 DEF MediaEnds, Ends, StageStep, RunApart, RunMove, Staged, fetchVars, files
<1>11. CASE ImageBegins(j)
  BY <1>11 DEF ImageBegins, StageStep, RunApart, RunMove, Staged, files
<1>12. CASE Headers(j)
  BY <1>12 DEF Headers, Leave, StageStep, RunApart, RunMove, Staged, files
<1>13. CASE Chunk(j)
  BY <1>13 DEF Chunk, TooLong, Leave, StageStep, RunApart, RunMove, Staged, files
<1>14. CASE BodyEnds(j)
  BY <1>14 DEF BodyEnds, Leave, StageStep, RunApart, RunMove, Staged, files
<1>15. CASE Fetched(j)
  BY <1>15 DEF Fetched, Accepted, FirstWrite, ClientClosed, Ends, StageStep, RunApart, RunMove, Staged
<1>16. CASE Saved(j)
  BY <1>16 DEF Saved, Ends, StageStep, RunApart, RunMove, Staged, fetchVars
<1>17. CASE Unwinds(j)
  BY <1>17 DEF Unwinds, Leave, Ends, StageStep, RunApart, RunMove, Staged, files
<1> QED
  BY <1>4, <1>5, <1>6, <1>7, <1>8, <1>9, <1>10, <1>11, <1>12, <1>13, <1>14, <1>15, <1>16, <1>17 DEF StepInRun

(* A run that is stopped inside run() was asked to stop before.             *)
LEMMA RunStops ==
  ASSUME RunInv, NEW j \in Jobs, StageStep(j)
  PROVE  /\ \A k \in Jobs : Staged(k)'
         /\ \A k \in Jobs : Stopped(k)'
<1>1. /\ RunApart(j) /\ Staged(j)' /\ (\A k \in Jobs : Staged(k) /\ Stopped(k))
      /\ Provided(j) /\ Hosted(j) /\ Shape(j)
  BY DEF StageStep, RunInv, ProvidedInv, SlotInv, BaseInv
<1>2. \A k \in Jobs : Staged(k)'
  BY <1>1 DEF RunApart, lifecycle, Staged
<1>3. ASSUME NEW k \in Jobs \ {j} PROVE Stopped(k)'
  BY <1>1 DEF RunApart, lifecycle, Stopped, BeingCancelled
<1>4. provider[j] = "running" => j \in activeJobs
  BY <1>1 DEF Hosted, Awaiting, Calling, Shape, Over
<1>5. Stopped(j)'
  BY <1>1, <1>4 DEF RunApart, lifecycle, StageStep, Stopped, BeingCancelled
<1> QED
  BY <1>2, <1>3, <1>5

(* A step inside run() changes at most j's own place in what is counted.    *)
LEMMA CountedMoves ==
  ASSUME RunInv, NEW j \in Jobs, RunApart(j)
  PROVE  /\ (stage[j] \in Inside <=> stage'[j] \in Inside) => InRun' = InRun
         /\ stage[j] \notin Inside /\ stage'[j] \in Inside =>
              Cardinality(InRun') = Cardinality(InRun) + 1
         /\ stage[j] \in Inside /\ stage'[j] \notin Inside =>
              Cardinality(InRun') = Cardinality(InRun) - 1 /\ Cardinality(InRun) > 0
         /\ \A s \in Done :
              /\ (provider[j] = s <=> provider'[j] = s) => With(s)' = With(s)
              /\ provider[j] # s /\ provider'[j] = s =>
                   With(s)' = With(s) \cup {j} /\ Cardinality(With(s)') = Cardinality(With(s)) + 1
<1>0. \A k \in Jobs \ {j} : stage'[k] = stage[k] /\ provider'[k] = provider[k]
  BY DEF RunApart
<1>1. IsFiniteSet(InRun) /\ (\A s \in Done : IsFiniteSet(With(s)))
  BY CountedFinite
<1>2. (stage[j] \in Inside <=> stage'[j] \in Inside) => InRun' = InRun
  BY <1>0 DEF InRun
<1>3. stage[j] \notin Inside /\ stage'[j] \in Inside => Cardinality(InRun') = Cardinality(InRun) + 1
  <2>1. stage[j] \notin Inside /\ stage'[j] \in Inside => InRun' = InRun \cup {j} /\ j \notin InRun
    BY <1>0 DEF InRun
  <2> QED
    BY <1>1, <2>1, FS_AddElement
<1>4. stage[j] \in Inside /\ stage'[j] \notin Inside =>
        Cardinality(InRun') = Cardinality(InRun) - 1 /\ Cardinality(InRun) > 0
  <2>1. stage[j] \in Inside /\ stage'[j] \notin Inside => InRun' = InRun \ {j} /\ j \in InRun
    BY <1>0 DEF InRun
  <2>2. j \in InRun => Cardinality(InRun) # 0 /\ Cardinality(InRun) \in Nat
    BY <1>1, FS_EmptySet, FS_CardinalityType
  <2> QED
    BY <1>1, <2>1, <2>2, FS_RemoveElement
<1>5. ASSUME NEW s \in Done, provider[j] = s <=> provider'[j] = s PROVE With(s)' = With(s)
  BY <1>0, <1>5 DEF With
<1>6. ASSUME NEW s \in Done, provider[j] # s, provider'[j] = s
      PROVE  With(s)' = With(s) \cup {j} /\ Cardinality(With(s)') = Cardinality(With(s)) + 1
  <2>1. With(s)' = With(s) \cup {j} /\ j \notin With(s)
    BY <1>0, <1>6 DEF With
  <2> QED
    BY <1>1, <2>1, FS_AddElement
<1> QED
  BY <1>2, <1>3, <1>4, <1>5, <1>6

LEMMA RunCounts ==
  ASSUME RunInv, NEW j \in Jobs, StageStep(j)
  PROVE  CountInv'
<1>0. /\ RunApart(j) /\ RunMove(j) /\ CountInv /\ Staged(j) /\ Staged(j)' /\ Provided(j)
      /\ provider[j] \in Calling => stored[j] # "error"
  BY DEF StageStep, RunInv, ProvidedInv, Provided, Awaiting
<1>1. /\ runs \in [Outcome -> Nat] /\ waits \in Nat /\ inFlight \in Nat
      /\ inFlight = Cardinality(InRun)
      /\ runs["ready"] = Cardinality(With("result"))
      /\ runs["error"] = Cardinality(With("raised"))
      /\ waits = inFlight + runs["ready"] + runs["error"] + runs["cancelled"]
  BY <1>0 DEF CountInv
<1>2. PICK C : GoneCounted(C)
  BY <1>0 DEF CountInv
<1>3. /\ C \subseteq With("gone") /\ runs["cancelled"] = Cardinality(C) /\ IsFiniteSet(C)
      /\ \A k \in With("gone") \ C : Uncounted(k)
  <2>1. IsFiniteSet(With("gone"))
    BY CountedFinite DEF Done
  <2> QED
    BY <1>2, <2>1, FS_Subset DEF GoneCounted
<1>4. \A k \in Jobs : Uncounted(k)' <=> Uncounted(k)
  BY <1>0 DEF RunApart, lifecycle, Uncounted, BeingCancelled
<1>5. /\ (stage[j] \in Inside <=> stage'[j] \in Inside) => InRun' = InRun
      /\ stage[j] \notin Inside /\ stage'[j] \in Inside =>
           Cardinality(InRun') = Cardinality(InRun) + 1
      /\ stage[j] \in Inside /\ stage'[j] \notin Inside =>
           Cardinality(InRun') = Cardinality(InRun) - 1 /\ Cardinality(InRun) > 0
      /\ \A s \in Done :
           /\ (provider[j] = s <=> provider'[j] = s) => With(s)' = With(s)
           /\ provider[j] # s /\ provider'[j] = s =>
                With(s)' = With(s) \cup {j} /\ Cardinality(With(s)') = Cardinality(With(s)) + 1
  BY <1>0, CountedMoves
<1>6. OutcomeOf("result") = "ready" /\ OutcomeOf("raised") = "error" /\ OutcomeOf("gone") = "cancelled"
  BY DEF OutcomeOf
<1>7. provider[j] \in Calling => provider[j] \notin Done
  BY DEF Calling, Done
(* How the counts of runs and the jobs they count go together.              *)
<1>8. ASSUME provider'[j] = provider[j], runs' = runs
      PROVE  /\ runs'["ready"] = Cardinality(With("result"))' /\ runs'["error"] = Cardinality(With("raised"))'
             /\ GoneCounted(C)'
  <2>1. \A s \in Done : With(s)' = With(s)
    BY <1>5, <1>8
  <2> QED
    BY <1>1, <1>3, <1>4, <1>8, <2>1 DEF GoneCounted, Done, With
<1>9. ASSUME provider[j] \in Calling, provider'[j] \in Done,
             runs' = [runs EXCEPT ![OutcomeOf(provider'[j])] = @ + 1]
      PROVE  /\ runs'["ready"] = Cardinality(With("result"))' /\ runs'["error"] = Cardinality(With("raised"))'
             /\ \E D : GoneCounted(D)'
             /\ runs' \in [Outcome -> Nat]
             /\ runs'["ready"] + runs'["error"] + runs'["cancelled"]
                  = runs["ready"] + runs["error"] + runs["cancelled"] + 1
  <2>1. CASE provider'[j] = "result"
    <3>1. /\ Cardinality(With("result")') = Cardinality(With("result")) + 1
          /\ With("raised")' = With("raised") /\ With("gone")' = With("gone")
      BY <1>5, <1>7, <1>9, <2>1 DEF Done
    <3>2. runs' = [runs EXCEPT !["ready"] = @ + 1]
      BY <1>6, <1>9, <2>1
    <3>3. GoneCounted(C)'
      BY <1>1, <1>3, <1>4, <3>1, <3>2 DEF GoneCounted, Outcome, With
    <3> QED
      BY <1>1, <3>1, <3>2, <3>3 DEF Outcome
  <2>2. CASE provider'[j] = "raised"
    <3>1. /\ Cardinality(With("raised")') = Cardinality(With("raised")) + 1
          /\ With("result")' = With("result") /\ With("gone")' = With("gone")
      BY <1>5, <1>7, <1>9, <2>2 DEF Done
    <3>2. runs' = [runs EXCEPT !["error"] = @ + 1]
      BY <1>6, <1>9, <2>2
    <3>3. GoneCounted(C)'
      BY <1>1, <1>3, <1>4, <3>1, <3>2 DEF GoneCounted, Outcome, With
    <3> QED
      BY <1>1, <3>1, <3>2, <3>3 DEF Outcome
  <2>3. CASE provider'[j] = "gone"
    <3>1. /\ With("gone")' = With("gone") \cup {j}
          /\ With("result")' = With("result") /\ With("raised")' = With("raised")
      BY <1>5, <1>7, <1>9, <2>3 DEF Done
    <3>2. runs' = [runs EXCEPT !["cancelled"] = @ + 1]
      BY <1>6, <1>9, <2>3
    <3>3. j \notin C
      BY <1>3, <1>7, <1>9 DEF With, Done
    <3>4. Cardinality(C \cup {j}) = Cardinality(C) + 1
      BY <1>3, <3>3, FS_AddElement
    <3>5. runs'["cancelled"] = Cardinality(C \cup {j})
      BY <1>1, <1>3, <3>2, <3>4 DEF Outcome
    <3>6. C \cup {j} \subseteq With("gone")' /\ \A k \in With("gone")' \ (C \cup {j}) : Uncounted(k)'
      BY <1>3, <1>4, <3>1 DEF With
    <3>7. GoneCounted(C \cup {j})'
      BY <3>5, <3>6 DEF GoneCounted
    <3> QED
      BY <1>1, <3>1, <3>2, <3>7 DEF Outcome
  <2> QED
    BY <1>9, <2>1, <2>2, <2>3 DEF Done
<1>10. ASSUME stage[j] \notin Inside, stage'[j] \in Inside, provider'[j] = provider[j], Began
       PROVE  CountInv'
  <2>1. Cardinality(InRun') = Cardinality(InRun) + 1
    BY <1>5, <1>10
  <2>2. runs' = runs /\ waits' = waits + 1 /\ inFlight' = inFlight + 1
    BY <1>10 DEF Began
  <2>3. waits' = inFlight' + runs'["ready"] + runs'["error"] + runs'["cancelled"] /\ waits' \in Nat
    BY <1>1, <2>2 DEF Outcome
  <2>4. inFlight' \in Nat /\ inFlight' = Cardinality(InRun)'
    BY <1>1, <2>1, <2>2
  <2> QED
    BY <1>1, <1>8, <1>10, <2>2, <2>3, <2>4 DEF CountInv
<1>11. ASSUME stage[j] \in Inside <=> stage'[j] \in Inside, provider'[j] = provider[j], UNCHANGED metrics
       PROVE  CountInv'
  <2>1. InRun' = InRun
    BY <1>5, <1>11
  <2>2. runs' = runs /\ waits' = waits /\ inFlight' = inFlight
    BY <1>11 DEF metrics
  <2> QED
    BY <1>1, <1>8, <1>11, <2>1, <2>2 DEF CountInv
<1>12. ASSUME stage[j] \in Inside, stage'[j] \notin Inside,
              provider[j] \in Calling, provider'[j] \in Done, Ended(provider'[j])
       PROVE  CountInv'
  <2>1. Cardinality(InRun') = Cardinality(InRun) - 1 /\ Cardinality(InRun) > 0
    BY <1>5, <1>12
  <2>2. /\ runs' = [runs EXCEPT ![OutcomeOf(provider'[j])] = @ + 1]
        /\ waits' = waits /\ inFlight' = inFlight - 1
    BY <1>12 DEF Ended
  <2>3. inFlight' \in Nat /\ inFlight' = Cardinality(InRun)'
    BY <1>1, <2>1, <2>2
  <2>4. /\ runs'["ready"] = Cardinality(With("result"))' /\ runs'["error"] = Cardinality(With("raised"))'
        /\ (\E D : GoneCounted(D)') /\ runs' \in [Outcome -> Nat]
        /\ runs'["ready"] + runs'["error"] + runs'["cancelled"]
             = runs["ready"] + runs["error"] + runs["cancelled"] + 1
    BY <1>9, <1>12, <2>2
  <2>5. waits' = inFlight' + runs'["ready"] + runs'["error"] + runs'["cancelled"] /\ waits' \in Nat
    BY <1>1, <2>2, <2>4 DEF Outcome
  <2> QED
    BY <2>3, <2>4, <2>5 DEF CountInv
<1>13. ASSUME stage[j] \notin Inside, stage'[j] \notin Inside,
              provider[j] \in Calling, provider'[j] \in {"result", "raised"},
              runs' = [runs EXCEPT ![OutcomeOf(provider'[j])] = @ + 1],
              waits' = waits + 1, UNCHANGED inFlight
       PROVE  CountInv'
  <2>1. InRun' = InRun
    BY <1>5, <1>13
  <2>2. /\ runs'["ready"] = Cardinality(With("result"))' /\ runs'["error"] = Cardinality(With("raised"))'
        /\ (\E D : GoneCounted(D)') /\ runs' \in [Outcome -> Nat]
        /\ runs'["ready"] + runs'["error"] + runs'["cancelled"]
             = runs["ready"] + runs["error"] + runs["cancelled"] + 1
    BY <1>9, <1>13 DEF Done
  <2>3. waits' = inFlight' + runs'["ready"] + runs'["error"] + runs'["cancelled"] /\ waits' \in Nat
    BY <1>1, <1>13, <2>2 DEF Outcome
  <2> QED
    BY <1>1, <1>13, <2>1, <2>2, <2>3 DEF CountInv
<1>14. ASSUME stage[j] = "created", stage'[j] \notin Inside,
              provider[j] = "asked", provider'[j] = "gone", UNCHANGED metrics
       PROVE  CountInv'
  <2>1. InRun' = InRun
    BY <1>5, <1>14 DEF Inside
  <2>2. runs' = runs /\ waits' = waits /\ inFlight' = inFlight
    BY <1>14 DEF metrics
  <2>3. /\ With("gone")' = With("gone") \cup {j}
        /\ With("result")' = With("result") /\ With("raised")' = With("raised")
    BY <1>5, <1>14 DEF Done
  <2>4. Uncounted(j)'
    BY <1>0, <1>4, <1>14 DEF RunInv, Staged, Stopped, Uncounted, Calling
  <2>5. C \subseteq With("gone")' /\ \A k \in With("gone")' \ C : Uncounted(k)'
    BY <1>3, <1>4, <2>3, <2>4 DEF With
  <2>6. GoneCounted(C)'
    BY <1>3, <2>2, <2>5 DEF GoneCounted
  <2> QED
    BY <1>1, <2>1, <2>2, <2>3, <2>6 DEF CountInv
<1> QED
  BY <1>0, <1>10, <1>11, <1>12, <1>13, <1>14 DEF RunMove

-----------------------------------------------------------------------------
(* A step of the manager, as the invariants see it: a provider is started   *)
(* or asked to stop, run() has begun before its timer fires, and nothing is *)
(* written for a job whose provider is gone but not counted.                *)
Managed(k) ==
  /\ \/ provider'[k] = provider[k]
     \/ provider[k] = "none" /\ provider'[k] = "running" /\ task'[k] = "providing"
     \/ provider[k] \in Calling /\ provider'[k] = "asked"
  /\ stage[k] = "created" => task'[k] = "providing"
  /\ provider[k] = "gone" /\ Uncounted(k) => Uncounted(k)'

Created == stage' = [j \in Jobs |-> IF provider[j] = "none" /\ provider'[j] # "none"
                                       THEN "created" ELSE stage[j]]

LEMMA TaskManages ==
  ASSUME RunInv, NEW j \in Jobs, Submit(j) \/ TaskStep(j) \/ (stage[j] # "created" /\ JobTimesOut(j)),
         threads' = threads, Created
  PROVE  \A k \in Jobs : Managed(k) /\ Stopped(k)'
<1>0. /\ BaseInv /\ ClaimInv /\ TypeOK /\ (\A k \in Jobs : Provided(k) /\ Staged(k) /\ Stopped(k) /\ Hosted(k))
      /\ Shape(j) /\ ImagesAssumption
  BY ImagesAssumption DEF RunInv, ProvidedInv, SlotInv, BaseInv, ClaimInv
<1>1. Others(j) /\ TaskMove(j) /\ UNCHANGED callVars
  BY <1>0, TaskFacts
<1>2. faults \in Nat /\ faults' \in Nat /\ (faults' = 0 => faults = 0)
  BY <1>0, <1>1 DEF TypeOK, TaskMove, Awaiting
<1>3. \/ provider'[j] = provider[j]
      \/ task[j] = "marking" /\ task'[j] = "providing" /\ provider'[j] = "running"
      \/ JobTimesOut(j)
  BY <1>0 DEF Submit, TaskStep, Begin, TakeSlot, LeaveSlotWait, Marked, ProviderReturns, Awaiting, Recorded,
              WriteRaises, FailureRecorded, FailureLost, TypeOK
<1>4. task[j] = "providing" /\ ~JobTimesOut(j) => provider[j] \in Done
  BY <1>0 DEF Submit, TaskStep, Begin, TakeSlot, LeaveSlotWait, Marked, ProviderReturns, Awaiting, Recorded,
              WriteRaises, FailureRecorded, FailureLost, Shape, Done
<1>5. JobTimesOut(j) => /\ task[j] = "providing" /\ task'[j] \in {"unwinding", "expired"}
                        /\ \/ provider[j] \in Calling /\ provider'[j] = "asked"
                           \/ provider'[j] = provider[j]
  BY <1>0 DEF JobTimesOut, TypeOK
<1>13. JobTimesOut(j) => stage[j] # "created"
  <2>1. ASSUME Submit(j) \/ TaskStep(j), JobTimesOut(j) PROVE provider[j] \in Done
    BY <1>0, <2>1 DEF JobTimesOut, Submit, TaskStep, Begin, TakeSlot, LeaveSlotWait, Marked, ProviderReturns,
                      Recorded, WriteRaises, FailureRecorded, FailureLost, Shape, Done
  <2> QED
    BY <1>0, <2>1 DEF Staged
<1>6. ASSUME NEW k \in Jobs \ {j} PROVE Managed(k) /\ Stopped(k)'
  <2>1. /\ task'[k] = task[k] \/ (task[k] = "queued" /\ task'[k] = "granted")
        /\ stored'[k] = stored[k] /\ provider'[k] = provider[k]
        /\ cancelling'[k] = cancelling[k] /\ (k \in activeJobs' <=> k \in activeJobs)
    BY <1>1 DEF Others
  <2>2. Staged(k) /\ Stopped(k)
    BY <1>0
  <2>3. Managed(k)
    BY <1>2, <2>1, <2>2 DEF Managed, Staged, Uncounted, BeingCancelled
  <2>4. Stopped(k)'
    BY <1>2, <2>1, <2>2 DEF Stopped, BeingCancelled, Created
  <2> QED
    BY <2>3, <2>4
<1>7. Provided(j) /\ Staged(j) /\ Stopped(j) /\ Hosted(j)
  BY <1>0
<1>8. Managed(j)
  <2>1. task[j] = "marking" => provider[j] = "none"
    BY <1>7 DEF Provided, Awaiting
  <2>2. stage[j] = "created" => task[j] = "providing" /\ provider[j] \notin Done
    BY <1>7 DEF Staged
  <2>3. stage[j] = "created" => FALSE
    BY <1>4, <1>13, <2>2
  <2>4. provider[j] = "gone" /\ Uncounted(j) => Uncounted(j)'
    BY <1>0, <1>1, <1>2, <1>7 DEF Uncounted, RunGoesOn, BeingCancelled, TaskMove, Awaiting, Escapes, Calling, Shape
  <2>5. stage[j] # "created"
    BY <2>3
  <2> QED
    BY <1>3, <1>5, <2>1, <2>4, <2>5 DEF Managed
<1>9. ASSUME faults' = 0, j \in Images \cup Media, task'[j] = "providing", provider'[j] \in {"asked", "gone"}
      PROVE  BeingCancelled(j)'
  <2>1. task[j] = "providing" /\ provider'[j] = provider[j] /\ ~JobTimesOut(j)
    BY <1>1, <1>3, <1>5, <1>9 DEF TaskMove, Awaiting
  <2>2. provider[j] \in Done /\ BeingCancelled(j)
    BY <1>2, <1>4, <1>7, <1>9, <2>1 DEF Stopped
  <2> QED
    BY <1>1, <1>9, <2>1, <2>2 DEF TaskMove, Awaiting, RunGoesOn, BeingCancelled
<1>10. ASSUME faults' = 0, j \in threads
       PROVE  j \in activeJobs' \/ BeingCancelled(j)' \/ stored'[j] \in {"error", "cancelled"}
  <2>1. /\ j \in Media /\ provider[j] # "none" /\ (provider[j] \notin Calling => provider[j] = "gone")
        /\ j \in activeJobs \/ BeingCancelled(j) \/ stored[j] \in {"error", "cancelled"}
    BY <1>0, <1>2, <1>7, <1>10 DEF Staged, Stopped, RunInv, RunTypes, Done, Calling, TypeOK, ProviderState
  <2>2. CASE task[j] \in Awaiting /\ task'[j] = "ended"
    <3>1. provider[j] = "gone" /\ EndRunPhase(j) /\ (BeingCancelled(j) \/ task[j] = "providing") /\ stored'[j] = stored[j]
      BY <1>1, <2>1, <2>2 DEF TaskMove, Awaiting, Escapes
    <3>2. BeingCancelled(j)
      BY <1>2, <1>7, <1>10, <2>1, <3>1 DEF Stopped
    <3>3. future[cancelling[j]] \in {"pending", "result"}
      BY <1>0, <3>2, Claimant
    <3>4. CASE future[cancelling[j]] = "result"
      BY <1>2, <1>7, <1>10, <2>2, <3>1, <3>2, <3>4 DEF Provided, Awaiting
    <3>5. CASE future[cancelling[j]] = "pending"
      BY <3>1, <3>2, <3>5 DEF EndRunPhase, Settled, BeingCancelled
    <3> QED
      BY <3>3, <3>4, <3>5
  <2>3. CASE task[j] = "recording" /\ task'[j] = "ended"
    <3>1. provider[j] = "gone"
      BY <1>7, <2>1, <2>3 DEF Hosted, Awaiting
    <3>2. stored'[j] = verdict[j] /\ verdict[j] # "ready"
      BY <1>0, <1>7, <2>3, <3>1, VerdictMoves DEF Provided, Awaiting
    <3> QED
      BY <1>0, <3>2 DEF TypeOK
  <2>4. CASE ~(task[j] \in {"recording"} \cup Awaiting /\ task'[j] = "ended")
    BY <1>0, <1>1, <1>2, <1>7, <1>10, <2>1, <2>4
    DEF TaskMove, Awaiting, RunGoesOn, Provided, Shape, BeingCancelled, Hosted, Over
  <2> QED
    BY <2>2, <2>3, <2>4
<1>11. ~(stage'[j] = "created" /\ provider'[j] = "asked")
  <2>1. stage[j] = "created" => FALSE
    BY <1>4, <1>7, <1>13 DEF Staged, Done
  <2>2. provider[j] = "none" => provider'[j] # "asked"
    BY <1>3, <1>5, <1>7 DEF Provided, Awaiting
  <2> QED
    BY <2>1, <2>2 DEF Created
<1>12. Stopped(j)'
  BY <1>9, <1>10, <1>11 DEF Stopped
<1> QED
  BY <1>6, <1>8, <1>12

LEMMA CallManages ==
  ASSUME RunInv, NEW c \in Callers, Cancel(c) \/ CallerStep(c), threads' = threads, Created
  PROVE  \A k \in Jobs : Managed(k) /\ Stopped(k)'
<1> DEFINE j == About[c]
<1>0. /\ j \in Jobs /\ BaseInv /\ ClaimInv /\ TypeOK /\ Shape(j)
      /\ (\A k \in Jobs : Provided(k) /\ Staged(k) /\ Stopped(k))
  BY ConstantsAssumption DEF RunInv, ProvidedInv, BaseInv, ClaimInv
<1>1. CallsApart(c) /\ CallMove(c)
  BY <1>0, CallFacts
<1>2. faults \in Nat /\ faults' \in Nat /\ (faults' = 0 => faults = 0)
  BY <1>0, <1>1 DEF TypeOK, CallMove, JoinsIn, Claims
<1>3. ASSUME NEW k \in Jobs \ {j} PROVE Managed(k) /\ Stopped(k)'
  <2>1. /\ task'[k] = task[k] /\ stored'[k] = stored[k] /\ provider'[k] = provider[k]
        /\ cancelling'[k] = cancelling[k] /\ activeJobs' = activeJobs
    BY <1>1 DEF CallsApart, TargetStays
  <2>2. Staged(k) /\ Stopped(k)
    BY <1>0
  <2>3. Managed(k)
    BY <1>2, <2>1, <2>2 DEF Managed, Staged, Uncounted, BeingCancelled
  <2>4. Stopped(k)'
    BY <1>2, <2>1, <2>2 DEF Stopped, BeingCancelled, Created
  <2> QED
    BY <2>3, <2>4
<1>4. /\ task'[j] = task[j] \/ (task[j] = "queued" /\ task'[j] = "dropped")
           \/ (task[j] = "granted" /\ task'[j] = "returning")
      /\ provider'[j] = provider[j] \/ (provider[j] = "running" /\ provider'[j] = "asked" /\ Claims(c))
      /\ stored'[j] \in {stored[j], "cancelled"}
  BY <1>1 DEF CallMove, JoinsIn, Claims, Answers, TargetStays, TargetMoves, AfterCancel
<1>5. Staged(j) /\ Stopped(j) /\ Provided(j)
  BY <1>0
<1>6. Managed(j)
  <2>1. /\ \/ provider'[j] = provider[j]
           \/ provider[j] \in Calling /\ provider'[j] = "asked"
        /\ stage[j] = "created" => task'[j] = "providing"
    BY <1>4, <1>5 DEF Staged, Calling
  <2>2. ASSUME Uncounted(j), faults' = 0
        PROVE  /\ stored'[j] # "error"
               /\ task'[j] = "ended" \/ (task'[j] \in {"providing", "expired"} /\ BeingCancelled(j)')
    <3>1. /\ stored[j] # "error" /\ task'[j] = task[j]
          /\ task[j] = "ended" \/ (task[j] \in {"providing", "expired"} /\ BeingCancelled(j))
      BY <1>2, <1>4, <2>2 DEF Uncounted
    <3>2. task[j] \in {"providing", "expired"} => j \in activeJobs
      BY <1>0 DEF Shape, Over
    <3> QED
      BY <1>0, <1>4, <2>2, <3>1, <3>2, ClaimStays
  <2> QED
    BY <2>1, <2>2 DEF Managed, Uncounted
<1>7. activeJobs' = activeJobs
  BY <1>1 DEF CallsApart
<1>8. Claims(c) => BeingCancelled(j)'
  BY ConstantsAssumption DEF Claims, BeingCancelled
<1>9. ASSUME faults' = 0, j \in Images \cup Media, task'[j] = "providing", provider'[j] \in {"asked", "gone"}
      PROVE  BeingCancelled(j)'
  <2>1. task[j] = "providing" /\ j \in activeJobs
    BY <1>0, <1>4, <1>9 DEF Shape, Over
  <2>2. CASE provider'[j] = provider[j]
    <3>1. BeingCancelled(j)
      BY <1>2, <1>5, <1>9, <2>1, <2>2 DEF Stopped
    <3> QED
      BY <1>0, <1>9, <2>1, <3>1, ClaimStays
  <2> QED
    BY <1>4, <1>8, <2>2
<1>10. ASSUME faults' = 0, j \in threads
       PROVE  j \in activeJobs' \/ BeingCancelled(j)' \/ stored'[j] \in {"error", "cancelled"}
  <2>1. j \in activeJobs \/ BeingCancelled(j) \/ stored[j] \in {"error", "cancelled"}
    BY <1>2, <1>5, <1>10 DEF Stopped
  <2>2. BeingCancelled(j) => BeingCancelled(j)' \/ stored'[j] = "cancelled"
    BY <1>1, <1>2, <1>8, <1>10 DEF CallMove, JoinsIn, BeingCancelled
  <2> QED
    BY <1>4, <1>7, <2>1, <2>2
<1>11. ASSUME faults' = 0, stage'[j] = "created", provider'[j] = "asked" PROVE BeingCancelled(j)'
  <2>1. stage[j] = "created" /\ task[j] = "providing" /\ j \in activeJobs
    BY <1>0, <1>4, <1>5, <1>11 DEF Created, Staged, Shape, Over
  <2>2. CASE provider'[j] = provider[j]
    <3>1. BeingCancelled(j)
      BY <1>2, <1>5, <1>11, <2>1, <2>2 DEF Stopped
    <3> QED
      BY <1>0, <1>11, <2>1, <3>1, ClaimStays
  <2> QED
    BY <1>4, <1>8, <2>2
<1>12. Stopped(j)'
  BY <1>9, <1>10, <1>11 DEF Stopped
<1> QED
  BY <1>3, <1>6, <1>12

(* Whose timer struck too late stays known.                                 *)
LEMMA ManagerTimes ==
  ASSUME RunInv, ManagerStep
  PROVE  late' \subseteq Jobs /\ \A k \in Jobs : Timed(k)'
<1>0. /\ BaseInv /\ ClaimInv /\ TypeOK /\ late \subseteq Jobs
      /\ \A k \in Jobs : Provided(k) /\ Timed(k) /\ Shape(k) /\ Hosted(k)
      /\ late' = late \cup {j \in Jobs : task'[j] = "expired"}
  BY DEF RunInv, ProvidedInv, SlotInv, BaseInv, ClaimInv, ManagerStep
<1>1. ASSUME NEW j \in Jobs, Submit(j) \/ TaskStep(j) \/ JobTimesOut(j), NEW k \in Jobs
      PROVE  Timed(k)'
  <2>1. Others(j) /\ TaskMove(j)
    BY <1>0, <1>1, TaskFacts
  <2>2. faults \in Nat /\ faults' \in Nat /\ (faults' = 0 => faults = 0)
    BY <1>0, <2>1 DEF TypeOK, TaskMove
  <2>3. CASE k # j
    <3>1. verdict'[k] = verdict[k]
      BY <1>0, <1>1, <2>3, VerdictMoves
    <3> QED
      BY <1>0, <2>1, <2>2, <2>3, <3>1 DEF Others, Timed
  <2>4. Timed(j)'
    <3>1. task'[j] = "recording" /\ j \notin late' => (verdict'[j] = "ready" <=> provider'[j] = "result")
      <4> SUFFICES ASSUME task'[j] = "recording", j \notin late'
                   PROVE  verdict'[j] = "ready" <=> provider'[j] = "result"
        OBVIOUS
      <4>1. task[j] # "expired" /\ j \notin late
        BY <1>0 DEF Timed
      <4>2. CASE task[j] \in Awaiting
        <5>1. provider'[j] = provider[j]
          BY <2>1, <4>2 DEF TaskMove, Awaiting
        <5> QED
          BY <1>0, <1>1, <4>1, <4>2, <5>1, VerdictMoves DEF Outlasts
      <4>3. CASE task[j] \notin Awaiting
        <5>1. task[j] = "recording" /\ provider[j] \notin Calling
          BY <1>0, <2>1, <4>3 DEF TaskMove, Awaiting, Hosted
        <5>2. verdict'[j] = verdict[j] /\ provider'[j] = provider[j]
          BY <1>0, <1>1, <2>1, <4>3, <5>1, VerdictMoves DEF TaskMove, Awaiting
        <5> QED
          BY <1>0, <4>1, <5>1, <5>2 DEF Timed
      <4> QED
        BY <4>2, <4>3
    <3>2. ASSUME faults' = 0, stored'[j] = "error", j \notin late'
          PROVE  provider'[j] \in {"raised", "gone"}
      <4>1. j \notin late /\ provider[j] \in ProviderState
        BY <1>0, <3>2 DEF TypeOK
      <4>2. CASE stored[j] = "error"
        <5>1. provider[j] \in {"raised", "gone"} /\ task[j] # "marking"
          BY <1>0, <2>2, <3>2, <4>1, <4>2 DEF Timed, Provided, Awaiting
        <5> QED
          BY <2>1, <5>1 DEF TaskMove, Calling
      <4>3. CASE stored[j] # "error"
        <5>1. task[j] = "recording" /\ task'[j] = "ended" /\ provider'[j] = provider[j]
          BY <1>0, <2>1, <2>2, <3>2, <4>3 DEF TaskMove, Provided, Awaiting, Shape, TypeOK
        <5>2. verdict[j] = "error" /\ provider[j] \notin Calling /\ provider[j] # "none"
          BY <1>0, <1>1, <3>2, <5>1, VerdictMoves DEF Hosted, Provided, Awaiting
        <5> QED
          BY <1>0, <4>1, <5>1, <5>2 DEF Timed, ProviderState
      <4> QED
        BY <4>2, <4>3
    <3> QED
      BY <1>0, <3>1, <3>2 DEF Timed
  <2> QED
    BY <2>3, <2>4
<1>2. ASSUME NEW c \in Callers, Cancel(c) \/ CallerStep(c), NEW k \in Jobs
      PROVE  Timed(k)'
  <2>1. CallsApart(c) /\ CallMove(c) /\ About[c] \in Jobs
    BY <1>0, <1>2, CallFacts, ConstantsAssumption
  <2>2. faults \in Nat /\ faults' \in Nat /\ (faults' = 0 => faults = 0)
    BY <1>0, <2>1 DEF TypeOK, CallMove, JoinsIn, Claims
  <2>3. UNCHANGED verdict
    BY <1>2 DEF Cancel, CallerStep, LookedUp, LookUpRaises, GraceEnds, CancelRecorded, CancelWriteRaises,
           JoinReturns, taskVars
  <2>4. /\ task'[k] = task[k] \/ task'[k] \in {"dropped", "returning"}
        /\ provider'[k] = provider[k] \/ (provider[k] = "running" /\ provider'[k] = "asked")
        /\ stored'[k] \in {stored[k], "cancelled"}
    BY <2>1 DEF CallsApart, CallMove, JoinsIn, Claims, Answers, TargetStays, TargetMoves, AfterCancel
  <2> QED
    BY <1>0, <2>2, <2>3, <2>4 DEF Timed, Provided, Hosted, Calling, Awaiting
<1> QED
  BY <1>0, <1>1, <1>2 DEF ManagerStep

(* No step of the manager changes what is held inside run() or counted.     *)
LEMMA ManagerSteps ==
  ASSUME RunInv, ~Saving, ManagerStep
  PROVE  RunTypes' /\ (\A k \in Jobs : Staged(k)' /\ Stopped(k)') /\ CountInv'
<1>0. RunTypes /\ CountInv /\ (\A k \in Jobs : Staged(k)) /\ TypeOK /\ ImagesAssumption
  BY ImagesAssumption DEF RunInv, ProvidedInv, BaseInv, ClaimInv
<1>1. \A k \in Jobs : Managed(k) /\ Stopped(k)'
  BY TaskManages, CallManages DEF ManagerStep, files, Created
<1>2. /\ UNCHANGED <<fetchVars, files, metrics>>
      /\ stage' = [j \in Jobs |-> IF provider[j] = "none" /\ provider'[j] # "none"
                                    THEN "created" ELSE stage[j]]
  BY DEF ManagerStep
<1>3. RunTypes'
  BY <1>0, <1>2 DEF RunTypes, Stage, fetchVars, files
<1>4. ASSUME NEW k \in Jobs PROVE Staged(k)'
  <2>1. Staged(k) /\ Managed(k) /\ stage[k] # "saving"
    BY <1>0, <1>1 DEF Saving
  <2>2. /\ buffered' = buffered /\ body' = body /\ clients' = clients /\ threads' = threads /\ final' = final
        /\ stage'[k] = IF provider[k] = "none" /\ provider'[k] # "none" THEN "created" ELSE stage[k]
    BY <1>2 DEF fetchVars, files
  <2> QED
    BY <2>1, <2>2 DEF Staged, Managed, Calling, Done
<1>5. ASSUME NEW s \in Done PROVE With(s)' = With(s)
  <2>1. \A k \in Jobs : provider'[k] = s <=> provider[k] = s
    BY <1>1, <1>5 DEF Managed, Calling, Done
  <2> QED
    BY <2>1 DEF With
<1>6. InRun' = InRun
  <2>1. \A k \in Jobs : stage'[k] \in Inside <=> stage[k] \in Inside
    BY <1>0, <1>2 DEF Staged, Inside
  <2> QED
    BY <2>1 DEF InRun
<1>7. PICK C : GoneCounted(C)
  BY <1>0 DEF CountInv
<1>8. waits' = waits /\ inFlight' = inFlight /\ runs' = runs
  BY <1>2 DEF metrics
<1>9. GoneCounted(C)'
  <2>1. With("gone")' = With("gone")
    BY <1>5 DEF Done
  <2>2. \A k \in With("gone") \ C : Uncounted(k)'
    BY <1>1, <1>7 DEF GoneCounted, With, Managed
  <2> QED
    BY <1>7, <1>8, <2>1, <2>2 DEF GoneCounted
<1>10. CountInv'
  BY <1>0, <1>5, <1>6, <1>8, <1>9 DEF CountInv, Done
<1> QED
  BY <1>1, <1>3, <1>4, <1>10

(* What a run holds, what its files hold and what its metrics count, in     *)
(* every reachable state: the invariant behind the three properties below.  *)
THEOREM RunInvKept == RunSpec => []RunInv
<1>1. RunInit /\ ProvidedInv => RunInv
  <2> SUFFICES ASSUME RunInit, ProvidedInv
               PROVE  /\ RunTypes /\ (\A j \in Jobs : Staged(j) /\ Stopped(j)) /\ CountInv
                      /\ late \subseteq Jobs /\ \A j \in Jobs : Timed(j)
    BY DEF RunInv
  <2>1. RunTypes
    BY ImagesAssumption DEF RunInit, RunTypes, Stage, Body, File
  <2>2. \A j \in Jobs : Staged(j) /\ Stopped(j)
    BY DEF RunInit, Init, Staged, Stopped, Done
  <2>8. late \subseteq Jobs /\ \A j \in Jobs : Timed(j)
    BY DEF RunInit, Init, Timed
  <2>3. InRun = {} /\ \A s \in Done : With(s) = {}
    BY DEF RunInit, Init, InRun, Inside, With, Done
  <2>4. Cardinality({}) = 0
    BY FS_EmptySet
  <2>5. runs = [o \in Outcome |-> 0] /\ waits = 0 /\ inFlight = 0
    BY DEF RunInit
  <2>6. GoneCounted({})
    BY <2>3, <2>4, <2>5 DEF GoneCounted, Outcome, Done
  <2>7. CountInv
    BY <2>3, <2>4, <2>5, <2>6 DEF CountInv, Outcome, Done
  <2> QED
    BY <2>1, <2>2, <2>7, <2>8
<1>2. RunInv /\ ProvidedInv' /\ [RunNext]_<<vars, runVars>> => RunInv'
  <2> SUFFICES ASSUME RunInv, [RunNext]_<<vars, runVars>>
               PROVE  /\ RunTypes' /\ (\A k \in Jobs : Staged(k)' /\ Stopped(k)') /\ CountInv'
                      /\ late' \subseteq Jobs /\ \A k \in Jobs : Timed(k)'
    BY DEF RunInv
  <2>1. ASSUME NEW j \in Jobs, StepInRun(j), UNCHANGED late
        PROVE  /\ RunTypes' /\ (\A k \in Jobs : Staged(k)' /\ Stopped(k)') /\ CountInv'
               /\ late' \subseteq Jobs /\ \A k \in Jobs : Timed(k)'
    <3>1. StageStep(j)
      BY <2>1, RunSteps
    <3>2. RunTypes' /\ (\A k \in Jobs : Staged(k)' /\ Stopped(k)') /\ CountInv'
      BY <3>1, RunStops, RunCounts DEF StageStep
    <3>3. ASSUME NEW k \in Jobs PROVE Timed(k)'
      <4>1. Timed(k) /\ Provided(k) /\ Hosted(k)
        BY DEF RunInv, ProvidedInv, SlotInv
      <4>2. UNCHANGED lifecycle /\ (provider'[k] = provider[k] \/ provider[k] \in Calling)
        BY <3>1 DEF StageStep, RunApart, RunMove, Calling
      <4> QED
        BY <2>1, <4>1, <4>2 DEF lifecycle, Timed, Provided, Hosted, Calling, Awaiting
    <3> QED
      BY <2>1, <3>2, <3>3 DEF RunInv
  <2>2. CASE UNCHANGED <<vars, runVars>>
    BY <2>2 DEF RunInv, vars, runVars, fetchVars, files, metrics, RunTypes, Staged, Stopped, BeingCancelled,
                CountInv, InRun, With, GoneCounted, Uncounted, Timed
  <2> QED
    BY <2>1, <2>2, ManagerSteps, ManagerTimes DEF RunNext
<1>3. RunSpec => []ProvidedInv
  BY RunImplementsLifecycle, ProvidedKept, PTL
<1> QED
  BY <1>1, <1>2, <1>3, PTL DEF RunSpec

(* An output file is a whole image or is not there: a ready image job has   *)
(* one, and a job that failed while the store answered has none, unless its *)
(* timer struck when the run had ended.                                     *)
THEOREM ImagesWhole == RunSpec => []ImagesAreWhole
<1>1. RunInv => ImagesAreWhole
  <2> SUFFICES ASSUME RunInv, NEW j \in Images
               PROVE  /\ final[j] \in {"none", "whole"}
                      /\ stored[j] = "ready" => final[j] = "whole"
                      /\ faults = 0 /\ stored[j] = "error" /\ j \notin late => final[j] = "none"
    BY DEF ImagesAreWhole
  <2>1. j \in Jobs /\ Staged(j) /\ Provided(j) /\ Timed(j)
    BY ImagesAssumption DEF RunInv, ProvidedInv
  <2> QED
    BY <2>1 DEF Staged, Provided, Timed
<1> QED
  BY <1>1, RunInvKept, PTL

(* A run that is under way is of a job in its run phase, which holds its    *)
(* slot.                                                                    *)
LEMMA RunsAreHosted ==
  ASSUME RunInv, NEW j \in Jobs, stage[j] \in Inside
  PROVE  j \in activeJobs /\ j \in Holders
<1>1. Staged(j) /\ Hosted(j) /\ Shape(j) /\ provider[j] \in ProviderState
  BY DEF RunInv, ProvidedInv, SlotInv, BaseInv, ClaimInv, TypeOK
<1>2. task[j] \in Awaiting
  BY <1>1 DEF Staged, Inside, Hosted, Awaiting, ProviderState, Done
<1> QED
  BY <1>1, <1>2 DEF Shape, Over, Holders, HoldersOf, HoldsSlot, Awaiting

(* Nothing is held for a job whose run phase is over, and the gauge of runs *)
(* in flight stays within the jobs running and within max_concurrent_jobs.  *)
THEOREM NoLeaks == RunSpec => []NothingLeaks
<1>1. RunInv => NothingLeaks
  <2> SUFFICES ASSUME RunInv PROVE NothingLeaks
    OBVIOUS
  <2>1. /\ (\A j \in Jobs : Staged(j) /\ Stopped(j)) /\ RunTypes /\ inFlight = Cardinality(InRun)
        /\ Counted /\ IsFiniteSet(Submitted) /\ (\A j \in Jobs : Shape(j)) /\ freeSlots \in Nat
        /\ activeJobs \subseteq Jobs /\ Media \subseteq Jobs
    BY ImagesAssumption DEF RunInv, ProvidedInv, SlotInv, BaseInv, ClaimInv, TypeOK, CountInv
  <2>2. ASSUME faults = 0, NEW j \in threads \ activeJobs
        PROVE  BeingCancelled(j) \/ stored[j] \in {"error", "cancelled"}
    BY <2>1, <2>2 DEF Stopped, RunTypes
  <2>3. ASSUME NEW j \in Jobs \ activeJobs PROVE j \notin clients /\ buffered[j] = 0
    BY <2>1, RunsAreHosted DEF Staged, Inside
  <2>4. inFlight <= Cardinality(activeJobs)
    <3>1. activeJobs \subseteq Submitted
      BY <2>1 DEF Submitted, Shape
    <3>2. IsFiniteSet(activeJobs) /\ InRun \subseteq activeJobs
      BY <2>1, <3>1, FS_Subset, RunsAreHosted DEF InRun
    <3> QED
      BY <2>1, <3>2, FS_Subset
  <2>5. SlotCap > 0 => inFlight <= SlotCap
    <3>1. IsFiniteSet(Holders) /\ InRun \subseteq Holders
      BY <2>1, RunsAreHosted DEF InRun, Counted
    <3>2. Cardinality(InRun) <= Cardinality(Holders) /\ Cardinality(InRun) \in Nat /\ Cardinality(Holders) \in Nat
      BY <3>1, FS_Subset, FS_CardinalityType
    <3> QED
      BY <2>1, <3>2, ConstantsAssumption DEF Counted
  <2> QED
    BY <2>2, <2>3, <2>4, <2>5 DEF NothingLeaks
<1> QED
  BY <1>1, RunInvKept, PTL

(* With every job over and no store call that raised, the run counts agree  *)
(* with the records, but for the runs that cancel() overtook and those that *)
(* had ended when their timer struck.                                       *)
THEOREM CountsMatch == RunSpec => []CountsMatchRecords
<1>1. RunInv => CountsMatchRecords
  <2> SUFFICES ASSUME RunInv, faults = 0, activeJobs = {}, \A j \in Jobs : stored[j] \notin Unfinished
               PROVE  /\ runs["ready"] \in Of("ready") .. Of("ready") + Of("cancelled") + LateErrors
                      /\ runs["error"] + runs["cancelled"] \in
                           Of("error") - LateErrors .. Of("error") + Of("cancelled")
                      /\ waits = runs["ready"] + runs["error"] + runs["cancelled"]
    BY DEF CountsMatchRecords
  <2> DEFINE Recs(s) == {j \in Jobs : stored[j] = s}
             Late == {j \in late : stored[j] = "error"}
  <2>1. /\ \A j \in Jobs : Provided(j) /\ Shape(j) /\ Timed(j) /\ stored[j] \in Status
        /\ late \subseteq Jobs
        /\ IsFiniteSet(Submitted) /\ CountInv
    BY DEF RunInv, ProvidedInv, BaseInv, ClaimInv, TypeOK
  <2>2. \A j \in Jobs : provider[j] # "none" => stored[j] # "absent"
    BY <2>1 DEF Provided, Awaiting, Shape
  <2>3. \A s \in Terminal : IsFiniteSet(Recs(s)) /\ Of(s) = Cardinality(Recs(s)) /\ Of(s) \in Nat
    <3>1. \A s \in Terminal : Recs(s) \subseteq Submitted
      BY DEF Submitted, Terminal
    <3> QED
      BY <2>1, <3>1, FS_Subset, FS_CardinalityType DEF Of
  <2>8. /\ Late \subseteq Recs("error") /\ IsFiniteSet(Late)
        /\ LateErrors = Cardinality(Late) /\ LateErrors \in Nat
    <3>1. Late \subseteq Recs("error")
      BY <2>1
    <3> QED
      BY <2>3, <3>1, FS_Subset, FS_CardinalityType DEF LateErrors, Terminal
  <2>4. \A s \in {"ready", "error"} :
          /\ IsFiniteSet(Recs(s) \cup Recs("cancelled"))
          /\ Cardinality(Recs(s) \cup Recs("cancelled")) = Of(s) + Of("cancelled")
    <3>1. ASSUME NEW s \in {"ready", "error"}
          PROVE  /\ IsFiniteSet(Recs(s) \cup Recs("cancelled"))
                 /\ Cardinality(Recs(s) \cup Recs("cancelled")) = Of(s) + Of("cancelled")
      <4>1. /\ IsFiniteSet(Recs(s)) /\ IsFiniteSet(Recs("cancelled"))
            /\ Of(s) = Cardinality(Recs(s)) /\ Of("cancelled") = Cardinality(Recs("cancelled"))
            /\ Of(s) \in Nat /\ Of("cancelled") \in Nat
        BY <2>3 DEF Terminal
      <4>2. Recs(s) \cap Recs("cancelled") = {}
        OBVIOUS
      <4>3. Cardinality(Recs(s) \cap Recs("cancelled")) = 0
        BY <4>2, FS_EmptySet
      <4> HIDE DEF Recs
      <4>4. /\ IsFiniteSet(Recs(s) \cup Recs("cancelled"))
            /\ Cardinality(Recs(s) \cup Recs("cancelled"))
                 = Cardinality(Recs(s)) + Cardinality(Recs("cancelled")) - Cardinality(Recs(s) \cap Recs("cancelled"))
        BY <4>1, FS_Union
      <4>5. Cardinality(Recs(s)) + Cardinality(Recs("cancelled")) - 0 = Of(s) + Of("cancelled")
        BY <4>1
      <4> QED
        BY <4>3, <4>4, <4>5
    <3> QED
      BY <3>1
  <2>5. runs["ready"] \in Of("ready") .. Of("ready") + Of("cancelled") + LateErrors
    <3>1. Recs("ready") \subseteq With("result")
      BY <2>1 DEF Provided, Awaiting, With
    <3>2. With("result") \subseteq (Recs("ready") \cup Recs("cancelled")) \cup Late
      BY <2>1, <2>2 DEF Timed, With, Status, Unfinished, Terminal
    <3>3. IsFiniteSet(With("result")) /\ runs["ready"] = Cardinality(With("result"))
      BY <2>1, CountedFinite DEF CountInv, Done
    <3>4. Of("ready") = Cardinality(Recs("ready")) /\ Of("ready") \in Nat /\ Of("cancelled") \in Nat
      BY <2>3 DEF Terminal
    <3> HIDE DEF Recs
    <3>5. Of("ready") <= runs["ready"]
      BY <3>1, <3>3, <3>4, FS_Subset
    <3>7. runs["ready"] \in Nat
      BY <3>3, FS_CardinalityType
    <3>6. runs["ready"] <= Of("ready") + Of("cancelled") + LateErrors
      <4> DEFINE Both == Recs("ready") \cup Recs("cancelled")
      <4>1. IsFiniteSet(Both) /\ Cardinality(Both) = Of("ready") + Of("cancelled")
        BY <2>4
      <4> HIDE DEF Both, Late
      <4>2. /\ IsFiniteSet(Both \cup Late)
            /\ Cardinality(Both \cup Late) = Cardinality(Both) + Cardinality(Late) - Cardinality(Both \cap Late)
        BY <2>8, <4>1, FS_Union
      <4>3. Cardinality(Both \cap Late) \in Nat
        BY <4>1, FS_Intersection, FS_CardinalityType
      <4>4. With("result") \subseteq Both \cup Late
        BY <3>2 DEF Both
      <4>5. runs["ready"] <= Cardinality(Both \cup Late)
        BY <3>3, <4>2, <4>4, FS_Subset
      <4>6. Cardinality(Both \cup Late) \in Nat
        BY <4>2, FS_CardinalityType
      <4> QED
        BY <2>8, <3>4, <3>7, <4>1, <4>2, <4>3, <4>5, <4>6
    <3> QED
      BY <2>8, <3>4, <3>5, <3>6, <3>7
  <2>6. runs["error"] + runs["cancelled"] \in Of("error") - LateErrors .. Of("error") + Of("cancelled")
    <3>1. PICK C : GoneCounted(C)
      BY <2>1 DEF CountInv
    <3> DEFINE D == With("raised") \cup C
    <3>2. /\ C \subseteq With("gone") /\ runs["cancelled"] = Cardinality(C)
          /\ \A j \in With("gone") \ C : stored[j] # "error"
      BY <3>1 DEF GoneCounted, Uncounted
    <3>3. /\ IsFiniteSet(With("raised")) /\ IsFiniteSet(C)
          /\ runs["error"] = Cardinality(With("raised"))
      BY <2>1, <3>2, CountedFinite, FS_Subset DEF CountInv, Done
    <3>4. With("raised") \cap C = {}
      BY <3>2 DEF With
    <3>5. IsFiniteSet(D) /\ Cardinality(D) = runs["error"] + runs["cancelled"] /\ Cardinality(D) \in Nat
      <4>1. Cardinality(With("raised") \cap C) = 0
        BY <3>4, FS_EmptySet
      <4>2. runs["error"] \in Nat /\ runs["cancelled"] \in Nat
        BY <3>2, <3>3, FS_CardinalityType
      <4> QED
        BY <3>2, <3>3, <4>1, <4>2, FS_Union
    <3>6. Recs("error") \ Late \subseteq D
      BY <2>1, <3>2 DEF Timed, With
    <3>7. D \subseteq Recs("error") \cup Recs("cancelled")
      BY <2>1, <2>2, <3>2 DEF Provided, Awaiting, With, Status, Terminal
    <3>8. Of("error") = Cardinality(Recs("error")) /\ Of("error") \in Nat /\ Of("cancelled") \in Nat
      BY <2>3 DEF Terminal
    <3>12. Recs("error") \cap Late = Late
      BY <2>8
    <3>13. IsFiniteSet(Recs("error"))
      BY <2>3 DEF Terminal
    <3> HIDE DEF Recs, D, Late
    <3>9. Of("error") - LateErrors <= Cardinality(D)
      <4>1. /\ IsFiniteSet(Recs("error") \ Late)
            /\ Cardinality(Recs("error") \ Late) = Of("error") - LateErrors
        <5> DEFINE R == Recs("error")
        <5>1. IsFiniteSet(R) /\ R \cap Late = Late
          BY <3>12, <3>13
        <5> HIDE DEF R
        <5>2. IsFiniteSet(R \ Late) /\ Cardinality(R \ Late) = Cardinality(R) - Cardinality(R \cap Late)
          BY <5>1, FS_Difference
        <5>3. Cardinality(R) = Of("error")
          BY <3>8 DEF R
        <5>4. Cardinality(R \ Late) = Of("error") - LateErrors
          BY <2>8, <5>1, <5>2, <5>3
        <5> QED
          BY <5>2, <5>4 DEF R
      <4> QED
        BY <3>5, <3>6, <4>1, FS_Subset
    <3>10. Cardinality(D) <= Of("error") + Of("cancelled")
      BY <2>4, <3>5, <3>7, FS_Subset
    <3>11. Cardinality(D) \in Of("error") - LateErrors .. Of("error") + Of("cancelled")
      BY <2>8, <3>5, <3>8, <3>9, <3>10
    <3> QED
      BY <3>5, <3>11
  <2>7. waits = runs["ready"] + runs["error"] + runs["cancelled"]
    <3>1. InRun = {}
      BY RunsAreHosted DEF InRun
    <3>2. inFlight = 0
      BY <2>1, <3>1, FS_EmptySet DEF CountInv
    <3> QED
      BY <2>1, <3>2 DEF CountInv, Outcome
  <2> QED
    BY <2>5, <2>6, <2>7
<1> QED
  BY <1>1, RunInvKept, PTL

(* Every variable of the runs keeps its type.                               *)
THEOREM RunTyped == RunSpec => []RunTypeOK
<1>1. RunInv => RunTypeOK
  BY DEF RunInv, RunTypes, CountInv, RunTypeOK
<1> QED
  BY <1>1, RunInvKept, PTL

=============================================================================
