------------------------- MODULE JobLifecycleProofs -------------------------
(***************************************************************************)
(* What holds of JobLifecycle for every set of jobs and cancel() calls.    *)
(***************************************************************************)
EXTENDS JobLifecycle, SequenceTheorems, FiniteSetTheorems, TLAPS

-----------------------------------------------------------------------------
(* Removing one waiter leaves a sequence of jobs.                           *)
LEMMA LeaveLineType ==
  ASSUME NEW j \in Jobs, slotWaiters \in Seq(Jobs), LeaveLine(j)
  PROVE  slotWaiters' \in Seq(Jobs)
<1>1. PICK i \in DOMAIN slotWaiters :
         slotWaiters' = SubSeq(slotWaiters, 1, i - 1)
                          \o SubSeq(slotWaiters, i + 1, Len(slotWaiters))
  BY DEF LeaveLine
<1>2. i \in 1 .. Len(slotWaiters) /\ Len(slotWaiters) \in Nat
  BY LenProperties
<1>3. SubSeq(slotWaiters, 1, i - 1) \in Seq(Jobs)
  BY <1>2, SubSeqProperties
<1>4. SubSeq(slotWaiters, i + 1, Len(slotWaiters)) \in Seq(Jobs)
  BY <1>2, SubSeqProperties
<1> QED
  BY <1>1, <1>3, <1>4, ConcatProperties

(* Waking the next waiter leaves every task in a known state and takes a    *)
(* slot only if there was one.                                              *)
LEMMA WakeNextType ==
  ASSUME NEW st \in [Jobs -> TaskState], NEW n \in Nat \ {0}, WakeNext(st, n)
  PROVE  task' \in [Jobs -> TaskState] /\ freeSlots' \in Nat
BY DEF WakeNext, TaskState, InLine

LEMMA ReleaseSlotType ==
  ASSUME NEW st \in [Jobs -> TaskState], freeSlots \in Nat, ReleaseSlot(st)
  PROVE  task' \in [Jobs -> TaskState] /\ freeSlots' \in Nat
BY WakeNextType, freeSlots + 1 \in Nat \ {0} DEF ReleaseSlot

(* Where a target is cancelled, tasks and providers stay in known states.   *)
LEMMA CancelTargetType ==
  ASSUME NEW j \in Jobs, TypeOK, CancelTarget(j)
  PROVE  task' \in [Jobs -> TaskState] /\ provider' \in [Jobs -> ProviderState]
<1>1. \A t \in TaskState : AfterCancel(t) \in TaskState
  BY DEF AfterCancel, TaskState, InLine
<1>2. task' \in [Jobs -> TaskState]
  BY <1>1 DEF CancelTarget, TypeOK
<1>3. provider' \in [Jobs -> ProviderState]
  BY DEF CancelTarget, TypeOK, ProviderState, Calling
<1> QED
  BY <1>2, <1>3

LEMMA ClaimType ==
  ASSUME NEW c \in Callers, TypeOK, Claim(c)
  PROVE  /\ task' \in [Jobs -> TaskState]
         /\ provider' \in [Jobs -> ProviderState]
         /\ future' \in [Callers -> FutureState]
         /\ cancelling' \in [Jobs -> Callers \cup {NoCaller}]
<1>1. About[c] \in Jobs
  BY ConstantsAssumption
<1> QED
  BY <1>1, CancelTargetType DEF Claim, TypeOK, FutureState

LEMMA EndRunPhaseType ==
  ASSUME NEW j \in Jobs, TypeOK, EndRunPhase(j)
  PROVE  activeJobs' \subseteq Jobs /\ cancelling' \in [Jobs -> Callers \cup {NoCaller}]
BY DEF EndRunPhase, TypeOK

LEMMA AnnounceType ==
  ASSUME NEW j \in Jobs, NEW s \in Terminal, TypeOK, Announce(j, s)
  PROVE  webhooks' \in [Jobs -> Seq(Terminal)]
BY AppendProperties DEF Announce, TypeOK

(* The queue of store calls after its head returned, and after one more     *)
(* call joined it.                                                          *)
LEMMA QueueType ==
  ASSUME TypeOK, NEW a \in Jobs \cup Callers
  PROVE  /\ Append(storeQueue, a) \in Seq(Jobs \cup Callers)
         /\ storeQueue # << >> => /\ Tail(storeQueue) \in Seq(Jobs \cup Callers)
                                  /\ Append(Tail(storeQueue), a) \in Seq(Jobs \cup Callers)
<1>1. storeQueue \in Seq(Jobs \cup Callers)
  BY DEF TypeOK
<1>2. storeQueue # << >> => Tail(storeQueue) \in Seq(Jobs \cup Callers)
  BY <1>1, HeadTailProperties
<1> QED
  BY <1>1, <1>2, AppendProperties

-----------------------------------------------------------------------------
(* Every variable keeps its type in every reachable state.                  *)
THEOREM TypeCorrect == Spec => []TypeOK
<1>1. Init => TypeOK
  BY ConstantsAssumption, EmptySeq
  DEF Init, TypeOK, Status, TaskState, ProviderState, CallerState, FutureState, Reply
<1>2. TypeOK /\ [Next]_vars => TypeOK'
  <2> SUFFICES ASSUME TypeOK, [Next]_vars PROVE TypeOK'
    OBVIOUS
  <2> USE DEF storeVars, taskVars, slotVars, callVars
  <2>1. ASSUME NEW j \in Jobs, Submit(j) PROVE TypeOK'
    BY <2>1 DEF Submit, TypeOK, Status, Unfinished, TaskState
  <2>2. ASSUME NEW j \in Jobs, Begin(j) PROVE TypeOK'
    <3>1. storeQueue' \in Seq(Jobs \cup Callers)
      BY <2>2, QueueType DEF Begin, TypeOK
    <3>2. slotWaiters' \in Seq(Jobs)
      <4>1. slotWaiters \in Seq(Jobs)
        BY DEF TypeOK
      <4>2. slotWaiters' = Append(slotWaiters, j) \/ slotWaiters' = slotWaiters
        BY <2>2 DEF Begin
      <4> QED
        BY <4>1, <4>2, AppendProperties
    <3>3. freeSlots' \in Nat
      BY <2>2, ConstantsAssumption DEF Begin, TypeOK, Locked
    <3> QED
      BY <2>2, <3>1, <3>2, <3>3 DEF Begin, TypeOK, TaskState, InLine, HoldsSlot, Awaiting
  <2>3. ASSUME NEW j \in Jobs, TakeSlot(j) PROVE TypeOK'
    <3>1. slotWaiters' \in Seq(Jobs)
      BY <2>3, LeaveLineType DEF TakeSlot, TypeOK
    <3>2. storeQueue' \in Seq(Jobs \cup Callers)
      BY <2>3, QueueType DEF TakeSlot
    <3>3. [task EXCEPT ![j] = "marking"] \in [Jobs -> TaskState]
      BY DEF TypeOK, TaskState, InStore
    <3>4. task' \in [Jobs -> TaskState] /\ freeSlots' \in Nat
      <4>1. CASE freeSlots > 0
        <5>1. WakeNext([task EXCEPT ![j] = "marking"], freeSlots) /\ freeSlots \in Nat \ {0}
          BY <2>3, <4>1 DEF TakeSlot, TypeOK
        <5> QED
          BY <3>3, <5>1, WakeNextType
      <4>2. CASE ~(freeSlots > 0)
        BY <2>3, <3>3, <4>2 DEF TakeSlot, TypeOK
      <4> QED
        BY <4>1, <4>2
    <3> QED
      BY <2>3, <3>1, <3>2, <3>4 DEF TakeSlot, TypeOK
  <2>4. ASSUME NEW j \in Jobs, LeaveSlotWait(j) PROVE TypeOK'
    <3>1. slotWaiters' \in Seq(Jobs)
      BY <2>4, LeaveLineType DEF LeaveSlotWait, TypeOK
    <3>2. [task EXCEPT ![j] = "ended"] \in [Jobs -> TaskState] /\ freeSlots + 1 \in Nat \ {0}
      BY DEF TypeOK, TaskState
    <3>3. task' \in [Jobs -> TaskState] /\ freeSlots' \in Nat
      BY <2>4, <3>2, WakeNextType DEF LeaveSlotWait, TypeOK
    <3>4. activeJobs' \subseteq Jobs /\ cancelling' \in [Jobs -> Callers \cup {NoCaller}]
      BY <2>4, EndRunPhaseType DEF LeaveSlotWait
    <3> QED
      BY <2>4, <3>1, <3>3, <3>4 DEF LeaveSlotWait, TypeOK
  <2>5. ASSUME NEW j \in Jobs, Marked(j) PROVE TypeOK'
    <3>1. storeQueue' \in Seq(Jobs \cup Callers)
      BY <2>5, QueueType DEF Marked, StoreReturns
    <3>2. [task EXCEPT ![j] = "ended"] \in [Jobs -> TaskState] /\ freeSlots \in Nat
      BY DEF TypeOK, TaskState
    <3>3. task' \in [Jobs -> TaskState] /\ freeSlots' \in Nat
      BY <2>5, <3>2, ReleaseSlotType DEF Marked, TypeOK, TaskState, HoldsSlot, Awaiting
    <3>4. activeJobs' \subseteq Jobs /\ cancelling' \in [Jobs -> Callers \cup {NoCaller}]
      BY <2>5, EndRunPhaseType DEF Marked, TypeOK
    <3> QED
      BY <2>5, <3>1, <3>3, <3>4 DEF Marked, TypeOK, Status, Unfinished, ProviderState, Calling
  <2>6. ASSUME NEW j \in Jobs, ProviderReturns(j) PROVE TypeOK'
    <3>1. storeQueue' \in Seq(Jobs \cup Callers)
      <4>1. storeQueue \in Seq(Jobs \cup Callers)
        BY DEF TypeOK
      <4>2. storeQueue' = Append(storeQueue, j) \/ storeQueue' = storeQueue
        BY <2>6 DEF ProviderReturns, Awaiting
      <4> QED
        BY <4>1, <4>2, QueueType
    <3>2. [task EXCEPT ![j] = "ended"] \in [Jobs -> TaskState] /\ freeSlots \in Nat
      BY DEF TypeOK, TaskState
    <3>3. task' \in [Jobs -> TaskState] /\ freeSlots' \in Nat
      BY <2>6, <3>2, ReleaseSlotType DEF ProviderReturns, Awaiting, TypeOK, TaskState, HoldsSlot
    <3>4. activeJobs' \subseteq Jobs /\ cancelling' \in [Jobs -> Callers \cup {NoCaller}]
      BY <2>6, EndRunPhaseType DEF ProviderReturns, Awaiting, TypeOK
    <3> QED
      BY <2>6, <3>1, <3>3, <3>4 DEF ProviderReturns, Awaiting, TypeOK
  <2>7. ASSUME NEW j \in Jobs, Recorded(j) PROVE TypeOK'
    <3>1. storeQueue' \in Seq(Jobs \cup Callers)
      BY <2>7, QueueType DEF Recorded, StoreReturns
    <3>2. [task EXCEPT ![j] = "ended"] \in [Jobs -> TaskState] /\ freeSlots \in Nat
      BY DEF TypeOK, TaskState
    <3>3. task' \in [Jobs -> TaskState] /\ freeSlots' \in Nat
      BY <2>7, <3>2, ReleaseSlotType DEF Recorded
    <3>4. activeJobs' \subseteq Jobs /\ cancelling' \in [Jobs -> Callers \cup {NoCaller}]
      BY <2>7, EndRunPhaseType DEF Recorded
    <3>5. verdict[j] \in Terminal
      BY DEF TypeOK, Terminal
    <3>6. webhooks' \in [Jobs -> Seq(Terminal)]
      BY <2>7, <3>5, AnnounceType DEF Recorded
    <3> QED
      BY <2>7, <3>1, <3>3, <3>4, <3>5, <3>6 DEF Recorded, TypeOK, Status
  <2>8. ASSUME NEW j \in Jobs, WriteRaises(j) PROVE TypeOK'
    <3>1. storeQueue' \in Seq(Jobs \cup Callers) /\ faults' \in 0 .. StoreFaults
      BY <2>8, QueueType, ConstantsAssumption DEF WriteRaises, StoreRaises, StoreReturns, TypeOK
    <3>2. [task EXCEPT ![j] = "failing"] \in [Jobs -> TaskState] /\ freeSlots \in Nat
      BY DEF TypeOK, TaskState, InStore
    <3>3. task' \in [Jobs -> TaskState] /\ freeSlots' \in Nat
      BY <2>8, <3>2, ReleaseSlotType DEF WriteRaises
    <3>4. activeJobs' \subseteq Jobs /\ cancelling' \in [Jobs -> Callers \cup {NoCaller}]
      BY <2>8, EndRunPhaseType DEF WriteRaises
    <3>5. stored' \in [Jobs -> Status]
      BY <2>8 DEF WriteRaises, TypeOK, Status, Unfinished, Terminal
    <3> QED
      BY <2>8, <3>1, <3>3, <3>4, <3>5 DEF WriteRaises, TypeOK
  <2>9. ASSUME NEW j \in Jobs, FailureRecorded(j) PROVE TypeOK'
    <3>1. storeQueue' \in Seq(Jobs \cup Callers)
      BY <2>9, QueueType DEF FailureRecorded, StoreReturns
    <3>2. webhooks' \in [Jobs -> Seq(Terminal)]
      BY <2>9, AnnounceType, "error" \in Terminal DEF FailureRecorded, Terminal
    <3> QED
      BY <2>9, <3>1, <3>2 DEF FailureRecorded, TypeOK, TaskState, Status, Terminal
  <2>10. ASSUME NEW j \in Jobs, FailureLost(j) PROVE TypeOK'
    <3>1. storeQueue' \in Seq(Jobs \cup Callers) /\ faults' \in 0 .. StoreFaults
      BY <2>10, QueueType, ConstantsAssumption DEF FailureLost, StoreRaises, StoreReturns, TypeOK
    <3> QED
      BY <2>10, <3>1 DEF FailureLost, TypeOK, TaskState, Status, Terminal
  <2>11. ASSUME NEW j \in Jobs, ProviderEnds(j) PROVE TypeOK'
    BY <2>11 DEF ProviderEnds, TypeOK, ProviderState
  <2>12. ASSUME NEW j \in Jobs, JobTimesOut(j) PROVE TypeOK'
    BY <2>12 DEF JobTimesOut, TypeOK, ProviderState, Calling, TaskState, HoldsSlot, Awaiting
  <2>13. ASSUME NEW c \in Callers, Cancel(c) PROVE TypeOK'
    <3>1. About[c] \in Jobs
      BY ConstantsAssumption
    <3>2. storeQueue' \in Seq(Jobs \cup Callers)
      <4>1. storeQueue \in Seq(Jobs \cup Callers)
        BY DEF TypeOK
      <4>2. storeQueue' = Append(storeQueue, c) \/ storeQueue' = storeQueue
        BY <2>13 DEF Cancel
      <4> QED
        BY <4>1, <4>2, QueueType
    <3>3. /\ task' \in [Jobs -> TaskState]
          /\ provider' \in [Jobs -> ProviderState]
          /\ future' \in [Callers -> FutureState]
          /\ cancelling' \in [Jobs -> Callers \cup {NoCaller}]
      BY <2>13, ClaimType DEF Cancel, TypeOK
    <3>4. caller' \in [Callers -> CallerState]
      BY <2>13 DEF Cancel, Join, TypeOK, CallerState
    <3>5. joined' \in [Callers -> Callers \cup {NoCaller}]
      <4>1. cancelling[About[c]] \in Callers \cup {NoCaller}
        BY <3>1 DEF TypeOK
      <4> QED
        BY <2>13, <4>1 DEF Cancel, Join, TypeOK
    <3> QED
      BY <2>13, <3>2, <3>3, <3>4, <3>5 DEF Cancel, TypeOK
  <2>14. ASSUME NEW c \in Callers, LookedUp(c) PROVE TypeOK'
    <3>1. About[c] \in Jobs
      BY ConstantsAssumption
    <3>2. storeQueue' \in Seq(Jobs \cup Callers)
      BY <2>14, QueueType DEF LookedUp, StoreReturns
    <3>3. /\ task' \in [Jobs -> TaskState]
          /\ provider' \in [Jobs -> ProviderState]
          /\ future' \in [Callers -> FutureState]
          /\ cancelling' \in [Jobs -> Callers \cup {NoCaller}]
      BY <2>14, ClaimType DEF LookedUp, TypeOK
    <3>4. /\ caller' \in [Callers -> CallerState]
          /\ joined' \in [Callers -> Callers \cup {NoCaller}]
          /\ reply' \in [Callers -> Reply]
      <4>1. cancelling[About[c]] \in Callers \cup {NoCaller}
        BY <3>1 DEF TypeOK
      <4>2. \/ Join(c) /\ UNCHANGED reply
            \/ /\ caller' = [caller EXCEPT ![c] = "writing"]
               /\ UNCHANGED <<joined, reply>>
            \/ /\ \E r \in Reply : Return(c, r)
               /\ UNCHANGED joined
        BY <2>14 DEF LookedUp, Reply
      <4> QED
        BY <4>1, <4>2 DEF Join, Return, TypeOK, CallerState
    <3> QED
      BY <2>14, <3>2, <3>3, <3>4 DEF LookedUp, TypeOK
  <2>15. ASSUME NEW c \in Callers, LookUpRaises(c) PROVE TypeOK'
    <3>1. storeQueue' \in Seq(Jobs \cup Callers) /\ faults' \in 0 .. StoreFaults
      BY <2>15, QueueType, ConstantsAssumption DEF LookUpRaises, StoreRaises, StoreReturns, TypeOK
    <3> QED
      BY <2>15, <3>1 DEF LookUpRaises, Return, TypeOK, CallerState, Reply
  <2>16. ASSUME NEW c \in Callers, GraceEnds(c) PROVE TypeOK'
    <3>1. storeQueue' \in Seq(Jobs \cup Callers)
      BY <2>16, QueueType DEF GraceEnds
    <3> QED
      BY <2>16, <3>1 DEF GraceEnds, TypeOK, CallerState
  <2>17. ASSUME NEW c \in Callers, CancelRecorded(c) PROVE TypeOK'
    <3>1. About[c] \in Jobs
      BY ConstantsAssumption
    <3>2. storeQueue' \in Seq(Jobs \cup Callers)
      BY <2>17, QueueType DEF CancelRecorded, StoreReturns
    <3>3. webhooks' \in [Jobs -> Seq(Terminal)]
      BY <2>17, <3>1, AnnounceType, "cancelled" \in Terminal DEF CancelRecorded, Terminal
    <3> QED
      BY <2>17, <3>1, <3>2, <3>3
      DEF CancelRecorded, Resolve, Return, TypeOK, Status, Terminal, CallerState, FutureState, Reply
  <2>18. ASSUME NEW c \in Callers, CancelWriteRaises(c) PROVE TypeOK'
    <3>1. About[c] \in Jobs
      BY ConstantsAssumption
    <3>2. storeQueue' \in Seq(Jobs \cup Callers) /\ faults' \in 0 .. StoreFaults
      BY <2>18, QueueType, ConstantsAssumption DEF CancelWriteRaises, StoreRaises, StoreReturns, TypeOK
    <3> QED
      BY <2>18, <3>1, <3>2
      DEF CancelWriteRaises, Resolve, Return, TypeOK, Status, Terminal, CallerState, FutureState, Reply
  <2>19. ASSUME NEW c \in Callers, JoinReturns(c) PROVE TypeOK'
    BY <2>19 DEF JoinReturns, Return, TypeOK, CallerState, Reply
  <2>20. CASE UNCHANGED vars
    BY <2>20 DEF vars, TypeOK
  <2> QED
    BY <2>1, <2>2, <2>3, <2>4, <2>5, <2>6, <2>7, <2>8, <2>9, <2>10, <2>11, <2>12, <2>13,
       <2>14, <2>15, <2>16, <2>17, <2>18, <2>19, <2>20
    DEF Next, TaskStep, CallerStep
<1> QED
  BY <1>1, <1>2, PTL DEF Spec

-----------------------------------------------------------------------------
(* The bookkeeping of cancel(): a call under way owns the entry of its job  *)
(* in _cancelling and has resolved nothing yet; an entry is owned by such a *)
(* call or holds the record for a job still in its run phase; a second call *)
(* shields a future that is resolved or whose owner is under way.           *)
UnderWay(c) == caller[c] \in {"grace", "writing"}

OwnersHoldEntries ==
  \A c \in Callers : UnderWay(c) => cancelling[About[c]] = c /\ future[c] = "pending"

EntriesHaveOwners ==
  \A j \in Jobs : cancelling[j] # NoCaller =>
    /\ About[cancelling[j]] = j
    /\ UnderWay(cancelling[j]) \/ (future[cancelling[j]] = "result" /\ j \in activeJobs)

WaitersHaveOwners ==
  \A c \in Callers : caller[c] = "joining" =>
    /\ joined[c] \in Callers
    /\ About[joined[c]] = About[c]
    /\ Settled(future[joined[c]]) \/ UnderWay(joined[c])

NotYetOwners ==
  \A c \in Callers : caller[c] \in {"idle", "getting", "joining"} => future[c] = "none"

ClaimInv ==
  TypeOK /\ OwnersHoldEntries /\ EntriesHaveOwners /\ WaitersHaveOwners /\ NotYetOwners

(* A step of the task that touches the bookkeeping only by ending the run   *)
(* phase keeps it.                                                          *)
LEMMA EndRunPhaseKeepsClaims ==
  ASSUME ClaimInv, NEW j \in Jobs, EndRunPhase(j), UNCHANGED callVars
  PROVE  (OwnersHoldEntries /\ EntriesHaveOwners /\ WaitersHaveOwners /\ NotYetOwners)'
<1> USE ConstantsAssumption DEF callVars
<1>1. ASSUME NEW c \in Callers, UnderWay(c)
      PROVE  cancelling'[About[c]] = c
  <2>1. cancelling[About[c]] = c /\ future[c] = "pending" /\ About[c] \in Jobs
    BY <1>1 DEF ClaimInv, OwnersHoldEntries
  <2> QED
    BY <2>1 DEF EndRunPhase, Settled, ClaimInv, TypeOK
<1>2. OwnersHoldEntries'
  BY <1>1 DEF ClaimInv, OwnersHoldEntries, UnderWay
<1>3. ASSUME NEW k \in Jobs, cancelling'[k] # NoCaller
      PROVE  /\ cancelling[k] = cancelling'[k]
             /\ UnderWay(cancelling[k]) \/ (future[cancelling[k]] = "result" /\ k \in activeJobs')
  <2>1. cancelling[k] = cancelling'[k]
    BY <1>3 DEF EndRunPhase, ClaimInv, TypeOK
  <2>2. CASE k = j
    BY <2>1, <2>2, <1>3 DEF EndRunPhase, ClaimInv, EntriesHaveOwners, BeingCancelled, Settled, TypeOK
  <2>3. CASE k # j
    BY <2>1, <2>3, <1>3 DEF EndRunPhase, ClaimInv, EntriesHaveOwners
  <2> QED
    BY <2>1, <2>2, <2>3
<1>4. EntriesHaveOwners'
  BY <1>3 DEF ClaimInv, EntriesHaveOwners, UnderWay
<1>5. WaitersHaveOwners' /\ NotYetOwners'
  BY DEF ClaimInv, WaitersHaveOwners, NotYetOwners, UnderWay
<1> QED
  BY <1>2, <1>4, <1>5

(* So does a step that leaves it alone, other than by adding active jobs.   *)
LEMMA OtherStepsKeepClaims ==
  ASSUME ClaimInv, activeJobs \subseteq activeJobs', UNCHANGED <<cancelling, callVars>>
  PROVE  (OwnersHoldEntries /\ EntriesHaveOwners /\ WaitersHaveOwners /\ NotYetOwners)'
BY DEF callVars, ClaimInv, OwnersHoldEntries, EntriesHaveOwners, WaitersHaveOwners,
       NotYetOwners, UnderWay

(* A call that claims a job nobody is cancelling keeps it.                  *)
LEMMA ClaimKeepsClaims ==
  ASSUME ClaimInv, NEW c \in Callers, caller[c] \in {"idle", "getting"},
         ~BeingCancelled(About[c]), Claim(c), NEW s \in {"grace", "writing"},
         caller' = [caller EXCEPT ![c] = s], UNCHANGED <<activeJobs, joined>>
  PROVE  (OwnersHoldEntries /\ EntriesHaveOwners /\ WaitersHaveOwners /\ NotYetOwners)'
<1>1. About[c] \in Jobs /\ \A d \in Callers : About[d] \in Jobs
  BY ConstantsAssumption
<1>2. /\ future' = [future EXCEPT ![c] = "pending"]
      /\ cancelling' = [cancelling EXCEPT ![About[c]] = c]
  BY DEF Claim
<1>3. ASSUME NEW d \in Callers, d # c, UnderWay(d) PROVE About[d] # About[c]
  BY <1>3, ConstantsAssumption DEF ClaimInv, OwnersHoldEntries, BeingCancelled
<1>4. OwnersHoldEntries'
  BY <1>1, <1>2, <1>3 DEF ClaimInv, OwnersHoldEntries, UnderWay, TypeOK
<1>5. EntriesHaveOwners'
  BY <1>1, <1>2, ConstantsAssumption DEF ClaimInv, EntriesHaveOwners, UnderWay, TypeOK, BeingCancelled
<1>6. WaitersHaveOwners'
  BY <1>1, <1>2 DEF ClaimInv, WaitersHaveOwners, UnderWay, TypeOK, Settled
<1>7. NotYetOwners'
  BY <1>2 DEF ClaimInv, NotYetOwners, TypeOK
<1> QED
  BY <1>4, <1>5, <1>6, <1>7

(* A call that joins the one under way, or whose record is held, keeps it.  *)
LEMMA JoinKeepsClaims ==
  ASSUME ClaimInv, NEW c \in Callers, caller[c] \in {"idle", "getting"},
         BeingCancelled(About[c]), Join(c), UNCHANGED <<activeJobs, cancelling, future>>
  PROVE  (OwnersHoldEntries /\ EntriesHaveOwners /\ WaitersHaveOwners /\ NotYetOwners)'
<1>1. About[c] \in Jobs
  BY ConstantsAssumption
<1>2. /\ caller' = [caller EXCEPT ![c] = "joining"]
      /\ joined' = [joined EXCEPT ![c] = cancelling[About[c]]]
  BY DEF Join
<1>3. /\ cancelling[About[c]] \in Callers
      /\ About[cancelling[About[c]]] = About[c]
      /\ Settled(future[cancelling[About[c]]]) \/ UnderWay(cancelling[About[c]])
  BY <1>1 DEF ClaimInv, TypeOK, BeingCancelled, EntriesHaveOwners, Settled
<1>4. OwnersHoldEntries' /\ EntriesHaveOwners' /\ NotYetOwners'
  BY <1>2 DEF ClaimInv, OwnersHoldEntries, EntriesHaveOwners, NotYetOwners, UnderWay, TypeOK
<1>5. WaitersHaveOwners'
  BY <1>2, <1>3 DEF ClaimInv, WaitersHaveOwners, UnderWay, TypeOK
<1> QED
  BY <1>4, <1>5

(* The owner's return, with its future resolved, keeps it.                  *)
LEMMA OwnerReturnKeepsClaims ==
  ASSUME ClaimInv, NEW c \in Callers, caller[c] = "writing",
         NEW how \in {"result", "exception"}, Resolve(c, how), NEW r \in Reply, Return(c, r),
         \/ how = "result" /\ About[c] \in activeJobs /\ UNCHANGED cancelling
         \/ cancelling' = [cancelling EXCEPT ![About[c]] = NoCaller],
         UNCHANGED <<activeJobs, joined>>
  PROVE  (OwnersHoldEntries /\ EntriesHaveOwners /\ WaitersHaveOwners /\ NotYetOwners)'
<1>1. /\ About[c] \in Jobs
      /\ cancelling[About[c]] = c
  BY ConstantsAssumption DEF ClaimInv, OwnersHoldEntries, UnderWay
<1>2. /\ future' = [future EXCEPT ![c] = how]
      /\ caller' = [caller EXCEPT ![c] = "returned"]
  BY DEF Resolve, Return
<1>3. ASSUME NEW d \in Callers, d # c, UnderWay(d) PROVE About[d] # About[c]
  BY <1>1, <1>3 DEF ClaimInv, OwnersHoldEntries
<1>4. ASSUME NEW d \in Callers, UnderWay(d)'
      PROVE  (cancelling[About[d]] = d /\ future[d] = "pending")'
  <2>1. d # c /\ UnderWay(d)
    BY <1>2, <1>4 DEF UnderWay, ClaimInv, TypeOK
  <2>2. cancelling[About[d]] = d /\ future[d] = "pending" /\ About[d] # About[c] /\ About[d] \in Jobs
    BY <2>1, <1>3, ConstantsAssumption DEF ClaimInv, OwnersHoldEntries
  <2>3. cancelling'[About[d]] = d
    BY <1>1, <2>2 DEF ClaimInv, TypeOK
  <2>4. future'[d] = "pending"
    BY <1>2, <2>1, <2>2 DEF ClaimInv, TypeOK
  <2> QED
    BY <2>3, <2>4
<1>5. ASSUME NEW k \in Jobs, cancelling'[k] # NoCaller
      PROVE  /\ About[cancelling'[k]] = k
             /\ \/ caller'[cancelling'[k]] \in {"grace", "writing"}
                \/ future'[cancelling'[k]] = "result" /\ k \in activeJobs'
  <2>1. CASE k = About[c]
    <3>1. how = "result" /\ About[c] \in activeJobs /\ cancelling' = cancelling
      BY <1>1, <1>5, <2>1 DEF ClaimInv, TypeOK
    <3> QED
      BY <1>1, <1>2, <2>1, <3>1 DEF ClaimInv, TypeOK
  <2>2. CASE k # About[c]
    <3>1. cancelling'[k] = cancelling[k] /\ cancelling[k] \in Callers
      BY <1>5, <2>2 DEF ClaimInv, TypeOK
    <3>2. About[cancelling[k]] = k /\ cancelling[k] # c
      BY <1>5, <2>2, <3>1 DEF ClaimInv, EntriesHaveOwners
    <3>3. future'[cancelling[k]] = future[cancelling[k]] /\ caller'[cancelling[k]] = caller[cancelling[k]]
      BY <1>2, <3>1, <3>2 DEF ClaimInv, TypeOK
    <3> QED
      BY <1>5, <3>1, <3>2, <3>3 DEF ClaimInv, EntriesHaveOwners, UnderWay
  <2> QED
    BY <2>1, <2>2
<1>6. OwnersHoldEntries'
  BY <1>4 DEF OwnersHoldEntries, UnderWay
<1>7. EntriesHaveOwners'
  BY <1>5 DEF EntriesHaveOwners, UnderWay
<1>8. WaitersHaveOwners'
  BY <1>2 DEF ClaimInv, WaitersHaveOwners, UnderWay, TypeOK, Settled
<1>9. NotYetOwners'
  BY <1>2 DEF ClaimInv, NotYetOwners, TypeOK
<1> QED
  BY <1>6, <1>7, <1>8, <1>9

(* A return of any other call keeps it.                                     *)
LEMMA OtherReturnKeepsClaims ==
  ASSUME ClaimInv, NEW c \in Callers, caller[c] \in {"getting", "joining"},
         NEW r \in Reply, Return(c, r), UNCHANGED <<activeJobs, cancelling, future, joined>>
  PROVE  (OwnersHoldEntries /\ EntriesHaveOwners /\ WaitersHaveOwners /\ NotYetOwners)'
<1>1. caller' = [caller EXCEPT ![c] = "returned"]
  BY DEF Return
<1> QED
  BY <1>1 DEF ClaimInv, OwnersHoldEntries, EntriesHaveOwners, WaitersHaveOwners, NotYetOwners,
     UnderWay, TypeOK

(* GraceEnds moves the owner on to its write; nothing else changes.         *)
LEMMA GraceEndsKeepsClaims ==
  ASSUME ClaimInv, NEW c \in Callers, GraceEnds(c)
  PROVE  (OwnersHoldEntries /\ EntriesHaveOwners /\ WaitersHaveOwners /\ NotYetOwners)'
<1>1. /\ caller[c] = "grace" /\ caller' = [caller EXCEPT ![c] = "writing"]
      /\ UNCHANGED <<cancelling, future, joined, activeJobs>>
  BY DEF GraceEnds, taskVars
<1>2. \A d \in Callers : UnderWay(d)' <=> UnderWay(d)
  BY <1>1 DEF UnderWay, ClaimInv, TypeOK
<1>3. OwnersHoldEntries' /\ NotYetOwners'
  BY <1>1, <1>2 DEF ClaimInv, OwnersHoldEntries, NotYetOwners, TypeOK
<1>4. EntriesHaveOwners'
  BY <1>1, <1>2 DEF ClaimInv, EntriesHaveOwners, TypeOK
<1>5. WaitersHaveOwners'
  BY <1>1, <1>2 DEF ClaimInv, WaitersHaveOwners, Settled, TypeOK
<1> QED
  BY <1>3, <1>4, <1>5

-----------------------------------------------------------------------------
(* The bookkeeping is kept by every step.                                   *)
THEOREM ClaimsKept == Spec => []ClaimInv
<1>1. Init => ClaimInv
  <2> SUFFICES ASSUME Init PROVE ClaimInv
    OBVIOUS
  <2>1. TypeOK
    BY ConstantsAssumption, EmptySeq
    DEF Init, TypeOK, Status, TaskState, ProviderState, CallerState, FutureState, Reply
  <2> QED
    BY <2>1 DEF Init, ClaimInv, OwnersHoldEntries, EntriesHaveOwners, WaitersHaveOwners,
       NotYetOwners, UnderWay
<1>2. ClaimInv /\ TypeOK' /\ [Next]_vars => ClaimInv'
  <2> SUFFICES ASSUME ClaimInv, TypeOK', [Next]_vars
               PROVE  (OwnersHoldEntries /\ EntriesHaveOwners /\ WaitersHaveOwners /\ NotYetOwners)'
    BY DEF ClaimInv
  <2> DEFINE Kept == (OwnersHoldEntries /\ EntriesHaveOwners /\ WaitersHaveOwners /\ NotYetOwners)'
  <2>1. ASSUME NEW j \in Jobs, Submit(j) \/ Begin(j) \/ TakeSlot(j) \/ FailureRecorded(j)
                                 \/ FailureLost(j) \/ ProviderEnds(j) \/ JobTimesOut(j)
        PROVE  Kept
    <3>1. activeJobs \subseteq activeJobs' /\ UNCHANGED <<cancelling, callVars>>
      BY <2>1 DEF Submit, Begin, TakeSlot, FailureRecorded, FailureLost, ProviderEnds,
                  JobTimesOut, taskVars
    <3> QED
      BY <3>1, OtherStepsKeepClaims
  <2>2. ASSUME NEW j \in Jobs, LeaveSlotWait(j) \/ Recorded(j) \/ WriteRaises(j) PROVE Kept
    BY <2>2, EndRunPhaseKeepsClaims DEF LeaveSlotWait, Recorded, WriteRaises
  <2>3. ASSUME NEW j \in Jobs, Marked(j) \/ ProviderReturns(j) PROVE Kept
    <3>1. \/ EndRunPhase(j) /\ UNCHANGED callVars
          \/ UNCHANGED <<activeJobs, cancelling, callVars>>
      BY <2>3 DEF Marked, ProviderReturns, Awaiting
    <3> QED
      BY <3>1, EndRunPhaseKeepsClaims, OtherStepsKeepClaims
  <2>4. ASSUME NEW c \in Callers, Cancel(c) PROVE Kept
    <3>1. CASE BeingCancelled(About[c])
      BY <2>4, <3>1, JoinKeepsClaims DEF Cancel, InFlight
    <3>2. CASE ~BeingCancelled(About[c]) /\ About[c] \in activeJobs
      BY <2>4, <3>2, ClaimKeepsClaims DEF Cancel, InFlight
    <3>3. CASE ~BeingCancelled(About[c]) /\ About[c] \notin activeJobs
      <4>1. /\ caller[c] = "idle" /\ caller' = [caller EXCEPT ![c] = "getting"]
            /\ UNCHANGED <<cancelling, future, joined, activeJobs>>
        BY <2>4, <3>3 DEF Cancel, InFlight
      <4> QED
        BY <4>1 DEF ClaimInv, OwnersHoldEntries, EntriesHaveOwners, WaitersHaveOwners,
           NotYetOwners, UnderWay, TypeOK
    <3> QED
      BY <3>1, <3>2, <3>3
  <2>5. ASSUME NEW c \in Callers, LookedUp(c) PROVE Kept
    <3>1. \/ BeingCancelled(About[c]) /\ Join(c) /\ UNCHANGED <<cancelling, future>>
          \/ /\ ~BeingCancelled(About[c]) /\ Claim(c) /\ UNCHANGED joined
             /\ caller' = [caller EXCEPT ![c] = "writing"]
          \/ (\E r \in Reply : Return(c, r)) /\ UNCHANGED <<cancelling, future, joined>>
      BY <2>5 DEF LookedUp, Reply
    <3>2. caller[c] = "getting" /\ UNCHANGED activeJobs
      BY <2>5 DEF LookedUp
    <3> QED
      BY <3>1, <3>2, JoinKeepsClaims, ClaimKeepsClaims, OtherReturnKeepsClaims
  <2>6. ASSUME NEW c \in Callers, LookUpRaises(c) PROVE Kept
    BY <2>6, OtherReturnKeepsClaims DEF LookUpRaises, taskVars, Reply
  <2>7. ASSUME NEW c \in Callers, GraceEnds(c) PROVE Kept
    BY <2>7, GraceEndsKeepsClaims
  <2>8. ASSUME NEW c \in Callers, CancelRecorded(c) PROVE Kept
    BY <2>8, OwnerReturnKeepsClaims DEF CancelRecorded, taskVars, Reply
  <2>9. ASSUME NEW c \in Callers, CancelWriteRaises(c) PROVE Kept
    BY <2>9, OwnerReturnKeepsClaims DEF CancelWriteRaises, taskVars, Reply
  <2>10. ASSUME NEW c \in Callers, JoinReturns(c) PROVE Kept
    BY <2>10, OtherReturnKeepsClaims DEF JoinReturns, taskVars, Reply
  <2>11. CASE UNCHANGED vars
    BY <2>11, OtherStepsKeepClaims DEF vars, callVars
  <2> QED
    BY <2>1, <2>2, <2>3, <2>4, <2>5, <2>6, <2>7, <2>8, <2>9, <2>10, <2>11
    DEF Next, TaskStep, CallerStep
<1> QED
  BY <1>1, <1>2, TypeCorrect, PTL DEF Spec

(* No second cancel() call waits on a future that nobody will resolve.      *)
THEOREM WaitersAreServed == Spec => []NoOrphanedWaiter
<1>1. ClaimInv => NoOrphanedWaiter
  BY DEF ClaimInv, WaitersHaveOwners, OwnersHoldEntries, NoOrphanedWaiter, UnderWay
<1> QED
  BY <1>1, ClaimsKept, PTL

(* _cancelling does not leak entries, whatever the store and providers do.  *)
THEOREM EntriesDoNotLeak == Spec => []NoCancellingLeak
<1>1. ClaimInv => NoCancellingLeak
  BY DEF ClaimInv, EntriesHaveOwners, OwnersHoldEntries, NoCancellingLeak, UnderWay,
         BeingCancelled, TypeOK
<1> QED
  BY <1>1, ClaimsKept, PTL

-----------------------------------------------------------------------------
(* The store's queue: whoever awaits the store is in it, once.              *)
In(q, a) == \E i \in 1 .. Len(q) : q[i] = a
Distinct(q) == \A i, k \in 1 .. Len(q) : q[i] = q[k] => i = k
Ahead(q, a, b) == \A i, k \in 1 .. Len(q) : q[i] = a /\ q[k] = b => i < k

LEMMA QueueJoined ==
  ASSUME NEW S, NEW q \in Seq(S), NEW a \in S, Distinct(q), ~In(q, a)
  PROVE  /\ Distinct(Append(q, a))
         /\ \A x : In(Append(q, a), x) <=> In(q, x) \/ x = a
         /\ \A x, y : Ahead(q, x, y) /\ x # a => Ahead(Append(q, a), x, y)
         /\ \A x : x # a => Ahead(Append(q, a), x, a)
<1> DEFINE r == Append(q, a)
<1>1. /\ Len(q) \in Nat /\ Len(r) = Len(q) + 1 /\ r[Len(r)] = a
      /\ \A i \in 1 .. Len(q) : i \in 1 .. Len(r) /\ r[i] = q[i]
      /\ \A i \in 1 .. Len(r) : i \in 1 .. Len(q) \/ i = Len(r)
      /\ Len(r) \in 1 .. Len(r)
  BY LenProperties, AppendProperties
<1> HIDE DEF r
<1>2. \A i \in 1 .. Len(q) : q[i] # a /\ i < Len(r)
  BY <1>1 DEF In
<1>3. Distinct(r)
  BY <1>1, <1>2 DEF Distinct
<1>4. \A x : In(r, x) <=> In(q, x) \/ x = a
  BY <1>1 DEF In
<1>5. \A x : x # a => Ahead(r, x, a)
  BY <1>1, <1>2 DEF Ahead
<1>6. ASSUME NEW x, NEW y, Ahead(q, x, y), x # a
      PROVE  Ahead(r, x, y)
  <2>1. CASE y = a
    BY <1>5, <1>6, <2>1
  <2>2. CASE y # a
    BY <1>1, <1>6, <2>2 DEF Ahead
  <2> QED
    BY <2>1, <2>2
<1> QED
  BY <1>3, <1>4, <1>5, <1>6 DEF r

LEMMA QueueLeft ==
  ASSUME NEW S, NEW q \in Seq(S), q # << >>, Distinct(q)
  PROVE  /\ Tail(q) \in Seq(S) /\ Distinct(Tail(q)) /\ In(q, Head(q))
         /\ \A x : In(Tail(q), x) <=> In(q, x) /\ x # Head(q)
         /\ \A x, y : Ahead(q, x, y) => Ahead(Tail(q), x, y)
<1> DEFINE r == Tail(q)
<1>1. /\ Len(q) \in Nat \ {0} /\ r \in Seq(S) /\ Len(r) = Len(q) - 1 /\ Head(q) = q[1]
      /\ \A i \in 1 .. Len(r) : r[i] = q[i + 1]
  BY HeadTailProperties, LenProperties, EmptySeq
<1> HIDE DEF r
<1>2. /\ 1 \in 1 .. Len(q)
      /\ \A i \in 1 .. Len(r) : i + 1 \in 1 .. Len(q) /\ i + 1 # 1
      /\ \A i \in 1 .. Len(q) : i = 1 \/ (i - 1 \in 1 .. Len(r) /\ r[i - 1] = q[i])
  BY <1>1
<1>3. Distinct(r)
  <2> SUFFICES ASSUME NEW i \in 1 .. Len(r), NEW k \in 1 .. Len(r), r[i] = r[k]
               PROVE  i = k
    BY DEF Distinct
  <2>1. i + 1 = k + 1
    BY <1>1, <1>2 DEF Distinct
  <2> QED
    BY <2>1
<1>4. ASSUME NEW x
      PROVE  In(r, x) <=> In(q, x) /\ x # Head(q)
  <2>1. ASSUME In(r, x) PROVE In(q, x) /\ x # Head(q)
    <3> PICK i \in 1 .. Len(r) : r[i] = x
      BY <2>1 DEF In
    <3>1. q[i + 1] = x /\ i + 1 \in 1 .. Len(q) /\ i + 1 # 1
      BY <1>1, <1>2
    <3>2. In(q, x)
      BY <3>1 DEF In
    <3>3. x # q[1]
      BY <1>2, <3>1 DEF Distinct
    <3> QED
      BY <1>1, <3>2, <3>3
  <2>2. ASSUME In(q, x), x # Head(q) PROVE In(r, x)
    BY <1>1, <1>2, <2>2 DEF In
  <2> QED
    BY <2>1, <2>2
<1>5. ASSUME NEW x, NEW y, Ahead(q, x, y)
      PROVE  Ahead(r, x, y)
  <2> SUFFICES ASSUME NEW i \in 1 .. Len(r), NEW k \in 1 .. Len(r), r[i] = x, r[k] = y
               PROVE  i < k
    BY DEF Ahead
  <2>1. i + 1 < k + 1
    BY <1>1, <1>2, <1>5 DEF Ahead
  <2> QED
    BY <2>1
<1>6. In(q, Head(q))
  BY <1>1, <1>2 DEF In
<1> QED
  BY <1>1, <1>3, <1>4, <1>5, <1>6 DEF r

(* Whoever returns next has nobody ahead of it.                             *)
LEMMA HeadFirst ==
  ASSUME NEW S, NEW q \in Seq(S), q # << >>, NEW a, In(q, a)
  PROVE  ~Ahead(q, a, Head(q))
<1>1. Len(q) \in Nat \ {0} /\ Head(q) = q[1] /\ 1 \in 1 .. Len(q)
  BY HeadTailProperties, LenProperties, EmptySeq
<1> QED
  BY <1>1 DEF In, Ahead

Actors == Jobs \cup Callers
Out(a) == \/ a \in Jobs /\ task[a] \in InStore
          \/ a \in Callers /\ caller[a] \in {"getting", "writing"}

QueueInv == Distinct(storeQueue) /\ \A a \in Actors : Out(a) <=> In(storeQueue, a)

(* What a step of actor a may do with its own place in the queue, and what  *)
(* the others see of it.                                                    *)
Stays(a) == storeQueue' = storeQueue /\ (Out(a)' <=> Out(a))
Joins(a) == storeQueue' = Append(storeQueue, a) /\ ~Out(a) /\ Out(a)'
Leaves(a) == StoreReturns(a) /\ storeQueue' = Tail(storeQueue) /\ ~Out(a)'
Rejoins(a) == StoreReturns(a) /\ storeQueue' = Append(Tail(storeQueue), a) /\ Out(a)'

LEMMA QueueStep ==
  ASSUME TypeOK, QueueInv, NEW a \in Actors, Stays(a) \/ Joins(a) \/ Leaves(a) \/ Rejoins(a),
         \A b \in Actors \ {a} : Out(b)' <=> Out(b)
  PROVE  /\ QueueInv'
         /\ \A x, y : x # a /\ Ahead(storeQueue, x, y) => Ahead(storeQueue', x, y)
         /\ Joins(a) \/ Rejoins(a) => \A x : x # a => Ahead(storeQueue', x, a)
         /\ Leaves(a) \/ Rejoins(a) => \A x \in Actors : Out(x) => ~Ahead(storeQueue, x, a)
<1> DEFINE Order == \A x, y : x # a /\ Ahead(storeQueue, x, y) => Ahead(storeQueue', x, y)
<1> DEFINE Last == \A x : x # a => Ahead(storeQueue', x, a)
<1> DEFINE First == \A x \in Actors : Out(x) => ~Ahead(storeQueue, x, a)
<1>1. storeQueue \in Seq(Actors) /\ Distinct(storeQueue)
  BY DEF TypeOK, Actors, QueueInv
<1>2. ASSUME Stays(a)
      PROVE  QueueInv' /\ Order
  BY <1>2 DEF Stays, QueueInv, Actors
<1>3. ASSUME Joins(a)
      PROVE  QueueInv' /\ Order /\ Last
  <2>1. ~In(storeQueue, a)
    BY <1>3 DEF Joins, QueueInv
  <2> QED
    BY <1>1, <1>3, <2>1, QueueJoined DEF Joins, QueueInv, Actors
<1>4. ASSUME StoreReturns(a)
      PROVE  First
  BY <1>1, <1>4, HeadFirst DEF StoreReturns, QueueInv
<1>5. ASSUME Leaves(a)
      PROVE  QueueInv' /\ Order
  BY <1>1, <1>5, QueueLeft DEF Leaves, StoreReturns, QueueInv, Actors
<1>6. ASSUME Rejoins(a)
      PROVE  QueueInv' /\ Order /\ Last
  <2> DEFINE r == Tail(storeQueue)
  <2>1. /\ r \in Seq(Actors) /\ Distinct(r)
        /\ \A x : In(r, x) <=> In(storeQueue, x) /\ x # a
        /\ \A x, y : Ahead(storeQueue, x, y) => Ahead(r, x, y)
    BY <1>1, <1>6, QueueLeft DEF Rejoins, StoreReturns
  <2>2. storeQueue' = Append(r, a) /\ Out(a)'
    BY <1>6 DEF Rejoins
  <2> HIDE DEF r
  <2>3. /\ Distinct(Append(r, a))
        /\ \A x : In(Append(r, a), x) <=> In(r, x) \/ x = a
        /\ \A x, y : Ahead(r, x, y) /\ x # a => Ahead(Append(r, a), x, y)
        /\ \A x : x # a => Ahead(Append(r, a), x, a)
    BY <2>1, QueueJoined
  <2> QED
    BY <2>1, <2>2, <2>3 DEF QueueInv, Actors
<1> QED
  BY <1>2, <1>3, <1>4, <1>5, <1>6 DEF Leaves, Rejoins

-----------------------------------------------------------------------------
(* What a step of one job's task does, as the invariants see it.            *)
(* Waking a waiter only ever moves a queued task to granted.                *)
LEMMA WakeMoves ==
  ASSUME NEW st, NEW n, WakeNext(st, n), NEW k \in Jobs
  PROVE  task'[k] = st[k] \/ (st[k] = "queued" /\ task'[k] = "granted")
BY DEF WakeNext, FirstQueued

LEMMA ReleaseMoves ==
  ASSUME NEW st, ReleaseSlot(st), NEW k \in Jobs
  PROVE  task'[k] = st[k] \/ (st[k] = "queued" /\ task'[k] = "granted")
BY WakeMoves DEF ReleaseSlot

(* Another job is at most woken.                                            *)
Others(j) ==
  \A k \in Jobs \ {j} :
    /\ task'[k] = task[k] \/ (task[k] = "queued" /\ task'[k] = "granted")
    /\ stored'[k] = stored[k] /\ provider'[k] = provider[k]
    /\ cancelling'[k] = cancelling[k] /\ cancelTargets'[k] = cancelTargets[k]
    /\ k \in activeJobs' <=> k \in activeJobs

RunGoesOn(j) == cancelling'[j] = cancelling[j] /\ (j \in activeJobs' <=> j \in activeJobs)
CallReturns(j) == StoreReturns(j) /\ storeQueue' = Tail(storeQueue)

TaskMove(j) ==
  \/ /\ stored[j] = "absent" /\ j \notin Unissued /\ stored'[j] = "pending" /\ task'[j] = "scheduled"
     /\ j \in activeJobs' /\ UNCHANGED <<cancelling, provider, storeQueue, faults>>
  \/ /\ task[j] = "scheduled" /\ task'[j] = "queued" /\ cancelTargets'[j] = "slotwait" /\ RunGoesOn(j)
     /\ UNCHANGED <<stored, provider, storeQueue, faults>>
  \/ /\ task[j] \in {"scheduled", "granted"} /\ task'[j] = "marking" /\ RunGoesOn(j)
     /\ storeQueue' = Append(storeQueue, j) /\ UNCHANGED <<stored, provider, faults>>
  \/ /\ task[j] \in {"dropped", "returning"} /\ task'[j] = "ended" /\ EndRunPhase(j)
     /\ UNCHANGED <<stored, provider, storeQueue, faults>>
  \/ /\ task[j] = "marking" /\ stored'[j] = "processing" /\ CallReturns(j) /\ UNCHANGED faults
     /\ \/ task'[j] = "ended" /\ BeingCancelled(j) /\ EndRunPhase(j) /\ UNCHANGED provider
        \/ task'[j] = "providing" /\ ~BeingCancelled(j) /\ RunGoesOn(j) /\ provider'[j] = "running"
  \/ /\ task[j] \in Awaiting /\ task'[j] = "ended" /\ EndRunPhase(j)
     /\ BeingCancelled(j) \/ Escapes(j)
     /\ provider[j] \notin Calling
     /\ UNCHANGED <<stored, provider, storeQueue, faults>>
  \/ /\ task[j] \in Awaiting /\ task'[j] = "recording" /\ RunGoesOn(j)
     /\ ~BeingCancelled(j) /\ ~Escapes(j) /\ provider[j] \notin Calling
     /\ storeQueue' = Append(storeQueue, j) /\ UNCHANGED <<stored, provider, faults>>
  \/ /\ task[j] = "recording" /\ task'[j] = "ended" /\ stored'[j] \in {"ready", "error"}
     /\ EndRunPhase(j) /\ CallReturns(j) /\ UNCHANGED <<provider, faults>>
  \/ /\ task[j] \in {"marking", "recording"} /\ task'[j] = "failing"
     /\ stored'[j] \in {stored[j], "processing", "ready", "error"}
     /\ EndRunPhase(j) /\ StoreReturns(j) /\ storeQueue' = Append(Tail(storeQueue), j)
     /\ faults' = faults + 1 /\ UNCHANGED provider
  \/ /\ task[j] = "failing" /\ task'[j] = "ended" /\ stored'[j] \in {stored[j], "error"}
     /\ RunGoesOn(j) /\ CallReturns(j) /\ faults' \in {faults, faults + 1} /\ UNCHANGED provider
  \/ /\ task'[j] = task[j] /\ RunGoesOn(j) /\ UNCHANGED <<stored, storeQueue, faults>>
     /\ provider[j] \in Calling
     /\ provider[j] = "asked" \/ provider'[j] # "gone" \/ "selfcancels" \in Habits
     /\ provider'[j] \in {"result", "raised", "gone"} /\ cancelTargets' = cancelTargets
  \/ /\ task[j] = "providing" /\ RunGoesOn(j) /\ UNCHANGED <<stored, storeQueue, faults>>
     /\ \/ task'[j] = "unwinding" /\ provider[j] \in Calling /\ provider'[j] = "asked"
        \/ task'[j] = "expired" /\ provider[j] \notin Calling /\ provider'[j] = provider[j]

LEMMA TaskMoves ==
  ASSUME TypeOK, NEW j \in Jobs, Submit(j) \/ TaskStep(j) \/ ProviderEnds(j) \/ JobTimesOut(j)
  PROVE  Others(j) /\ TaskMove(j) /\ UNCHANGED callVars
<1> USE DEF TypeOK, callVars, storeVars, slotVars, taskVars, RunGoesOn, CallReturns
<1>1. ASSUME EndRunPhase(j)
      PROVE  \A k \in Jobs \ {j} : cancelling'[k] = cancelling[k] /\ (k \in activeJobs' <=> k \in activeJobs)
  BY <1>1 DEF EndRunPhase
<1>2. ASSUME NEW s \in TaskState \ {"queued"}, NEW n,
             WakeNext([task EXCEPT ![j] = s], n) \/ ReleaseSlot([task EXCEPT ![j] = s])
               \/ task' = [task EXCEPT ![j] = s]
      PROVE  /\ task'[j] = s
             /\ \A k \in Jobs \ {j} : task'[k] = task[k] \/ (task[k] = "queued" /\ task'[k] = "granted")
  <2> DEFINE st == [task EXCEPT ![j] = s]
  <2>1. \A k \in Jobs : task'[k] = st[k] \/ (st[k] = "queued" /\ task'[k] = "granted")
    BY <1>2, WakeMoves, ReleaseMoves
  <2> QED
    BY <2>1
<1>3. {"marking", "providing", "recording", "ended", "failing"} \subseteq TaskState \ {"queued"}
  BY DEF TaskState, HoldsSlot, Awaiting, InStore
<1>4. CASE Submit(j) \/ Begin(j) \/ FailureRecorded(j) \/ FailureLost(j)
  BY <1>4 DEF Submit, Begin, FailureRecorded, FailureLost, StoreRaises, Others, TaskMove, Awaiting
<1>5. CASE ProviderEnds(j) \/ JobTimesOut(j)
  BY <1>5 DEF ProviderEnds, JobTimesOut, Others, TaskMove, Awaiting, Calling
<1>6. CASE TakeSlot(j)
  BY <1>2, <1>3, <1>6 DEF TakeSlot, Others, TaskMove, Awaiting
<1>7. CASE LeaveSlotWait(j)
  BY <1>1, <1>2, <1>3, <1>7 DEF LeaveSlotWait, Others, TaskMove, Awaiting
<1>8. CASE Marked(j)
  <2>1. CASE StopsBeforeProvider(j)
    BY <1>1, <1>2, <1>3, <1>8, <2>1 DEF Marked, StopsBeforeProvider, Others, TaskMove, Awaiting
  <2>2. CASE ~StopsBeforeProvider(j)
    BY <1>8, <2>2 DEF Marked, StopsBeforeProvider, Others, TaskMove, Awaiting
  <2> QED
    BY <2>1, <2>2
<1>9. CASE ProviderReturns(j)
  <2>0. provider[j] \notin Calling
    BY <1>9 DEF ProviderReturns, Awaiting, Calling
  <2>1. CASE Discarded(j) \/ Escapes(j)
    BY <1>1, <1>2, <1>3, <1>9, <2>0, <2>1 DEF ProviderReturns, Awaiting, Discarded, Others, TaskMove
  <2>2. CASE ~(Discarded(j) \/ Escapes(j))
    BY <1>9, <2>0, <2>2 DEF ProviderReturns, Awaiting, Discarded, Others, TaskMove
  <2> QED
    BY <2>1, <2>2
<1>10. CASE Recorded(j)
  <2>1. verdict[j] \in {"ready", "error"}
    OBVIOUS
  <2> QED
    BY <1>1, <1>2, <1>3, <1>10, <2>1 DEF Recorded, Others, TaskMove, Awaiting
<1>11. CASE WriteRaises(j)
  <2>1. /\ stored'[j] \in {stored[j], "processing", "ready", "error"}
        /\ \A k \in Jobs \ {j} : stored'[k] = stored[k]
    BY <1>11 DEF WriteRaises
  <2> QED
    BY <1>1, <1>2, <1>3, <1>11, <2>1 DEF WriteRaises, StoreRaises, Others, TaskMove, Awaiting
<1> QED
  BY <1>4, <1>5, <1>6, <1>7, <1>8, <1>9, <1>10, <1>11 DEF TaskStep

-----------------------------------------------------------------------------
(* What a step of one cancel() does, as the invariants see it.              *)
(* Its target, if any, is woken with CancelledError; other jobs and other   *)
(* calls are left alone.                                                    *)
TargetMoves(j) ==
  /\ task'[j] = IF cancelTargets[j] = "slotwait" THEN AfterCancel(task[j]) ELSE task[j]
  /\ provider'[j] = provider[j] \/ (provider[j] = "running" /\ provider'[j] = "asked")
  /\ stored'[j] = stored[j]

TargetStays(j) == task'[j] = task[j] /\ provider'[j] = provider[j]

CallsApart(c) ==
  /\ \A d \in Callers \ {c} : /\ caller'[d] = caller[d] /\ future'[d] = future[d]
                              /\ joined'[d] = joined[d] /\ reply'[d] = reply[d]
  /\ \A k \in Jobs \ {About[c]} : /\ stored'[k] = stored[k] /\ cancelling'[k] = cancelling[k]
                                  /\ TargetStays(k)
  /\ UNCHANGED <<activeJobs, cancelTargets>>

Claims(c) ==
  LET j == About[c] IN
  /\ ~BeingCancelled(j) /\ cancelling'[j] = c /\ TargetMoves(j)
  /\ future'[c] = "pending" /\ reply'[c] = reply[c] /\ UNCHANGED faults

JoinsIn(c) ==
  LET j == About[c] IN
  /\ BeingCancelled(j) /\ caller'[c] = "joining" /\ joined'[c] = cancelling[j]
  /\ TargetStays(j) /\ UNCHANGED <<stored, cancelling, future, reply, faults>>

Answers(c) ==
  LET j == About[c] IN
  /\ caller'[c] = "returned" /\ joined'[c] = joined[c] /\ TargetStays(j)

CallMove(c) ==
  LET j == About[c] IN
  \/ /\ caller[c] = "idle" /\ Known(j) /\ JoinsIn(c) /\ UNCHANGED storeQueue
  \/ /\ caller[c] = "idle" /\ Known(j) /\ j \in activeJobs /\ Claims(c)
     /\ \/ caller'[c] = "grace" /\ UNCHANGED storeQueue
        \/ caller'[c] = "writing" /\ storeQueue' = Append(storeQueue, c)
  \/ /\ caller[c] = "idle" /\ Known(j) /\ j \notin activeJobs /\ ~BeingCancelled(j)
     /\ caller'[c] = "getting" /\ storeQueue' = Append(storeQueue, c) /\ TargetStays(j)
     /\ UNCHANGED <<stored, cancelling, future, reply, faults>>
  \/ /\ caller[c] = "getting" /\ stored[j] \in Unfinished /\ JoinsIn(c) /\ CallReturns(c)
  \/ /\ caller[c] = "getting" /\ stored[j] \in Unfinished /\ Claims(c) /\ caller'[c] = "writing"
     /\ StoreReturns(c) /\ storeQueue' = Append(Tail(storeQueue), c)
  \/ /\ caller[c] = "getting" /\ Answers(c) /\ CallReturns(c)
     /\ UNCHANGED <<stored, cancelling, future>>
     /\ \/ stored[j] = "absent" /\ reply'[c] = "notfound" /\ UNCHANGED faults
        \/ stored[j] = "cancelled" /\ reply'[c] = "cancelled" /\ UNCHANGED faults
        \/ stored[j] \in Terminal /\ reply'[c] = "conflict" /\ UNCHANGED faults
        \/ reply'[c] = "failed" /\ faults' = faults + 1
  \/ /\ caller[c] = "grace" /\ caller'[c] = "writing" /\ storeQueue' = Append(storeQueue, c)
     /\ j \notin activeJobs \/ task[j] \notin Ready
     /\ TargetStays(j) /\ UNCHANGED <<stored, cancelling, future, reply, faults>>
  \/ /\ caller[c] = "writing" /\ Answers(c) /\ CallReturns(c)
     /\ stored'[j] = "cancelled" /\ future'[c] = "result" /\ reply'[c] = "cancelled"
     /\ cancelling'[j] = (IF j \in activeJobs THEN cancelling[j] ELSE NoCaller)
     /\ UNCHANGED faults
  \/ /\ caller[c] = "writing" /\ Answers(c) /\ CallReturns(c)
     /\ stored'[j] \in {stored[j], "cancelled"} /\ future'[c] = "exception" /\ reply'[c] = "failed"
     /\ cancelling'[j] = NoCaller /\ faults' = faults + 1
  \/ /\ caller[c] = "joining" /\ Answers(c) /\ UNCHANGED <<stored, storeQueue, cancelling, future, faults>>
     /\ Settled(future[joined[c]])
     /\ reply'[c] = (IF future[joined[c]] = "result" THEN "cancelled" ELSE "failed")

LEMMA CallMoves ==
  ASSUME TypeOK, NEW c \in Callers, Cancel(c) \/ CallerStep(c)
  PROVE  CallsApart(c) /\ CallMove(c)
<1> DEFINE j == About[c]
<1>0. j \in Jobs
  BY ConstantsAssumption
<1> USE DEF TypeOK, storeVars, slotVars, taskVars, CallReturns
<1>1. ASSUME CancelTarget(j)
      PROVE  /\ task'[j] = IF cancelTargets[j] = "slotwait" THEN AfterCancel(task[j]) ELSE task[j]
             /\ provider'[j] = provider[j] \/ (provider[j] = "running" /\ provider'[j] = "asked")
             /\ \A k \in Jobs \ {j} : TargetStays(k)
  BY <1>0, <1>1 DEF CancelTarget, TargetStays
<1>2. CASE Cancel(c)
  <2>1. CASE InFlight(j)
    BY <1>0, <1>2, <2>1 DEF Cancel, InFlight, Join, CallsApart, CallMove, JoinsIn, TargetStays
  <2>2. CASE ~InFlight(j) /\ j \in activeJobs
    BY <1>0, <1>1, <1>2, <2>2 DEF Cancel, InFlight, Claim, CallsApart, CallMove, Claims, TargetMoves
  <2>3. CASE ~InFlight(j) /\ j \notin activeJobs
    BY <1>0, <1>2, <2>3 DEF Cancel, InFlight, CallsApart, CallMove, TargetStays
  <2> QED
    BY <2>1, <2>2, <2>3
<1>3. CASE LookedUp(c)
  <2>1. CASE stored[j] \in Unfinished /\ BeingCancelled(j)
    BY <1>0, <1>3, <2>1 DEF LookedUp, Join, CallsApart, CallMove, JoinsIn, TargetStays
  <2>2. CASE stored[j] \in Unfinished /\ ~BeingCancelled(j)
    BY <1>0, <1>1, <1>3, <2>2 DEF LookedUp, Claim, CallsApart, CallMove, Claims, TargetMoves
  <2>3. CASE stored[j] \notin Unfinished
    BY <1>0, <1>3, <2>3 DEF LookedUp, Return, CallsApart, CallMove, Answers, TargetStays
  <2> QED
    BY <2>1, <2>2, <2>3
<1>4. CASE LookUpRaises(c)
  BY <1>0, <1>4 DEF LookUpRaises, StoreRaises, Return, CallsApart, CallMove, Answers, TargetStays
<1>5. CASE GraceEnds(c)
  BY <1>0, <1>5 DEF GraceEnds, CallsApart, CallMove, TargetStays
<1>6. CASE CancelRecorded(c)
  BY <1>0, <1>6 DEF CancelRecorded, Return, Resolve, CallsApart, CallMove, Answers, TargetStays
<1>7. CASE CancelWriteRaises(c)
  <2>1. /\ stored'[j] \in {stored[j], "cancelled"}
        /\ \A k \in Jobs \ {j} : stored'[k] = stored[k]
    BY <1>0, <1>7 DEF CancelWriteRaises
  <2> QED
    BY <1>0, <1>7, <2>1 DEF CancelWriteRaises, StoreRaises, Return, Resolve, CallsApart, CallMove, Answers, TargetStays
<1>8. CASE JoinReturns(c)
  BY <1>0, <1>8 DEF JoinReturns, Return, CallsApart, CallMove, Answers, TargetStays
<1> QED
  BY <1>2, <1>3, <1>4, <1>5, <1>6, <1>7, <1>8 DEF CallerStep

-----------------------------------------------------------------------------
(* What holds whatever the store, the providers and the callers do.         *)
Over == {"failing", "ended"}

(* A job's record, its place in _active_jobs and its target go with its     *)
(* task.                                                                    *)
Shape(j) ==
  /\ task[j] = "none" <=> stored[j] = "absent"
  /\ j \in Unissued => task[j] = "none"
  /\ j \in activeJobs <=> task[j] \notin {"none"} \cup Over
  /\ task[j] \in {"queued", "granted"} => cancelTargets[j] = "slotwait"
  /\ task[j] = "failing" => faults > 0

(* cancel() looks a job up only after its run phase, claims none that was   *)
(* never submitted, and answers when it returns.                            *)
CallShape(c) ==
  /\ caller[c] = "getting" => About[c] \in Unissued \/ task[About[c]] \in Over
  /\ UnderWay(c) => stored[About[c]] # "absent"
  /\ caller[c] # "returned" => reply[c] = "none"

BaseInv == ClaimInv /\ QueueInv /\ (\A j \in Jobs : Shape(j)) /\ (\A c \in Callers : CallShape(c))

LEMMA TaskQueues ==
  ASSUME TypeOK, QueueInv, NEW j \in Jobs, Others(j), TaskMove(j), UNCHANGED callVars, Shape(j)
  PROVE  /\ Stays(j) \/ Joins(j) \/ Leaves(j) \/ Rejoins(j)
         /\ \A b \in Actors \ {j} : Out(b)' <=> Out(b)
<1>1. \A b \in Actors \ {j} : Out(b)' <=> Out(b)
  BY DEF Others, Out, callVars, InStore
<1>2. Out(j) <=> task[j] \in InStore
  BY ConstantsAssumption DEF Out
<1>3. Out(j)' <=> task'[j] \in InStore
  BY ConstantsAssumption DEF Out
<1>4. Stays(j) \/ Joins(j) \/ Leaves(j) \/ Rejoins(j)
  BY <1>2, <1>3 DEF TaskMove, Awaiting, CallReturns, Stays, Joins, Leaves, Rejoins, InStore, Shape
<1> QED
  BY <1>1, <1>4

LEMMA TaskShapes ==
  ASSUME TypeOK, \A k \in Jobs : Shape(k), \A c \in Callers : CallShape(c),
         NEW j \in Jobs, Others(j), TaskMove(j), UNCHANGED callVars
  PROVE  (\A k \in Jobs : Shape(k)') /\ (\A c \in Callers : CallShape(c)')
<1>1. faults \in Nat /\ faults' \in Nat /\ faults' >= faults
  BY ConstantsAssumption DEF TypeOK, TaskMove, Awaiting
<1>2. Shape(j)'
  BY <1>1 DEF TaskMove, Awaiting, RunGoesOn, EndRunPhase, Shape, Over
<1>3. ASSUME NEW k \in Jobs \ {j} PROVE Shape(k)'
  BY <1>1 DEF Others, Shape, Over
<1>4. ASSUME NEW c \in Callers PROVE CallShape(c)'
  <2>1. About[c] \in Jobs /\ caller'[c] = caller[c] /\ reply'[c] = reply[c]
    BY ConstantsAssumption DEF callVars
  <2>2. CASE About[c] = j
    BY <2>1, <2>2 DEF TaskMove, Awaiting, CallShape, UnderWay, Over, Shape
  <2>3. CASE About[c] # j
    BY <2>1, <2>3 DEF Others, CallShape, UnderWay, Over
  <2> QED
    BY <2>2, <2>3
<1> QED
  BY <1>2, <1>3, <1>4

LEMMA CallQueues ==
  ASSUME TypeOK, NEW c \in Callers, CallsApart(c), CallMove(c)
  PROVE  /\ Stays(c) \/ Joins(c) \/ Leaves(c) \/ Rejoins(c)
         /\ \A b \in Actors \ {c} : Out(b)' <=> Out(b)
<1>1. About[c] \in Jobs /\ c \notin Jobs /\ \A d \in Callers : d \notin Jobs
  BY ConstantsAssumption
<1>2. task'[About[c]] \in InStore <=> task[About[c]] \in InStore
  BY DEF CallMove, JoinsIn, Claims, Answers, TargetStays, TargetMoves, AfterCancel, InStore
<1>3. \A k \in Jobs : Out(k)' <=> Out(k)
  BY <1>1, <1>2 DEF CallsApart, TargetStays, Out
<1>4. \A d \in Callers \ {c} : Out(d)' <=> Out(d)
  BY <1>1 DEF CallsApart, Out
<1>5. Out(c) <=> caller[c] \in {"getting", "writing"}
  BY <1>1 DEF Out
<1>6. Out(c)' <=> caller'[c] \in {"getting", "writing"}
  BY <1>1 DEF Out
<1>7. Stays(c) \/ Joins(c) \/ Leaves(c) \/ Rejoins(c)
  BY <1>5, <1>6 DEF CallMove, JoinsIn, Claims, Answers, CallReturns, Stays, Joins, Leaves, Rejoins
<1> QED
  BY <1>3, <1>4, <1>7 DEF Actors

LEMMA CallShapes ==
  ASSUME ClaimInv, \A k \in Jobs : Shape(k), \A d \in Callers : CallShape(d),
         NEW c \in Callers, CallsApart(c), CallMove(c)
  PROVE  (\A k \in Jobs : Shape(k)') /\ (\A d \in Callers : CallShape(d)')
<1> DEFINE j == About[c]
<1>0. j \in Jobs /\ faults \in Nat /\ faults' \in Nat /\ faults' >= faults
  BY ConstantsAssumption DEF ClaimInv, TypeOK, CallMove, JoinsIn, Claims
<1>1. task'[j] = task[j] \/ (task[j] = "queued" /\ task'[j] = "dropped")
        \/ (task[j] = "granted" /\ task'[j] = "returning")
  BY DEF CallMove, JoinsIn, Claims, Answers, TargetStays, TargetMoves, AfterCancel
<1>2. stored'[j] = stored[j] \/ (stored'[j] = "cancelled" /\ caller[c] = "writing")
  BY DEF CallMove, JoinsIn, Claims, TargetMoves
<1>3. caller[c] = "writing" => stored[j] # "absent"
  BY DEF CallShape, UnderWay
<1>4. Shape(j)'
  BY <1>0, <1>1, <1>2, <1>3 DEF Shape, CallsApart, Over
<1>5. ASSUME NEW k \in Jobs \ {j} PROVE Shape(k)'
  BY <1>0 DEF CallsApart, TargetStays, Shape
<1>6. ASSUME NEW d \in Callers PROVE CallShape(d)'
  <2>1. About[d] \in Jobs /\ (task[About[d]] \in Over => task'[About[d]] \in Over)
    BY <1>0, <1>1, ConstantsAssumption DEF CallsApart, TargetStays, Over
  <2>2. CASE d # c
    <3>1. caller'[d] = caller[d] /\ reply'[d] = reply[d] /\ (stored[About[d]] # "absent" => stored'[About[d]] # "absent")
      BY <1>2, <2>1, <2>2 DEF CallsApart
    <3> QED
      BY <2>1, <3>1 DEF CallShape, UnderWay
  <2>3. CASE d = c
    <3>1. caller'[c] = "getting" => caller[c] = "idle" /\ Known(j) /\ j \notin activeJobs
      BY DEF CallMove, JoinsIn, Claims, Answers
    <3>2. Known(j) /\ j \notin activeJobs => j \in Unissued \/ task[j] \in Over
      BY <1>0 DEF Known, Shape
    <3>3. UnderWay(c)' => stored[j] # "absent" /\ stored'[j] # "absent"
      BY <1>0 DEF CallMove, JoinsIn, Claims, TargetMoves, Answers, CallShape, UnderWay, Shape, Unfinished, Over
    <3>4. (caller'[c] # "returned" => reply'[c] = "none")
      BY DEF CallMove, JoinsIn, Claims, Answers, CallShape
    <3> QED
      BY <2>1, <2>3, <3>1, <3>2, <3>3, <3>4 DEF CallShape
  <2> QED
    BY <2>2, <2>3
<1> QED
  BY <1>4, <1>5, <1>6

(* The queue, the shapes of the jobs and the bookkeeping are kept by every   *)
(* step, whatever fails.                                                    *)
THEOREM BaseKept == Spec => []BaseInv
<1>1. Init => QueueInv /\ (\A j \in Jobs : Shape(j)) /\ (\A c \in Callers : CallShape(c))
  <2> SUFFICES ASSUME Init
               PROVE  QueueInv /\ (\A j \in Jobs : Shape(j)) /\ (\A c \in Callers : CallShape(c))
    OBVIOUS
  <2>1. storeQueue = << >> /\ Len(storeQueue) = 0 /\ \A i : i \notin 1 .. 0
    BY DEF Init
  <2>2. QueueInv
    BY <2>1 DEF Init, QueueInv, Distinct, In, Out, Actors, InStore
  <2>3. (\A j \in Jobs : Shape(j)) /\ (\A c \in Callers : CallShape(c))
    BY ConstantsAssumption DEF Init, Shape, CallShape, UnderWay, Over
  <2> QED
    BY <2>2, <2>3
<1>2. BaseInv /\ ClaimInv' /\ [Next]_vars => BaseInv'
  <2> SUFFICES ASSUME BaseInv, ClaimInv', [Next]_vars
               PROVE  QueueInv' /\ (\A j \in Jobs : Shape(j)') /\ (\A c \in Callers : CallShape(c)')
    BY DEF BaseInv
  <2>0. TypeOK /\ ClaimInv /\ QueueInv /\ (\A j \in Jobs : Shape(j)) /\ (\A c \in Callers : CallShape(c))
    BY DEF BaseInv, ClaimInv
  <2>1. ASSUME NEW j \in Jobs, Submit(j) \/ TaskStep(j) \/ ProviderEnds(j) \/ JobTimesOut(j)
        PROVE  QueueInv' /\ (\A k \in Jobs : Shape(k)') /\ (\A c \in Callers : CallShape(c)')
    <3>1. Others(j) /\ TaskMove(j) /\ UNCHANGED callVars /\ j \in Actors
      BY <2>0, <2>1, TaskMoves DEF Actors
    <3>2. QueueInv'
      BY <2>0, <3>1, TaskQueues, QueueStep
    <3> QED
      BY <2>0, <3>1, <3>2, TaskShapes
  <2>2. ASSUME NEW c \in Callers, Cancel(c) \/ CallerStep(c)
        PROVE  QueueInv' /\ (\A k \in Jobs : Shape(k)') /\ (\A d \in Callers : CallShape(d)')
    <3>1. CallsApart(c) /\ CallMove(c) /\ c \in Actors
      BY <2>0, <2>2, CallMoves DEF Actors
    <3>2. QueueInv'
      BY <2>0, <3>1, CallQueues, QueueStep
    <3> QED
      BY <2>0, <3>1, <3>2, CallShapes
  <2>3. CASE UNCHANGED vars
    BY <2>0, <2>3 DEF vars, QueueInv, Out, Shape, CallShape, UnderWay
  <2> QED
    BY <2>1, <2>2, <2>3 DEF Next
<1>3. ClaimInv /\ QueueInv /\ (\A j \in Jobs : Shape(j)) /\ (\A c \in Callers : CallShape(c)) => BaseInv
  BY DEF BaseInv
<1> QED
  BY <1>1, <1>2, <1>3, ClaimsKept, PTL DEF Spec

-----------------------------------------------------------------------------
(* Slots.                                                                   *)
HoldersOf(st) == {j \in Jobs : st[j] \in HoldsSlot}
Holders == HoldersOf(task)

(* A slot is free or held by one job, and a provider runs only while its    *)
(* job holds one.                                                           *)
Counted == IsFiniteSet(Holders) /\ (SlotCap > 0 => freeSlots + Cardinality(Holders) = SlotCap)
Hosted(j) == provider[j] \in Calling => task[j] \in Awaiting
SlotInv == Counted /\ \A j \in Jobs : Hosted(j)

(* At most one waiter is woken.                                             *)
LEMMA WokenOne ==
  ASSUME slotWaiters \in Seq(Jobs), NEW st
  PROVE  FirstQueued(st) = {} \/ \E w \in Jobs : FirstQueued(st) = {w} /\ st[w] = "queued"
<1>1. DOMAIN slotWaiters = 1 .. Len(slotWaiters) /\ Len(slotWaiters) \in Nat
      /\ \A i \in DOMAIN slotWaiters : slotWaiters[i] \in Jobs
  BY ElementOfSeq, LenProperties
<1> DEFINE First(i) == /\ i \in DOMAIN slotWaiters /\ st[slotWaiters[i]] = "queued"
                       /\ \A m \in 1 .. i - 1 : st[slotWaiters[m]] # "queued"
<1>2. ASSUME NEW i, NEW k, First(i), First(k) PROVE i = k
  <2>1. i \in Nat /\ k \in Nat /\ i >= 1 /\ k >= 1
    BY <1>1, <1>2
  <2>2. ~(i < k) /\ ~(k < i)
    BY <1>2, <2>1
  <2> QED
    BY <2>1, <2>2
<1>3. FirstQueued(st) = {slotWaiters[i] : i \in {k \in DOMAIN slotWaiters : First(k)}}
  BY DEF FirstQueued
<1>4. CASE \E i : First(i)
  <2> PICK i : First(i)
    BY <1>4
  <2>1. FirstQueued(st) = {slotWaiters[i]}
    BY <1>2, <1>3
  <2> QED
    BY <1>1, <2>1
<1>5. CASE ~\E i : First(i)
  BY <1>3, <1>5
<1> QED
  BY <1>4, <1>5

LEMMA WakeCounts ==
  ASSUME slotWaiters \in Seq(Jobs), NEW st \in [Jobs -> TaskState], NEW n \in Nat \ {0},
         WakeNext(st, n), IsFiniteSet(HoldersOf(st))
  PROVE  IsFiniteSet(Holders') /\ freeSlots' + Cardinality(Holders') = n + Cardinality(HoldersOf(st))
<1>1. Cardinality(HoldersOf(st)) \in Nat
  BY FS_CardinalityType
<1>2. CASE FirstQueued(st) = {}
  <2>1. task' = st /\ freeSlots' = n
    BY <1>2 DEF WakeNext
  <2> QED
    BY <2>1 DEF Holders, HoldersOf
<1>3. ASSUME NEW w \in Jobs, FirstQueued(st) = {w}, st[w] = "queued"
      PROVE  IsFiniteSet(Holders') /\ freeSlots' + Cardinality(Holders') = n + Cardinality(HoldersOf(st))
  <2>1. task' = [st EXCEPT ![w] = "granted"] /\ freeSlots' = n - 1
    BY <1>3 DEF WakeNext
  <2>2. Holders' = HoldersOf(st) \cup {w} /\ w \notin HoldersOf(st)
    BY <1>3, <2>1 DEF Holders, HoldersOf, HoldsSlot, Awaiting
  <2>3. IsFiniteSet(Holders') /\ Cardinality(Holders') = Cardinality(HoldersOf(st)) + 1
    BY <2>2, FS_AddElement
  <2> QED
    BY <1>1, <2>1, <2>3
<1> QED
  BY <1>2, <1>3, WokenOne

(* A step of job j that keeps its slot, takes one, or gives its own up.     *)
LEMMA HoldersKept ==
  ASSUME TypeOK, SlotInv, NEW j \in Jobs, NEW s, s \in HoldsSlot <=> task[j] \in HoldsSlot
  PROVE  HoldersOf([task EXCEPT ![j] = s]) = Holders
BY DEF TypeOK, Holders, HoldersOf

LEMMA HoldersGrow ==
  ASSUME TypeOK, SlotInv, NEW j \in Jobs, task[j] \notin HoldsSlot, NEW s \in HoldsSlot
  PROVE  LET new == HoldersOf([task EXCEPT ![j] = s])
         IN  IsFiniteSet(new) /\ Cardinality(new) = Cardinality(Holders) + 1 /\ Cardinality(Holders) \in Nat
<1> DEFINE new == HoldersOf([task EXCEPT ![j] = s])
<1>1. new = Holders \cup {j} /\ j \notin Holders
  BY DEF TypeOK, Holders, HoldersOf
<1> HIDE DEF new
<1>2. IsFiniteSet(new) /\ Cardinality(new) = Cardinality(Holders) + 1 /\ Cardinality(Holders) \in Nat
  BY <1>1, FS_AddElement, FS_CardinalityType DEF SlotInv, Counted
<1> QED
  BY <1>2 DEF new

LEMMA HoldersShrink ==
  ASSUME TypeOK, SlotInv, NEW j \in Jobs, task[j] \in HoldsSlot, NEW s, s \notin HoldsSlot
  PROVE  LET new == HoldersOf([task EXCEPT ![j] = s])
         IN  IsFiniteSet(new) /\ Cardinality(new) + 1 = Cardinality(Holders) /\ Cardinality(new) \in Nat
<1> DEFINE new == HoldersOf([task EXCEPT ![j] = s])
<1>1. new = Holders \ {j} /\ j \in Holders
  BY DEF TypeOK, Holders, HoldersOf
<1> HIDE DEF new
<1>2. IsFiniteSet(new) /\ Cardinality(new) = Cardinality(Holders) - 1
  BY <1>1, FS_RemoveElement DEF SlotInv, Counted
<1>3. Cardinality(new) \in Nat /\ Cardinality(Holders) \in Nat
  BY <1>2, FS_CardinalityType DEF SlotInv, Counted
<1>4. IsFiniteSet(new) /\ Cardinality(new) + 1 = Cardinality(Holders) /\ Cardinality(new) \in Nat
  BY <1>2, <1>3
<1> QED
  BY <1>4 DEF new

(* The slot of a job that leaves its run phase is freed or handed on.       *)
LEMMA ReleaseCounts ==
  ASSUME TypeOK, SlotInv, NEW j \in Jobs, task[j] \in HoldsSlot, NEW s \in TaskState \ HoldsSlot,
         ReleaseSlot([task EXCEPT ![j] = s])
  PROVE  Counted'
<1> DEFINE st == [task EXCEPT ![j] = s]
<1>1. IsFiniteSet(HoldersOf(st)) /\ Cardinality(HoldersOf(st)) + 1 = Cardinality(Holders)
      /\ Cardinality(HoldersOf(st)) \in Nat
  BY HoldersShrink
<1>2. st \in [Jobs -> TaskState] /\ slotWaiters \in Seq(Jobs) /\ freeSlots + 1 \in Nat \ {0} /\ freeSlots \in Nat
  BY DEF TypeOK
<1> HIDE DEF st
<1>3. CASE SlotCap > 0
  <2>1. WakeNext(st, freeSlots + 1)
    BY <1>3 DEF ReleaseSlot, st
  <2>2. IsFiniteSet(Holders') /\ freeSlots' + Cardinality(Holders') = freeSlots + 1 + Cardinality(HoldersOf(st))
    BY <1>1, <1>2, <2>1, WakeCounts
  <2> QED
    BY <1>1, <1>2, <1>3, <2>2 DEF Counted, SlotInv
<1>4. CASE ~(SlotCap > 0)
  <2>1. task' = st
    BY <1>4 DEF ReleaseSlot, st
  <2> QED
    BY <1>1, <1>4, <2>1 DEF Counted, Holders, HoldersOf
<1> QED
  BY <1>3, <1>4

LEMMA SameCounts ==
  ASSUME SlotInv, Holders' = Holders, UNCHANGED freeSlots
  PROVE  Counted'
BY DEF Counted, SlotInv

LEMMA CancelCounts ==
  ASSUME TypeOK, SlotInv, NEW j \in Jobs, CancelTarget(j), UNCHANGED freeSlots
  PROVE  Counted'
<1>1. AfterCancel(task[j]) \in HoldsSlot <=> task[j] \in HoldsSlot
  BY DEF AfterCancel, HoldsSlot, Awaiting
<1>2. task' = task \/ task' = [task EXCEPT ![j] = AfterCancel(task[j])]
  BY DEF CancelTarget
<1>3. Holders' = Holders
  BY <1>1, <1>2 DEF TypeOK, Holders, HoldersOf
<1> QED
  BY <1>3, SameCounts

LEMMA SlotsCounted ==
  ASSUME TypeOK, \A j \in Jobs : Shape(j), SlotInv, [Next]_vars
  PROVE  Counted'
<1>0. /\ slotWaiters \in Seq(Jobs) /\ freeSlots \in Nat /\ SlotCap \in Nat
      /\ \A c \in Callers : About[c] \in Jobs
      /\ {"ended", "failing"} \subseteq TaskState \ HoldsSlot
      /\ Cardinality(Holders) \in Nat /\ IsFiniteSet(Holders)
  BY ConstantsAssumption, FS_CardinalityType DEF TypeOK, SlotInv, Counted, TaskState, HoldsSlot, Awaiting, InStore
<1>1. ASSUME NEW j \in Jobs, NEW s, s \in HoldsSlot <=> task[j] \in HoldsSlot,
             task' = [task EXCEPT ![j] = s], UNCHANGED freeSlots
      PROVE  Counted'
  <2>1. Holders' = Holders
    BY <1>1, HoldersKept DEF Holders
  <2> QED
    BY <1>1, <2>1, SameCounts
<1>2. ASSUME NEW j \in Jobs, Begin(j)
      PROVE  Counted'
  <2>1. task[j] = "scheduled"
    BY <1>2 DEF Begin
  <2>2. CASE SlotCap > 0 /\ Locked
    BY <1>1, <1>2, <2>1, <2>2 DEF Begin, HoldsSlot, Awaiting
  <2>3. CASE ~(SlotCap > 0 /\ Locked)
    <3> DEFINE st == [task EXCEPT ![j] = "marking"]
    <3>1. /\ task' = st /\ freeSlots' = IF SlotCap > 0 THEN freeSlots - 1 ELSE freeSlots
      BY <1>2, <2>3 DEF Begin
    <3>2. IsFiniteSet(HoldersOf(st)) /\ Cardinality(HoldersOf(st)) = Cardinality(Holders) + 1
      BY <2>1, HoldersGrow DEF HoldsSlot, Awaiting
    <3>3. Holders' = HoldersOf(st)
      BY <3>1 DEF Holders, HoldersOf
    <3> QED
      BY <1>0, <3>1, <3>2, <3>3 DEF Counted, SlotInv
  <2> QED
    BY <2>2, <2>3
<1>3. ASSUME NEW j \in Jobs, TakeSlot(j)
      PROVE  Counted'
  <2> DEFINE st == [task EXCEPT ![j] = "marking"]
  <2>1. task[j] = "granted" /\ HoldersOf(st) = Holders /\ st \in [Jobs -> TaskState]
    BY <1>3, HoldersKept DEF TakeSlot, HoldsSlot, Awaiting, TypeOK, TaskState
  <2>2. CASE freeSlots > 0
    <3>1. WakeNext(st, freeSlots) /\ freeSlots \in Nat \ {0}
      BY <1>0, <1>3, <2>2 DEF TakeSlot
    <3>2. IsFiniteSet(Holders') /\ freeSlots' + Cardinality(Holders') = freeSlots + Cardinality(Holders)
      BY <1>0, <2>1, <3>1, WakeCounts
    <3> QED
      BY <1>0, <3>2 DEF Counted, SlotInv
  <2>3. CASE ~(freeSlots > 0)
    BY <1>1, <1>3, <2>1, <2>3 DEF TakeSlot, HoldsSlot, Awaiting
  <2> QED
    BY <2>2, <2>3
<1>4. ASSUME NEW j \in Jobs, LeaveSlotWait(j)
      PROVE  Counted'
  <2> DEFINE st == [task EXCEPT ![j] = "ended"]
  <2>1. CASE GivesBack(j)
    <3>1. WakeNext(st, freeSlots + 1) /\ freeSlots + 1 \in Nat \ {0} /\ st \in [Jobs -> TaskState]
      BY <1>0, <1>4, <2>1 DEF LeaveSlotWait, TypeOK
    <3>2. /\ IsFiniteSet(HoldersOf(st)) /\ Cardinality(HoldersOf(st)) + 1 = Cardinality(Holders)
          /\ Cardinality(HoldersOf(st)) \in Nat
      BY <1>0, <2>1, HoldersShrink DEF GivesBack, HoldsSlot, Awaiting
    <3>3. IsFiniteSet(Holders') /\ freeSlots' + Cardinality(Holders') = freeSlots + 1 + Cardinality(HoldersOf(st))
      BY <1>0, <3>1, <3>2, WakeCounts
    <3> QED
      BY <1>0, <3>2, <3>3 DEF Counted, SlotInv
  <2>2. CASE ~GivesBack(j)
    BY <1>1, <1>4, <2>2 DEF LeaveSlotWait, GivesBack, HoldsSlot, Awaiting
  <2> QED
    BY <2>1, <2>2
<1>5. ASSUME NEW j \in Jobs, Marked(j) \/ ProviderReturns(j)
      PROVE  Counted'
  <2>1. task[j] \in {"marking"} \cup Awaiting
    BY <1>5 DEF Marked, ProviderReturns, Awaiting
  <2>2. \/ ReleaseSlot([task EXCEPT ![j] = "ended"])
        \/ /\ \E s \in {"providing", "recording"} : task' = [task EXCEPT ![j] = s]
           /\ UNCHANGED freeSlots
    BY <1>5 DEF Marked, ProviderReturns, Awaiting
  <2>3. {"marking", "providing", "recording"} \cup Awaiting \subseteq HoldsSlot
    BY DEF HoldsSlot, Awaiting
  <2> QED
    BY <1>0, <1>1, <2>1, <2>2, <2>3, ReleaseCounts
<1>6. ASSUME NEW j \in Jobs, Recorded(j) \/ WriteRaises(j)
      PROVE  Counted'
  <2>1. task[j] \in HoldsSlot
    BY <1>6 DEF Recorded, WriteRaises, HoldsSlot, Awaiting
  <2>2. \E s \in {"ended", "failing"} : ReleaseSlot([task EXCEPT ![j] = s])
    BY <1>6 DEF Recorded, WriteRaises
  <2> QED
    BY <1>0, <2>1, <2>2, ReleaseCounts
<1>7. ASSUME NEW j \in Jobs, Submit(j) \/ FailureRecorded(j) \/ FailureLost(j) \/ JobTimesOut(j) \/ ProviderEnds(j)
      PROVE  Counted'
  <2>1. CASE ProviderEnds(j)
    <3>1. Holders' = Holders /\ freeSlots' = freeSlots
      BY <2>1 DEF ProviderEnds, Holders, HoldersOf, slotVars
    <3> QED
      BY <3>1, SameCounts
  <2>2. CASE Submit(j)
    <3>1. task[j] = "none"
      BY <2>2 DEF Submit, Shape
    <3> QED
      BY <1>1, <2>2, <3>1 DEF Submit, slotVars, HoldsSlot, Awaiting
  <2>3. CASE FailureRecorded(j) \/ FailureLost(j)
    BY <1>1, <2>3 DEF FailureRecorded, FailureLost, slotVars, HoldsSlot, Awaiting
  <2>4. CASE JobTimesOut(j)
    BY <1>1, <2>4 DEF JobTimesOut, slotVars, HoldsSlot, Awaiting
  <2> QED
    BY <1>7, <2>1, <2>2, <2>3, <2>4
<1>8. ASSUME NEW c \in Callers, Cancel(c) \/ LookedUp(c)
      PROVE  Counted'
  <2>1. freeSlots' = freeSlots /\ (CancelTarget(About[c]) \/ task' = task)
    BY <1>8 DEF Cancel, LookedUp, Claim, slotVars
  <2>2. CASE task' = task
    BY <2>1, <2>2, SameCounts DEF Holders, HoldersOf
  <2> QED
    BY <1>0, <2>1, <2>2, CancelCounts
<1>9. ASSUME NEW c \in Callers, LookUpRaises(c) \/ GraceEnds(c) \/ CancelRecorded(c)
                               \/ CancelWriteRaises(c) \/ JoinReturns(c)
      PROVE  Counted'
  <2>1. freeSlots' = freeSlots /\ task' = task
    BY <1>9 DEF LookUpRaises, GraceEnds, CancelRecorded, CancelWriteRaises, JoinReturns, slotVars, taskVars
  <2> QED
    BY <2>1, SameCounts DEF Holders, HoldersOf
<1>10. CASE UNCHANGED vars
  BY <1>10, SameCounts DEF vars, Holders, HoldersOf
<1> QED
  BY <1>2, <1>3, <1>4, <1>5, <1>6, <1>7, <1>8, <1>9, <1>10 DEF Next, TaskStep, CallerStep

LEMMA TaskHosts ==
  ASSUME \A k \in Jobs : Hosted(k), NEW j \in Jobs, Others(j), TaskMove(j), Shape(j), TypeOK
  PROVE  \A k \in Jobs : Hosted(k)'
<1>1. Hosted(j)'
  BY DEF TaskMove, Awaiting, Hosted, Calling, Shape, Escapes
<1>2. \A k \in Jobs \ {j} : Hosted(k)'
  BY DEF Others, Hosted, Awaiting
<1> QED
  BY <1>1, <1>2

LEMMA CallHosts ==
  ASSUME \A k \in Jobs : Hosted(k), NEW c \in Callers, CallsApart(c), CallMove(c)
  PROVE  \A k \in Jobs : Hosted(k)'
<1>1. Hosted(About[c])'
  BY ConstantsAssumption
  DEF CallMove, Claims, JoinsIn, Answers, TargetMoves, TargetStays, AfterCancel, Hosted, Awaiting, Calling
<1>2. \A k \in Jobs \ {About[c]} : Hosted(k)'
  BY DEF CallsApart, TargetStays, Hosted, Awaiting
<1> QED
  BY <1>1, <1>2

(* The counting invariant, with the providers' place in their run phases.   *)
THEOREM SlotInvKept == Spec => []SlotInv
<1>1. Init => SlotInv
  <2> SUFFICES ASSUME Init PROVE SlotInv
    OBVIOUS
  <2>1. Holders = {}
    BY DEF Init, Holders, HoldersOf, HoldsSlot, Awaiting
  <2>2. Counted
    BY <2>1, ConstantsAssumption, FS_EmptySet DEF Init, Counted
  <2>3. \A j \in Jobs : Hosted(j)
    BY DEF Init, Hosted, Awaiting, Calling
  <2> QED
    BY <2>2, <2>3 DEF SlotInv
<1>2. BaseInv /\ SlotInv /\ [Next]_vars => SlotInv'
  <2> SUFFICES ASSUME BaseInv, SlotInv, [Next]_vars PROVE SlotInv'
    OBVIOUS
  <2>0. TypeOK /\ (\A j \in Jobs : Shape(j)) /\ (\A j \in Jobs : Hosted(j))
    BY DEF BaseInv, ClaimInv, SlotInv
  <2>1. Counted'
    BY <2>0, SlotsCounted
  <2>2. ASSUME NEW j \in Jobs, Submit(j) \/ TaskStep(j) \/ ProviderEnds(j) \/ JobTimesOut(j)
        PROVE  \A k \in Jobs : Hosted(k)'
    BY <2>0, <2>2, TaskMoves, TaskHosts
  <2>3. ASSUME NEW c \in Callers, Cancel(c) \/ CallerStep(c)
        PROVE  \A k \in Jobs : Hosted(k)'
    BY <2>0, <2>3, CallMoves, CallHosts
  <2>4. ASSUME UNCHANGED vars PROVE \A k \in Jobs : Hosted(k)'
    BY <2>0, <2>4 DEF vars, Hosted, Awaiting
  <2>5. \A k \in Jobs : Hosted(k)'
    BY <2>2, <2>3, <2>4 DEF Next
  <2> QED
    BY <2>1, <2>5 DEF SlotInv
<1> QED
  BY <1>1, <1>2, BaseKept, PTL DEF Spec

(* Slots are conserved and bound the providers that run, whatever the      *)
(* store, the providers and the callers do (SlotsConserved).                *)
THEOREM SlotsKept == Spec => []SlotsConserved
<1>1. SlotInv /\ TypeOK => SlotsConserved
  <2> SUFFICES ASSUME SlotInv, TypeOK, SlotCap > 0 PROVE
         /\ freeSlots + Cardinality({j \in Jobs : task[j] \in HoldsSlot}) = SlotCap
         /\ Cardinality({j \in Jobs : provider[j] \in Calling}) <= SlotCap
    BY DEF SlotsConserved
  <2>1. IsFiniteSet(Holders) /\ freeSlots + Cardinality(Holders) = SlotCap /\ Cardinality(Holders) \in Nat
    BY FS_CardinalityType DEF SlotInv, Counted
  <2>2. Holders = {j \in Jobs : task[j] \in HoldsSlot}
    BY DEF Holders, HoldersOf
  <2> DEFINE running == {j \in Jobs : provider[j] \in Calling}
  <2>3. running \subseteq Holders
    BY DEF SlotInv, Hosted, Holders, HoldersOf, HoldsSlot, Awaiting
  <2> HIDE DEF running
  <2>4. Cardinality(running) <= Cardinality(Holders) /\ Cardinality(running) \in Nat
    BY <2>1, <2>3, FS_Subset, FS_CardinalityType
  <2>5. freeSlots \in Nat /\ SlotCap \in Nat
    BY ConstantsAssumption DEF TypeOK
  <2>6. Cardinality(running) <= SlotCap
    BY <2>1, <2>4, <2>5
  <2> QED
    BY <2>1, <2>2, <2>6 DEF running
<1> QED
  BY <1>1, SlotInvKept, TypeCorrect, PTL

-----------------------------------------------------------------------------
(* Steps under BaseInv: what they do, and what they do to the queue's order.*)
Forward(a) == \A x, y : x # a /\ Ahead(storeQueue, x, y) => Ahead(storeQueue', x, y)

LEMMA TaskFacts ==
  ASSUME BaseInv, NEW j \in Jobs, Submit(j) \/ TaskStep(j) \/ ProviderEnds(j) \/ JobTimesOut(j)
  PROVE  Others(j) /\ TaskMove(j) /\ UNCHANGED callVars /\ Forward(j)
<1>1. TypeOK /\ QueueInv /\ Shape(j) /\ j \in Actors
  BY DEF BaseInv, ClaimInv, Actors
<1>2. Others(j) /\ TaskMove(j) /\ UNCHANGED callVars
  BY <1>1, TaskMoves
<1> QED
  BY <1>1, <1>2, TaskQueues, QueueStep DEF Forward

LEMMA CallFacts ==
  ASSUME BaseInv, NEW c \in Callers, Cancel(c) \/ CallerStep(c)
  PROVE  /\ CallsApart(c) /\ CallMove(c) /\ Forward(c)
         /\ caller'[c] = "writing" /\ caller[c] # "writing" => \A x : x # c => Ahead(storeQueue', x, c)
         /\ caller[c] = "writing" => \A j \in Jobs : Out(j) => ~Ahead(storeQueue, j, c)
<1>1. TypeOK /\ QueueInv /\ c \in Actors /\ c \notin Jobs /\ Jobs \subseteq Actors
  BY ConstantsAssumption DEF BaseInv, ClaimInv, Actors
<1>2. CallsApart(c) /\ CallMove(c)
  BY <1>1, CallMoves
<1>3. /\ Stays(c) \/ Joins(c) \/ Leaves(c) \/ Rejoins(c)
      /\ \A b \in Actors \ {c} : Out(b)' <=> Out(b)
  BY <1>1, <1>2, CallQueues
<1>4. /\ Forward(c)
      /\ Joins(c) \/ Rejoins(c) => \A x : x # c => Ahead(storeQueue', x, c)
      /\ Leaves(c) \/ Rejoins(c) => \A x \in Actors : Out(x) => ~Ahead(storeQueue, x, c)
  BY <1>1, <1>3, QueueStep DEF Forward
<1>5. Out(c) <=> caller[c] \in {"getting", "writing"}
  BY <1>1 DEF Out
<1>6. Out(c)' <=> caller'[c] \in {"getting", "writing"}
  BY <1>1 DEF Out
<1>7. caller'[c] = "writing" /\ caller[c] # "writing" => Joins(c) \/ Rejoins(c)
  BY <1>2, <1>5, <1>6 DEF CallMove, JoinsIn, Answers, Joins, Rejoins
<1>8. caller[c] = "writing" => Leaves(c)
  BY <1>2, <1>6 DEF CallMove, Answers, CallReturns, Leaves
<1> QED
  BY <1>1, <1>2, <1>4, <1>7, <1>8

(* Who holds the entry of a job in _cancelling.                             *)
LEMMA Claimant ==
  ASSUME ClaimInv, NEW j \in Jobs, BeingCancelled(j)
  PROVE  /\ cancelling[j] \in Callers /\ About[cancelling[j]] = j
         /\ \/ UnderWay(cancelling[j]) /\ future[cancelling[j]] = "pending"
            \/ future[cancelling[j]] = "result" /\ j \in activeJobs
BY DEF ClaimInv, TypeOK, BeingCancelled, EntriesHaveOwners, OwnersHoldEntries

LEMMA Claimed ==
  ASSUME ClaimInv, NEW c \in Callers, UnderWay(c)
  PROVE  BeingCancelled(About[c]) /\ cancelling[About[c]] = c /\ future[c] = "pending"
BY ConstantsAssumption DEF ClaimInv, OwnersHoldEntries, BeingCancelled

-----------------------------------------------------------------------------
(* Calls that find the job before its provider starts, when no cancel()    *)
(* arrives before the task's first step (~EarlyCancel).                     *)
(* Nobody has called cancel() for the job.                                  *)
Calm(j) == \A c \in Callers : About[c] = j => caller[c] = "idle"

(* Calls are under way, none has looked the job up or returned, and whoever *)
(* writes the cancelled record does so after the task's own write.          *)
Before(j) ==
  \A c \in Callers : About[c] = j =>
    /\ caller[c] \in {"idle", "grace", "writing", "joining"}
    /\ caller[c] = "joining" => UnderWay(joined[c])
    /\ caller[c] = "writing" => Ahead(storeQueue, j, c)

Prompt(j) ==
  /\ task[j] \in {"none", "scheduled", "queued", "granted"} /\ j \notin Unissued => Calm(j)
  /\ task[j] \in {"scheduled", "queued", "granted", "marking"} => stored[j] = "pending"
  /\ task[j] = "marking" => Before(j)
  /\ faults = 0 /\ task[j] = "recording" => Before(j) /\ stored[j] = "processing"
  /\ faults = 0 /\ task[j] \in Awaiting /\ ~BeingCancelled(j) =>
       Calm(j) /\ stored[j] = "processing"

CancelledStays ==
  faults = 0 => \A c \in Callers :
    future[c] = "result" \/ reply[c] = "cancelled" => stored[About[c]] = "cancelled"

PromptInv == BaseInv /\ (\A j \in Jobs : Prompt(j)) /\ CancelledStays

LEMMA CalmIsUnclaimed ==
  ASSUME ClaimInv, NEW j \in Jobs, Calm(j)
  PROVE  ~BeingCancelled(j)
<1> SUFFICES ASSUME BeingCancelled(j) PROVE FALSE
  OBVIOUS
<1> DEFINE d == cancelling[j]
<1>1. d \in Callers /\ About[d] = j /\ (UnderWay(d) \/ future[d] = "result")
  BY Claimant
<1>2. caller[d] = "idle"
  BY <1>1 DEF Calm
<1> QED
  BY <1>1, <1>2 DEF UnderWay, ClaimInv, NotYetOwners

LEMMA BeforeIsUnderWay ==
  ASSUME ClaimInv, NEW j \in Jobs, Before(j), BeingCancelled(j)
  PROVE  UnderWay(cancelling[j]) /\ future[cancelling[j]] = "pending"
<1> DEFINE d == cancelling[j]
<1>1. /\ d \in Callers /\ About[d] = j
      /\ (UnderWay(d) /\ future[d] = "pending") \/ future[d] = "result"
  BY Claimant
<1>2. caller[d] \in {"idle", "grace", "writing", "joining"}
  BY <1>1 DEF Before
<1> QED
  BY <1>1, <1>2 DEF UnderWay, ClaimInv, NotYetOwners, OwnersHoldEntries

LEMMA BeforeIsCalm ==
  ASSUME ClaimInv, NEW j \in Jobs, Before(j), ~BeingCancelled(j)
  PROVE  Calm(j)
<1> SUFFICES ASSUME NEW c \in Callers, About[c] = j PROVE caller[c] = "idle"
  BY DEF Calm
<1>1. ~UnderWay(c)
  BY Claimed
<1>2. caller[c] # "joining"
  <2> SUFFICES ASSUME caller[c] = "joining" PROVE FALSE
    OBVIOUS
  <2>1. joined[c] \in Callers /\ About[joined[c]] = j /\ UnderWay(joined[c])
    BY DEF ClaimInv, WaitersHaveOwners, Before
  <2> QED
    BY <2>1, Claimed
<1> QED
  BY <1>1, <1>2 DEF Before, UnderWay

LEMMA CalmIsBefore ==
  ASSUME NEW j, Calm(j)
  PROVE  Before(j)
BY DEF Calm, Before

(* A step of one task keeps them.                                           *)
LEMMA TaskKeepsCalls ==
  ASSUME NEW j \in Jobs, NEW k \in Jobs, Forward(j), UNCHANGED callVars
  PROVE  /\ Calm(k) => Calm(k)'
         /\ (k # j \/ storeQueue' = storeQueue) /\ Before(k) => Before(k)'
         /\ Calm(k) => Before(k)'
BY DEF Calm, Before, Forward, UnderWay, callVars

LEMMA TaskKeepsPrompt ==
  ASSUME PromptInv, NEW j \in Jobs, Others(j), TaskMove(j), UNCHANGED callVars, Forward(j)
  PROVE  (\A k \in Jobs : Prompt(k)') /\ CancelledStays'
<1>0. /\ ClaimInv /\ (\A k \in Jobs : Shape(k)) /\ (\A k \in Jobs : Prompt(k)) /\ CancelledStays
      /\ faults \in Nat /\ faults' \in Nat /\ (faults' = 0 => faults = 0)
  BY ConstantsAssumption DEF PromptInv, BaseInv, ClaimInv, TypeOK, TaskMove, Awaiting
<1>1. ASSUME NEW k \in Jobs \ {j}
      PROVE  Prompt(k)'
  <2>1. /\ task'[k] = task[k] \/ (task[k] = "queued" /\ task'[k] = "granted")
        /\ stored'[k] = stored[k] /\ cancelling'[k] = cancelling[k]
    BY DEF Others
  <2>2. (Calm(k) => Calm(k)') /\ (Before(k) => Before(k)')
    BY TaskKeepsCalls
  <2>3. BeingCancelled(k)' <=> BeingCancelled(k)
    BY <2>1 DEF BeingCancelled
  <2>4. Prompt(k)
    BY <1>0
  <2> QED
    BY <1>0, <2>1, <2>2, <2>3, <2>4 DEF Prompt, Awaiting
<1>2. /\ Calm(j) => Calm(j)' /\ Before(j)'
      /\ storeQueue' = storeQueue /\ Before(j) => Before(j)'
  BY TaskKeepsCalls
<1>3. Prompt(j) /\ Shape(j)
  BY <1>0
<1>4. task[j] = "marking" /\ ~BeingCancelled(j) => Calm(j)
  BY <1>0, <1>3, BeforeIsCalm DEF Prompt, Awaiting
<1>5. RunGoesOn(j) => (BeingCancelled(j)' <=> BeingCancelled(j))
  BY DEF RunGoesOn, BeingCancelled
<1>6. Prompt(j)'
  <2>1. task'[j] \in {"none", "scheduled", "queued", "granted"} /\ j \notin Unissued => Calm(j)'
    BY <1>2, <1>3 DEF TaskMove, Awaiting, Prompt, Shape
  <2>2. task'[j] \in {"scheduled", "queued", "granted", "marking"} => stored'[j] = "pending"
    BY <1>3 DEF TaskMove, Awaiting, Prompt, Shape
  <2>3. task'[j] = "marking" => Before(j)'
    <3>1. task'[j] = "marking" =>
            task[j] \in {"scheduled", "granted"} \/ (task[j] = "marking" /\ storeQueue' = storeQueue)
      BY <1>0 DEF TaskMove, Awaiting
    <3> QED
      BY <1>2, <1>3, <3>1 DEF Prompt, Awaiting, Shape
  <2>4. faults' = 0 /\ task'[j] = "recording" => Before(j)' /\ stored'[j] = "processing"
    BY <1>0, <1>2, <1>3 DEF TaskMove, Awaiting, Prompt
  <2>5. faults' = 0 /\ task'[j] \in Awaiting /\ ~BeingCancelled(j)' =>
          Calm(j)' /\ stored'[j] = "processing"
    BY <1>0, <1>2, <1>3, <1>4, <1>5 DEF TaskMove, Awaiting, Prompt
  <2> QED
    BY <2>1, <2>2, <2>3, <2>4, <2>5 DEF Prompt, Awaiting
<1>7. ASSUME faults' = 0, NEW c \in Callers, future'[c] = "result" \/ reply'[c] = "cancelled"
      PROVE  stored'[About[c]] = "cancelled"
  <2>1. stored[About[c]] = "cancelled" /\ faults = 0 /\ About[c] \in Jobs
    BY <1>0, <1>7, ConstantsAssumption DEF callVars, CancelledStays
  <2>2. CASE About[c] # j
    BY <2>1, <2>2 DEF Others
  <2>3. CASE About[c] = j
    BY <1>0, <1>3, <1>7, <2>1, <2>3 DEF TaskMove, Awaiting, Prompt, Shape
  <2> QED
    BY <2>2, <2>3
<1>8. CancelledStays'
  BY <1>7 DEF CancelledStays
<1> QED
  BY <1>1, <1>6, <1>8

(* Calls about one job leave the calls about another alone.                 *)
LEMMA CallKeepsOthers ==
  ASSUME ClaimInv, NEW c \in Callers, CallsApart(c), Forward(c), NEW k \in Jobs, k # About[c]
  PROVE  (Calm(k) => Calm(k)') /\ (Before(k) => Before(k)')
<1>1. \A d \in Callers : About[d] = k =>
        d # c /\ caller'[d] = caller[d] /\ joined'[d] = joined[d]
  BY DEF CallsApart
<1>2. ASSUME NEW d \in Callers, About[d] = k, caller[d] = "joining", UnderWay(joined[d])
      PROVE  UnderWay(joined[d])'
  <2>1. joined[d] \in Callers /\ About[joined[d]] = k
    BY <1>2 DEF ClaimInv, WaitersHaveOwners
  <2>2. caller'[joined[d]] = caller[joined[d]] /\ joined'[d] = joined[d]
    BY <1>1, <1>2, <2>1
  <2> QED
    BY <1>2, <2>2 DEF UnderWay
<1>3. Calm(k) => Calm(k)'
  BY <1>1 DEF Calm
<1>4. k # c
  BY ConstantsAssumption
<1>5. ASSUME Before(k) PROVE Before(k)'
  BY <1>1, <1>2, <1>4, <1>5 DEF Before, Forward
<1> QED
  BY <1>3, <1>5

(* While the task's write is out no call about the job gets ahead of it.    *)
LEMMA CallKeepsBefore ==
  ASSUME BaseInv, NEW c \in Callers, Cancel(c) \/ CallerStep(c), Before(About[c]),
         task[About[c]] \in {"marking", "recording"}
  PROVE  Before(About[c])' /\ stored'[About[c]] = stored[About[c]]
<1> DEFINE j == About[c]
<1>0. /\ j \in Jobs /\ ClaimInv /\ Shape(j) /\ j \in activeJobs /\ Out(j) /\ c # j /\ c \notin Jobs
  BY ConstantsAssumption DEF BaseInv, Shape, Over, Out, InStore
<1>1. /\ CallsApart(c) /\ CallMove(c) /\ Forward(c)
      /\ caller'[c] = "writing" /\ caller[c] # "writing" => \A x : x # c => Ahead(storeQueue', x, c)
      /\ caller[c] = "writing" => \A k \in Jobs : Out(k) => ~Ahead(storeQueue, k, c)
  BY CallFacts
<1>2. caller[c] # "writing" /\ caller[c] \in {"idle", "grace", "joining"}
  BY <1>0, <1>1 DEF Before
<1>3. stored'[j] = stored[j]
  BY <1>1, <1>2 DEF CallMove, JoinsIn, Claims, TargetMoves
<1>4. caller[c] # "joining"
  <2> SUFFICES ASSUME caller[c] = "joining" PROVE FALSE
    OBVIOUS
  <2>1. joined[c] \in Callers /\ UnderWay(joined[c])
    BY <1>0 DEF ClaimInv, WaitersHaveOwners, Before
  <2>2. Settled(future[joined[c]])
    BY <1>1 DEF CallMove
  <2> QED
    BY <1>0, <2>1, <2>2, Claimed DEF Settled
<1>5. \/ caller'[c] \in {"grace", "writing"} /\ \A d \in Callers \ {c} : joined'[d] = joined[d]
      \/ caller[c] = "idle" /\ caller'[c] = "joining" /\ BeingCancelled(j) /\ joined'[c] = cancelling[j]
  BY <1>0, <1>1, <1>2, <1>4 DEF CallMove, JoinsIn, Claims, CallsApart
<1>6. ASSUME NEW d \in Callers, UnderWay(d) PROVE UnderWay(d)'
  BY <1>1, <1>5, <1>6 DEF CallsApart, UnderWay
<1>7. ASSUME NEW d \in Callers \ {c}, About[d] = j
      PROVE  /\ caller'[d] \in {"idle", "grace", "writing", "joining"}
             /\ caller'[d] = "joining" => UnderWay(joined[d])' /\ joined'[d] = joined[d]
             /\ caller'[d] = "writing" => Ahead(storeQueue', j, d)
  <2>1. caller'[d] = caller[d] /\ joined'[d] = joined[d]
    BY <1>1 DEF CallsApart
  <2>2. /\ caller[d] \in {"idle", "grace", "writing", "joining"}
        /\ caller[d] = "joining" => UnderWay(joined[d]) /\ joined[d] \in Callers
        /\ caller[d] = "writing" => Ahead(storeQueue, j, d)
    BY <1>0, <1>7 DEF Before, ClaimInv, WaitersHaveOwners
  <2>3. caller[d] = "joining" => UnderWay(joined[d])'
    BY <1>6, <2>1, <2>2 DEF UnderWay
  <2> QED
    BY <1>0, <1>1, <2>1, <2>2, <2>3 DEF Forward
<1>8. /\ caller'[c] \in {"idle", "grace", "writing", "joining"}
      /\ caller'[c] = "joining" => UnderWay(joined[c])'
      /\ caller'[c] = "writing" => Ahead(storeQueue', j, c)
  <2>1. CASE caller'[c] \in {"grace", "writing"}
    BY <1>0, <1>1, <1>2, <2>1
  <2>2. CASE caller[c] = "idle" /\ caller'[c] = "joining" /\ BeingCancelled(j) /\ joined'[c] = cancelling[j]
    <3>1. UnderWay(cancelling[j]) /\ cancelling[j] \in Callers
      BY <1>0, <2>2, BeforeIsUnderWay, Claimant
    <3>2. caller'[cancelling[j]] \in {"grace", "writing"}
      BY <1>1, <2>2, <3>1 DEF CallsApart, UnderWay
    <3> QED
      BY <2>2, <3>2 DEF UnderWay
  <2> QED
    BY <1>5, <2>1, <2>2
<1>9. Before(j)'
  BY <1>7, <1>8 DEF Before
<1> QED
  BY <1>3, <1>9

(* Nor does a call get at a job between its registration and its task's     *)
(* first step, or claim one whose provider runs without the claim showing.  *)
LEMMA CalmStays ==
  ASSUME BaseInv, ~EarlyCancel, NEW c \in Callers, Cancel(c) \/ CallerStep(c), Calm(About[c])
  PROVE  LET j == About[c] IN
         /\ task[j] \notin {"none", "scheduled"} \/ j \in Unissued
         /\ task[j] \in {"queued", "granted"} => task'[j] \in {"dropped", "returning"}
         /\ j \in activeJobs => BeingCancelled(j)'
<1> DEFINE j == About[c]
<1>0. j \in Jobs /\ Shape(j) /\ caller[c] = "idle" /\ ClaimInv
  BY ConstantsAssumption DEF BaseInv, Calm
<1>1. CallMove(c)
  BY CallFacts
<1>2. Known(j) /\ ~BeingCancelled(j)
  BY <1>0, <1>1, CalmIsUnclaimed DEF CallMove
<1>3. task[j] \notin {"none", "scheduled"} \/ j \in Unissued
  BY <1>0, <1>2 DEF Known, Shape
<1>4. j \in activeJobs => Claims(c)
  BY <1>0, <1>1, <1>2 DEF CallMove, JoinsIn
<1>5. task[j] \in {"queued", "granted"} => task'[j] \in {"dropped", "returning"}
  BY <1>0, <1>4 DEF Shape, Over, Claims, TargetMoves, AfterCancel
<1>6. j \in activeJobs => BeingCancelled(j)'
  BY <1>0, <1>4, ConstantsAssumption DEF Claims, BeingCancelled
<1> QED
  BY <1>3, <1>5, <1>6

(* While the store answers, a claim on a job in its run phase stays.        *)
LEMMA ClaimStays ==
  ASSUME BaseInv, NEW c \in Callers, Cancel(c) \/ CallerStep(c), faults' = 0,
         BeingCancelled(About[c]), About[c] \in activeJobs
  PROVE  BeingCancelled(About[c])'
<1>1. CallMove(c) /\ faults \in Nat
  BY CallFacts DEF BaseInv, ClaimInv, TypeOK
<1> QED
  BY <1>1 DEF CallMove, JoinsIn, Claims, BeingCancelled

LEMMA CallKeepsPrompt ==
  ASSUME PromptInv, ~EarlyCancel, NEW c \in Callers, Cancel(c) \/ CallerStep(c)
  PROVE  (\A k \in Jobs : Prompt(k)') /\ CancelledStays'
<1> DEFINE j == About[c]
<1>0. /\ j \in Jobs /\ BaseInv /\ ClaimInv /\ Shape(j) /\ Prompt(j) /\ CancelledStays
      /\ \A k \in Jobs : Prompt(k)
  BY ConstantsAssumption DEF PromptInv, BaseInv
<1>1. CallsApart(c) /\ CallMove(c) /\ Forward(c)
  BY <1>0, CallFacts
<1>2. faults \in Nat /\ faults' \in Nat /\ (faults' = 0 => faults = 0)
  BY <1>0, <1>1 DEF ClaimInv, TypeOK, CallMove, JoinsIn, Claims
<1>3. ASSUME NEW k \in Jobs \ {j} PROVE Prompt(k)'
  <2>1. /\ task'[k] = task[k] /\ stored'[k] = stored[k] /\ cancelling'[k] = cancelling[k]
    BY <1>1 DEF CallsApart, TargetStays
  <2>2. (Calm(k) => Calm(k)') /\ (Before(k) => Before(k)')
    BY <1>0, <1>1, CallKeepsOthers
  <2>3. BeingCancelled(k)' <=> BeingCancelled(k)
    BY <2>1 DEF BeingCancelled
  <2> QED
    BY <1>0, <1>2, <2>1, <2>2, <2>3 DEF Prompt, Awaiting
<1>4. task'[j] = task[j] \/ (task[j] = "queued" /\ task'[j] = "dropped")
        \/ (task[j] = "granted" /\ task'[j] = "returning")
  BY <1>1 DEF CallMove, JoinsIn, Claims, Answers, TargetStays, TargetMoves, AfterCancel
<1>5. ~(task'[j] \in {"none", "scheduled", "queued", "granted"} /\ j \notin Unissued)
  <2> SUFFICES ASSUME task'[j] \in {"none", "scheduled", "queued", "granted"}, j \notin Unissued
               PROVE  FALSE
    OBVIOUS
  <2>1. task[j] = task'[j]
    BY <1>4
  <2>2. Calm(j)
    BY <1>0, <2>1 DEF Prompt, Awaiting
  <2> QED
    BY <1>0, <2>1, <2>2, CalmStays
<1>6. j \in Unissued => task[j] = "none"
  BY <1>0 DEF Shape
<1>7. task'[j] = "marking" => Before(j)' /\ stored'[j] = "pending"
  BY <1>0, <1>4, CallKeepsBefore DEF Prompt, Awaiting
<1>8. faults' = 0 /\ task'[j] = "recording" => Before(j)' /\ stored'[j] = "processing"
  BY <1>0, <1>2, <1>4, CallKeepsBefore DEF Prompt, Awaiting
<1>9. faults' = 0 /\ task'[j] \in Awaiting => BeingCancelled(j)'
  <2> SUFFICES ASSUME faults' = 0, task'[j] \in Awaiting PROVE BeingCancelled(j)'
    OBVIOUS
  <2>1. task[j] \in Awaiting /\ faults = 0 /\ j \in activeJobs
    BY <1>0, <1>2, <1>4 DEF Shape, Over, Awaiting
  <2>2. CASE BeingCancelled(j)
    BY <1>0, <2>1, <2>2, ClaimStays
  <2>3. CASE ~BeingCancelled(j)
    <3>1. Calm(j)
      BY <1>0, <2>1, <2>3 DEF Prompt, Awaiting
    <3> QED
      BY <1>0, <2>1, <3>1, CalmStays
  <2> QED
    BY <2>2, <2>3
<1>10. Prompt(j)'
  BY <1>4, <1>5, <1>6, <1>7, <1>8, <1>9 DEF Prompt, Awaiting
<1>11. ASSUME faults' = 0, NEW d \in Callers, future'[d] = "result" \/ reply'[d] = "cancelled"
       PROVE  stored'[About[d]] = "cancelled"
  <2>0. About[d] \in Jobs /\ faults = 0
    BY <1>2, <1>11, ConstantsAssumption
  <2>1. stored[About[d]] = "cancelled" => stored'[About[d]] = "cancelled"
    BY <1>1, <2>0 DEF CallsApart, CallMove, JoinsIn, Claims, TargetMoves
  <2>2. CASE future[d] = "result" \/ reply[d] = "cancelled"
    BY <1>0, <2>0, <2>1, <2>2 DEF CancelledStays
  <2>3. CASE ~(future[d] = "result" \/ reply[d] = "cancelled")
    <3>1. d = c
      BY <1>1, <1>11, <2>3 DEF CallsApart
    <3>2. \/ stored'[j] = "cancelled"
          \/ stored[j] = "cancelled"
          \/ caller[c] = "joining" /\ future[joined[c]] = "result"
      BY <1>1, <1>11, <2>3, <3>1 DEF CallMove, JoinsIn, Claims, Answers
    <3>3. caller[c] = "joining" /\ future[joined[c]] = "result" => stored[j] = "cancelled"
      BY <1>0, <2>0 DEF ClaimInv, WaitersHaveOwners, CancelledStays
    <3> QED
      BY <2>1, <3>1, <3>2, <3>3
  <2> QED
    BY <2>2, <2>3
<1>12. CancelledStays'
  BY <1>11 DEF CancelledStays
<1> QED
  BY <1>3, <1>10, <1>12

(* Unless cancel() may arrive before the task's first step, which HTTP      *)
(* cannot do, whatever calls are made find the job as PromptInv says.       *)
THEOREM PromptKept == ASSUME ~EarlyCancel PROVE Spec => []PromptInv
<1>1. Init /\ BaseInv => PromptInv
  <2> SUFFICES ASSUME Init, BaseInv PROVE (\A j \in Jobs : Prompt(j)) /\ CancelledStays
    BY DEF PromptInv
  <2>1. \A j \in Jobs : Prompt(j)
    BY DEF Init, Prompt, Awaiting, Calm
  <2>2. CancelledStays
    BY DEF Init, CancelledStays
  <2> QED
    BY <2>1, <2>2
<1>2. PromptInv /\ BaseInv' /\ [Next]_vars => PromptInv'
  <2> SUFFICES ASSUME PromptInv, [Next]_vars PROVE (\A j \in Jobs : Prompt(j)') /\ CancelledStays'
    BY DEF PromptInv
  <2>0. BaseInv
    BY DEF PromptInv
  <2>1. ASSUME NEW j \in Jobs, Submit(j) \/ TaskStep(j) \/ ProviderEnds(j) \/ JobTimesOut(j)
        PROVE  (\A k \in Jobs : Prompt(k)') /\ CancelledStays'
    BY <2>0, <2>1, TaskFacts, TaskKeepsPrompt
  <2>2. ASSUME NEW c \in Callers, Cancel(c) \/ CallerStep(c)
        PROVE  (\A k \in Jobs : Prompt(k)') /\ CancelledStays'
    BY <2>2, CallKeepsPrompt
  <2>3. ASSUME UNCHANGED vars
        PROVE  (\A k \in Jobs : Prompt(k)') /\ CancelledStays'
    BY <2>3 DEF PromptInv, vars, Prompt, Awaiting, Calm, Before, UnderWay, BeingCancelled, CancelledStays
  <2> QED
    BY <2>1, <2>2, <2>3 DEF Next
<1> QED
  BY <1>1, <1>2, BaseKept, PTL DEF Spec

(* A call that returned the cancelled record told the truth for good        *)
(* (CancelSticks).                                                          *)
THEOREM CancelStays == ASSUME ~EarlyCancel PROVE Spec => []CancelSticks
<1>1. PromptInv => CancelSticks
  BY DEF PromptInv, CancelledStays, CancelSticks
<1> QED
  BY <1>1, PromptKept, PTL

(* No provider starts for a job somebody is cancelling or has cancelled     *)
(* (CancelledNeverStarts), even when store calls raise.                     *)
THEOREM CancelledStartsNothing == ASSUME ~EarlyCancel PROVE Spec => CancelledNeverStarts
<1> DEFINE Quiet(j) == \A c \in Callers : About[c] = j =>
             caller[c] \notin {"grace", "writing", "joining"} /\ reply[c] # "cancelled"
<1> DEFINE Starts == \A j \in Jobs : provider[j] = "none" /\ provider'[j] # "none" => Quiet(j)
<1>1. PromptInv /\ [Next]_vars => Starts
  <2> SUFFICES ASSUME PromptInv, [Next]_vars, NEW k \in Jobs, provider[k] = "none", provider'[k] # "none"
               PROVE  Quiet(k)
    OBVIOUS
  <2>0. BaseInv /\ ClaimInv /\ Prompt(k) /\ \A c \in Callers : CallShape(c)
    BY DEF PromptInv, BaseInv
  <2>1. ASSUME NEW j \in Jobs, Submit(j) \/ TaskStep(j) \/ ProviderEnds(j) \/ JobTimesOut(j)
        PROVE  Quiet(k)
    <3>1. Others(j) /\ TaskMove(j)
      BY <2>0, <2>1, TaskFacts
    <3>2. k = j
      BY <3>1 DEF Others
    <3>3. k \in Jobs /\ task[k] = "marking" /\ ~BeingCancelled(k)
      BY <3>1, <3>2 DEF TaskMove, Awaiting, Calling
    <3>4. Calm(k)
      BY <2>0, <3>3, BeforeIsCalm DEF Prompt, Awaiting
    <3> QED
      BY <2>0, <3>4 DEF Calm, CallShape
  <2>2. ASSUME NEW c \in Callers, Cancel(c) \/ CallerStep(c)
        PROVE  FALSE
    <3>1. CallsApart(c) /\ CallMove(c)
      BY <2>0, <2>2, CallFacts
    <3> QED
      BY <3>1 DEF CallsApart, CallMove, JoinsIn, Claims, Answers, TargetMoves, TargetStays
  <2>3. CASE UNCHANGED vars
    BY <2>3 DEF vars
  <2> QED
    BY <2>1, <2>2, <2>3 DEF Next
<1>2. PromptInv /\ [Next]_vars => [\A j \in Jobs : provider[j] = "none" /\ provider'[j] # "none" =>
       \A c \in Callers : About[c] = j =>
         caller[c] \notin {"grace", "writing", "joining"} /\ reply[c] # "cancelled"]_vars
  BY <1>1
<1> QED
  BY <1>2, PromptKept, PTL DEF Spec, CancelledNeverStarts

-----------------------------------------------------------------------------
(* Refusals.  While the store answers, a call that reads the store does so  *)
(* after the job's task has ended; if another call is about to write the    *)
(* cancelled record meanwhile, the read comes first in the queue and finds  *)
(* the row unfinished, so it is not refused.                                *)
ReadsFirst(c, d) ==
  caller[c] = "getting" /\ UnderWay(d) /\ About[c] = About[d] =>
    /\ stored[About[c]] \in Unfinished
    /\ caller[d] = "writing" /\ Ahead(storeQueue, c, d)

Refused(c) ==
  reply[c] = "conflict" =>
    stored[About[c]] \in Terminal /\ task[About[c]] = "ended" /\ ~BeingCancelled(About[c])

RefusalInv ==
  BaseInv /\ (faults = 0 => (\A c, d \in Callers : ReadsFirst(c, d)) /\ (\A c \in Callers : Refused(c)))

(* The task of a job that is read or was refused takes no step that writes. *)
LEMMA EndedIsStill ==
  ASSUME NEW j \in Jobs, Others(j), TaskMove(j), Shape(j), faults = 0,
         task[j] \in Over, stored[j] # "absent"
  PROVE  task'[j] = task[j] /\ stored'[j] = stored[j] /\ cancelling'[j] = cancelling[j]
BY DEF TaskMove, Awaiting, RunGoesOn, Shape, Over

LEMMA TaskKeepsRefusals ==
  ASSUME RefusalInv, NEW j \in Jobs, Others(j), TaskMove(j), UNCHANGED callVars, Forward(j), faults' = 0
  PROVE  (\A c, d \in Callers : ReadsFirst(c, d)') /\ (\A c \in Callers : Refused(c)')
<1>0. faults = 0
  BY ConstantsAssumption DEF RefusalInv, BaseInv, ClaimInv, TypeOK, TaskMove, Awaiting
<1>1. /\ \A c, d \in Callers : ReadsFirst(c, d)
      /\ \A c \in Callers : Refused(c) /\ CallShape(c) /\ About[c] \in Jobs
      /\ \A k \in Jobs : Shape(k)
  BY <1>0, ConstantsAssumption DEF RefusalInv, BaseInv
<1>2. \A k \in Jobs : task[k] \in Over /\ stored[k] # "absent" =>
         task'[k] = task[k] /\ stored'[k] = stored[k] /\ (BeingCancelled(k)' <=> BeingCancelled(k))
  <2> SUFFICES ASSUME NEW k \in Jobs, task[k] \in Over, stored[k] # "absent"
               PROVE  task'[k] = task[k] /\ stored'[k] = stored[k] /\ cancelling'[k] = cancelling[k]
    BY DEF BeingCancelled
  <2>1. CASE k = j
    BY <1>0, <1>1, <2>1, EndedIsStill
  <2>2. CASE k # j
    BY <2>2 DEF Others, Over
  <2> QED
    BY <2>1, <2>2
<1>3. ASSUME NEW c \in Callers, NEW d \in Callers PROVE ReadsFirst(c, d)'
  <2> SUFFICES ASSUME caller[c] = "getting", UnderWay(d), About[c] = About[d]
               PROVE  /\ stored'[About[c]] \in Unfinished
                      /\ caller[d] = "writing" /\ Ahead(storeQueue', c, d)
    BY DEF callVars, ReadsFirst, UnderWay
  <2>1. stored[About[c]] \in Unfinished /\ caller[d] = "writing" /\ Ahead(storeQueue, c, d)
    BY <1>1 DEF ReadsFirst
  <2>2. stored[About[c]] # "absent" /\ task[About[c]] \in Over
    BY <1>1, <2>1 DEF CallShape, Shape, Unfinished
  <2>3. c # j
    BY ConstantsAssumption
  <2> QED
    BY <1>1, <1>2, <2>1, <2>2, <2>3 DEF Forward
<1>4. ASSUME NEW c \in Callers PROVE Refused(c)'
  <2> SUFFICES ASSUME reply[c] = "conflict"
               PROVE  /\ stored'[About[c]] \in Terminal
                      /\ task'[About[c]] = "ended" /\ ~BeingCancelled(About[c])'
    BY DEF callVars, Refused
  <2>1. stored[About[c]] \in Terminal /\ task[About[c]] = "ended" /\ ~BeingCancelled(About[c])
    BY <1>1 DEF Refused
  <2>2. stored[About[c]] # "absent" /\ task[About[c]] \in Over
    BY <2>1 DEF Terminal, Over
  <2> QED
    BY <1>1, <1>2, <2>1, <2>2
<1> QED
  BY <1>3, <1>4

(* A row that reads finished is not being cancelled.                        *)
LEMMA FinishedIsUnclaimed ==
  ASSUME RefusalInv, faults = 0, NEW c \in Callers, caller[c] = "getting", stored[About[c]] \in Terminal
  PROVE  task[About[c]] = "ended" /\ ~BeingCancelled(About[c])
<1> DEFINE j == About[c]
<1>1. j \in Jobs /\ ClaimInv /\ CallShape(c) /\ Shape(j) /\ \A d \in Callers : ReadsFirst(c, d)
  BY ConstantsAssumption DEF RefusalInv, BaseInv
<1>2. task[j] = "ended" /\ j \notin activeJobs
  BY <1>1 DEF CallShape, Shape, Over, Terminal
<1>3. ASSUME BeingCancelled(j) PROVE FALSE
  <2>1. cancelling[j] \in Callers /\ About[cancelling[j]] = j /\ UnderWay(cancelling[j])
    BY <1>1, <1>2, <1>3, Claimant
  <2>2. stored[j] \in Unfinished
    BY <1>1, <2>1 DEF ReadsFirst
  <2> QED
    BY <2>2 DEF Unfinished, Terminal
<1> QED
  BY <1>2, <1>3

LEMMA CallKeepsRefusals ==
  ASSUME RefusalInv, NEW e \in Callers, Cancel(e) \/ CallerStep(e), faults' = 0
  PROVE  (\A c, d \in Callers : ReadsFirst(c, d)') /\ (\A c \in Callers : Refused(c)')
<1> DEFINE j == About[e]
<1>0. /\ BaseInv /\ ClaimInv /\ (\A k \in Jobs : Shape(k)) /\ (\A c \in Callers : About[c] \in Jobs)
      /\ \A c \in Callers : CallShape(c)
  BY ConstantsAssumption DEF RefusalInv, BaseInv
<1>1. /\ CallsApart(e) /\ CallMove(e) /\ Forward(e)
      /\ caller'[e] = "writing" /\ caller[e] # "writing" => \A x : x # e => Ahead(storeQueue', x, e)
  BY <1>0, CallFacts
<1>2. faults = 0
  BY <1>0, <1>1 DEF ClaimInv, TypeOK, CallMove, JoinsIn, Claims
<1>3. (\A c, d \in Callers : ReadsFirst(c, d)) /\ (\A c \in Callers : Refused(c))
  BY <1>2 DEF RefusalInv
<1>4. stored'[j] = stored[j] \/ caller[e] = "writing"
  BY <1>1 DEF CallMove, JoinsIn, Claims, TargetMoves
<1>5. ASSUME NEW c \in Callers, NEW d \in Callers PROVE ReadsFirst(c, d)'
  <2> SUFFICES ASSUME caller'[c] = "getting", UnderWay(d)', About[c] = About[d]
               PROVE  /\ stored'[About[c]] \in Unfinished
                      /\ caller'[d] = "writing" /\ Ahead(storeQueue', c, d)
    BY DEF ReadsFirst
  <2>0. c # d
    BY DEF UnderWay
  <2>1. c # e
    <3> SUFFICES ASSUME c = e PROVE FALSE
      OBVIOUS
    <3>1. ~BeingCancelled(j) /\ UnderWay(d)
      BY <1>1, <2>0 DEF CallMove, JoinsIn, Claims, Answers, CallsApart, UnderWay
    <3> QED
      BY <1>0, <3>1, Claimed
  <2>2. caller[c] = "getting" /\ (task[About[c]] \in Over \/ About[c] \in Unissued) /\ About[c] \notin activeJobs
    BY <1>0, <1>1, <2>1 DEF CallsApart, CallShape, Shape, Over
  <2>3. CASE UnderWay(d)
    <3>1. stored[About[c]] \in Unfinished /\ caller[d] = "writing" /\ Ahead(storeQueue, c, d)
      BY <1>3, <2>2, <2>3 DEF ReadsFirst
    <3>2. d # e
      BY <1>1, <3>1 DEF CallMove, Answers, UnderWay
    <3>3. About[c] = j => ~UnderWay(e)
      BY <1>0, <2>3, <3>2, Claimed
    <3>4. stored'[About[c]] = stored[About[c]]
      BY <1>0, <1>1, <1>4, <3>3 DEF CallsApart, UnderWay
    <3> QED
      BY <1>1, <2>1, <3>1, <3>2, <3>4 DEF CallsApart, Forward
  <2>4. CASE ~UnderWay(d)
    <3>1. d = e
      BY <1>1, <2>4 DEF CallsApart, UnderWay
    <3>2. caller[e] = "getting" /\ caller'[e] = "writing" /\ stored[j] \in Unfinished
      BY <1>1, <2>2, <2>4, <3>1 DEF CallMove, JoinsIn, Answers, UnderWay
    <3> QED
      BY <1>1, <1>4, <2>1, <3>1, <3>2
  <2> QED
    BY <2>3, <2>4
<1>6. ASSUME NEW c \in Callers PROVE Refused(c)'
  <2> SUFFICES ASSUME reply'[c] = "conflict"
               PROVE  /\ stored'[About[c]] \in Terminal
                      /\ task'[About[c]] = "ended" /\ ~BeingCancelled(About[c])'
    BY DEF Refused
  <2>1. stored[About[c]] \in Terminal /\ task[About[c]] = "ended" /\ ~BeingCancelled(About[c])
    <3>1. CASE reply[c] = "conflict"
      BY <1>3, <3>1 DEF Refused
    <3>2. CASE reply[c] # "conflict"
      <4>1. c = e
        BY <1>1, <3>2 DEF CallsApart
      <4>2. caller[c] = "getting" /\ stored[About[c]] \in Terminal
        BY <1>1, <3>2, <4>1 DEF CallMove, JoinsIn, Claims, Answers
      <4> QED
        BY <1>2, <4>2, FinishedIsUnclaimed
    <3> QED
      BY <3>1, <3>2
  <2>2. CASE About[c] # j
    BY <1>0, <1>1, <2>1, <2>2 DEF CallsApart, TargetStays, BeingCancelled
  <2>3. CASE About[c] = j
    <3>1. ~UnderWay(e)
      BY <1>0, <2>1, <2>3, Claimed
    <3>2. j \notin activeJobs /\ stored[j] \notin Unfinished
      BY <1>0, <2>1, <2>3 DEF Shape, Over, Terminal, Unfinished
    <3>3. TargetStays(j) /\ cancelling'[j] = cancelling[j] /\ stored'[j] = stored[j]
      BY <1>1, <1>4, <3>1, <3>2 DEF CallMove, JoinsIn, Answers, UnderWay
    <3> QED
      BY <2>1, <2>3, <3>3 DEF TargetStays, BeingCancelled
  <2> QED
    BY <2>2, <2>3
<1> QED
  BY <1>5, <1>6

(* A refused call read a row that no cancel() under way was going to replace,*)
(* for every store, provider and order of arrival.                          *)
THEOREM RefusalsKept == Spec => []RefusalInv
<1>1. Init /\ BaseInv => RefusalInv
  BY DEF Init, RefusalInv, ReadsFirst, Refused, UnderWay
<1>2. RefusalInv /\ BaseInv' /\ [Next]_vars => RefusalInv'
  <2> SUFFICES ASSUME RefusalInv, [Next]_vars, faults' = 0
               PROVE  (\A c, d \in Callers : ReadsFirst(c, d)') /\ (\A c \in Callers : Refused(c)')
    BY DEF RefusalInv
  <2>0. BaseInv
    BY DEF RefusalInv
  <2>1. ASSUME NEW j \in Jobs, Submit(j) \/ TaskStep(j) \/ ProviderEnds(j) \/ JobTimesOut(j)
        PROVE  (\A c, d \in Callers : ReadsFirst(c, d)') /\ (\A c \in Callers : Refused(c)')
    BY <2>0, <2>1, TaskFacts, TaskKeepsRefusals
  <2>2. ASSUME NEW e \in Callers, Cancel(e) \/ CallerStep(e)
        PROVE  (\A c, d \in Callers : ReadsFirst(c, d)') /\ (\A c \in Callers : Refused(c)')
    BY <2>2, CallKeepsRefusals
  <2>3. ASSUME UNCHANGED vars
        PROVE  (\A c, d \in Callers : ReadsFirst(c, d)') /\ (\A c \in Callers : Refused(c)')
    BY <2>3 DEF RefusalInv, vars, ReadsFirst, Refused, UnderWay, BeingCancelled
  <2> QED
    BY <2>1, <2>2, <2>3 DEF Next
<1> QED
  BY <1>1, <1>2, BaseKept, PTL DEF Spec

(* JobNotCancellableError is only raised for a job whose record never       *)
(* changes again (RefusalIsTrue), whenever the calls arrive.                *)
THEOREM RefusalsTrue == Spec => RefusalIsTrue
<1>1. RefusalInv /\ [Next]_vars =>
        [faults' = 0 => \A c \in Callers : reply[c] = "conflict" =>
           stored[About[c]] \in Terminal /\ stored'[About[c]] = stored[About[c]]]_vars
  <2> SUFFICES ASSUME RefusalInv, [Next]_vars, faults' = 0, NEW c \in Callers, reply[c] = "conflict"
               PROVE  stored[About[c]] \in Terminal /\ stored'[About[c]] = stored[About[c]]
    OBVIOUS
  <2> DEFINE k == About[c]
  <2>0. k \in Jobs /\ BaseInv /\ ClaimInv /\ Shape(k)
    BY ConstantsAssumption DEF RefusalInv, BaseInv
  <2>1. faults = 0 => stored[k] \in Terminal /\ task[k] = "ended" /\ ~BeingCancelled(k)
    BY DEF RefusalInv, Refused
  <2>2. ASSUME NEW j \in Jobs, Submit(j) \/ TaskStep(j) \/ ProviderEnds(j) \/ JobTimesOut(j)
        PROVE  stored[k] \in Terminal /\ stored'[k] = stored[k]
    <3>1. Others(j) /\ TaskMove(j)
      BY <2>0, <2>2, TaskFacts
    <3>2. faults = 0
      BY <2>0, <3>1 DEF ClaimInv, TypeOK, TaskMove, Awaiting
    <3>3. CASE j = k
      BY <2>0, <2>1, <3>1, <3>2, <3>3, EndedIsStill DEF Over, Terminal
    <3>4. CASE j # k
      BY <2>0, <2>1, <3>1, <3>2, <3>4 DEF Others
    <3> QED
      BY <3>3, <3>4
  <2>3. ASSUME NEW e \in Callers, Cancel(e) \/ CallerStep(e)
        PROVE  stored[k] \in Terminal /\ stored'[k] = stored[k]
    <3>1. CallsApart(e) /\ CallMove(e)
      BY <2>0, <2>3, CallFacts
    <3>2. faults = 0
      BY <2>0, <3>1 DEF ClaimInv, TypeOK, CallMove, JoinsIn, Claims
    <3>3. About[e] = k => caller[e] # "writing"
      BY <2>0, <2>1, <3>2, Claimed DEF UnderWay
    <3>4. stored'[k] = stored[k]
      BY <2>0, <3>1, <3>3 DEF CallsApart, CallMove, JoinsIn, Claims, TargetMoves
    <3> QED
      BY <2>1, <3>2, <3>4
  <2>4. ASSUME UNCHANGED vars PROVE stored[k] \in Terminal /\ stored'[k] = stored[k]
    BY <2>1, <2>4 DEF vars
  <2> QED
    BY <2>2, <2>3, <2>4 DEF Next
<1> QED
  BY <1>1, RefusalsKept, PTL DEF Spec, RefusalIsTrue

-----------------------------------------------------------------------------
(* What a task leaves behind.  While the store answers, no call arrives     *)
(* early and no provider cancels itself, a task that was or will be stopped *)
(* was stopped by a cancel() whose record is written or on its way.         *)
Left(j) ==
  /\ task[j] \in {"dropped", "returning"} => BeingCancelled(j)
  /\ task[j] = "providing" /\ provider[j] \in {"asked", "gone"} => BeingCancelled(j)
  /\ task[j] = "ended" => stored[j] \in Terminal \/ BeingCancelled(j)

LeftInv == PromptInv /\ (faults = 0 => \A j \in Jobs : Left(j))

(* The end of a run phase drops only an entry whose record is written.      *)
LEMMA EndLeaves ==
  ASSUME PromptInv, faults = 0, NEW j \in Jobs, EndRunPhase(j), BeingCancelled(j)
  PROVE  stored[j] = "cancelled" \/ BeingCancelled(j)'
<1> DEFINE d == cancelling[j]
<1>1. ClaimInv
  BY DEF PromptInv, BaseInv
<1>2. d \in Callers /\ About[d] = j /\ future[d] \in {"pending", "result"}
  BY <1>1, Claimant
<1>3. CASE future[d] = "result"
  BY <1>2, <1>3 DEF PromptInv, CancelledStays
<1>4. CASE future[d] = "pending"
  BY <1>4 DEF EndRunPhase, Settled, BeingCancelled
<1> QED
  BY <1>2, <1>3, <1>4

LEMMA TaskLeaves ==
  ASSUME LeftInv, "selfcancels" \notin Habits, NEW j \in Jobs, Others(j), TaskMove(j), faults' = 0
  PROVE  \A k \in Jobs : Left(k)'
<1>0. /\ PromptInv /\ ClaimInv /\ Shape(j) /\ Prompt(j) /\ faults = 0
      /\ \A k \in Jobs : Left(k)
  BY ConstantsAssumption DEF LeftInv, PromptInv, BaseInv, ClaimInv, TypeOK, TaskMove, Awaiting
<1>1. ASSUME NEW k \in Jobs \ {j} PROVE Left(k)'
  BY <1>0 DEF Others, Left, BeingCancelled
<1>2. EndRunPhase(j) /\ BeingCancelled(j) => stored[j] = "cancelled" \/ BeingCancelled(j)'
  BY <1>0, EndLeaves
<1>3. RunGoesOn(j) => (BeingCancelled(j)' <=> BeingCancelled(j))
  BY DEF RunGoesOn, BeingCancelled
<1>4. task[j] = "marking" /\ EndRunPhase(j) /\ BeingCancelled(j) => BeingCancelled(j)'
  <2> SUFFICES ASSUME task[j] = "marking", EndRunPhase(j), BeingCancelled(j) PROVE BeingCancelled(j)'
    OBVIOUS
  <2>1. future[cancelling[j]] = "pending"
    BY <1>0, BeforeIsUnderWay DEF Prompt, Awaiting
  <2> QED
    BY <2>1 DEF EndRunPhase, Settled, BeingCancelled
<1>5. Left(j)
  BY <1>0
<1>6. task'[j] \in {"dropped", "returning"} => BeingCancelled(j)'
  BY <1>3, <1>5 DEF TaskMove, Awaiting, Left
<1>7. task'[j] = "providing" /\ provider'[j] \in {"asked", "gone"} => BeingCancelled(j)'
  BY <1>3, <1>5 DEF TaskMove, Awaiting, Left, Calling
<1>8. task'[j] = "ended" => stored'[j] \in Terminal \/ BeingCancelled(j)'
  <2> SUFFICES ASSUME task'[j] = "ended" PROVE stored'[j] \in Terminal \/ BeingCancelled(j)'
    OBVIOUS
  <2>1. CASE task[j] = "ended"
    BY <1>3, <1>5, <2>1, <1>0 DEF TaskMove, Awaiting, Left, Shape
  <2>2. CASE task[j] \in {"dropped", "returning"} \cup Awaiting
    BY <1>2, <1>3, <1>5, <2>2 DEF TaskMove, Awaiting, Left, Escapes, Terminal, Shape
  <2>3. CASE task[j] = "marking"
    BY <1>4, <2>3 DEF TaskMove, Awaiting
  <2>4. CASE task[j] \notin {"ended", "dropped", "returning", "marking"} \cup Awaiting
    BY <1>0, <2>4 DEF TaskMove, Awaiting, Terminal, Shape
  <2> QED
    BY <2>1, <2>2, <2>3, <2>4
<1> QED
  BY <1>1, <1>6, <1>7, <1>8 DEF Left

LEMMA CallLeaves ==
  ASSUME LeftInv, NEW c \in Callers, Cancel(c) \/ CallerStep(c), faults' = 0
  PROVE  \A k \in Jobs : Left(k)'
<1> DEFINE j == About[c]
<1>0. j \in Jobs /\ BaseInv /\ ClaimInv /\ Shape(j)
  BY ConstantsAssumption DEF LeftInv, PromptInv, BaseInv
<1>1. CallsApart(c) /\ CallMove(c)
  BY <1>0, CallFacts
<1>2. \A k \in Jobs : Left(k)
  BY <1>0, <1>1 DEF LeftInv, ClaimInv, TypeOK, CallMove, JoinsIn, Claims
<1>3. ASSUME NEW k \in Jobs \ {j} PROVE Left(k)'
  BY <1>1, <1>2 DEF CallsApart, TargetStays, Left, BeingCancelled
<1>4. BeingCancelled(j) /\ j \in activeJobs => BeingCancelled(j)'
  BY <1>0, ClaimStays
<1>5. Claims(c) => BeingCancelled(j)'
  BY ConstantsAssumption DEF Claims, BeingCancelled
<1>6. Claims(c) \/ TargetStays(j)
  BY <1>1 DEF CallMove, JoinsIn, Answers
<1>7. stored'[j] = stored[j] \/ stored'[j] = "cancelled"
  BY <1>1 DEF CallMove, JoinsIn, Claims, TargetMoves
<1>8. BeingCancelled(j) => BeingCancelled(j)' \/ stored'[j] = "cancelled"
  BY <1>0, <1>1 DEF CallMove, JoinsIn, Claims, BeingCancelled, ClaimInv, TypeOK
<1>9. Left(j)'
  BY <1>0, <1>2, <1>4, <1>5, <1>6, <1>7, <1>8 DEF TargetStays, Left, Shape, Over, Terminal
<1> QED
  BY <1>3, <1>9

(* While the store answers, no task ends and leaves its job unfinished with *)
(* nobody to finish it (NoJobLeftBehind), unless a call arrives early or a  *)
(* provider raises CancelledError by itself.                                *)
THEOREM NobodyLeftBehind ==
  ASSUME ~EarlyCancel, "selfcancels" \notin Habits
  PROVE  Spec => []NoJobLeftBehind
<1>1. Init /\ PromptInv => LeftInv
  BY DEF Init, LeftInv, Left
<1>2. LeftInv /\ PromptInv' /\ [Next]_vars => LeftInv'
  <2> SUFFICES ASSUME LeftInv, [Next]_vars, faults' = 0 PROVE \A k \in Jobs : Left(k)'
    BY DEF LeftInv
  <2>0. BaseInv
    BY DEF LeftInv, PromptInv
  <2>1. ASSUME NEW j \in Jobs, Submit(j) \/ TaskStep(j) \/ ProviderEnds(j) \/ JobTimesOut(j)
        PROVE  \A k \in Jobs : Left(k)'
    BY <2>0, <2>1, TaskFacts, TaskLeaves
  <2>2. ASSUME NEW c \in Callers, Cancel(c) \/ CallerStep(c)
        PROVE  \A k \in Jobs : Left(k)'
    BY <2>2, CallLeaves
  <2>3. ASSUME UNCHANGED vars PROVE \A k \in Jobs : Left(k)'
    BY <2>3 DEF LeftInv, vars, Left, BeingCancelled
  <2> QED
    BY <2>1, <2>2, <2>3 DEF Next
<1>3. LeftInv => NoJobLeftBehind
  BY DEF LeftInv, Left, NoJobLeftBehind
<1> QED
  BY <1>1, <1>2, <1>3, PromptKept, PTL DEF Spec

=============================================================================
