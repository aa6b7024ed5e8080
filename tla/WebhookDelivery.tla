--------------------------- MODULE WebhookDelivery ---------------------------
(***************************************************************************)
(* Webhook delivery over restarts: _deliver_webhook and its retries, the   *)
(* slots its requests take, aclose() at shutdown, crashes, and the sweep   *)
(* recover_interrupted_jobs() that starts the next process.  The store is  *)
(* a SQLiteJobStore, so that records outlive the process.                  *)
(*                                                                         *)
(* A write of the store is one action, taken when it returns; the step the *)
(* code takes with its answer is another, so a crash may come in between.  *)
(* A name X_Variant is X with a plausible fault; no action uses one.       *)
(***************************************************************************)
EXTENDS Naturals, Sequences, FiniteSets

CONSTANTS
  Jobs,           \* jobs, submitted once each
  Hooked,         \* those with a webhook_url
  SlotCap,        \* max_concurrent_webhooks, 0 for None
  MaxAttempts,    \* WEBHOOK_MAX_ATTEMPTS
  Guarded,        \* the client is netguard's: a request may be refused
  ResultsExpire,  \* result_ttl may run out
  OwnsClient,     \* _owns_http_client: aclose() closes it
  MaxStops,       \* bound: crashes and shutdowns
  StoreFaults     \* bound: store calls that raise

ASSUME ConstantsAssumption ==
  /\ IsFiniteSet(Jobs) /\ Hooked \subseteq Jobs
  /\ SlotCap \in Nat
  /\ MaxAttempts \in Nat \ {0}
  /\ {Guarded, ResultsExpire, OwnsClient} \subseteq BOOLEAN
  /\ MaxStops \in Nat
  /\ StoreFaults \in Nat

VARIABLES
  record,     \* [Jobs -> {"absent", "unfinished", "terminal"}] stored status
  outcome,    \* [Jobs -> {"none", "delivered", "failed"}] webhook_status
  expired,    \* terminal jobs past result_expires_at: they display "expired"
  phase,      \* Phase: what the process is at
  cutOff,     \* deliveries that hold the HTTP client aclose() has closed
  toSweep,    \* candidates the sweep has listed and not yet looked at
  wasExpired, \* those of them that displayed "expired" when listed
  announcing, \* jobs whose terminal write returned, delivery still to start
  delivery,   \* [Jobs -> DeliveryState] where _deliver_webhook is suspended
  attempt,    \* [Jobs -> 0 .. MaxAttempts] the attempt it is at
  verdict,    \* [Jobs -> {"delivered", "failed"}] what "recording" will write
  freeSlots,  \* _webhook_slots._value
  line,       \* Seq(Jobs) _webhook_slots._waiters
  heard,      \* history: [Jobs -> Nat] 2xx answers the receiver gave, ever
  unsure,     \* history: [Jobs -> Nat] of them, those that were lost
  stops, faults

deliveryVars == <<delivery, attempt, verdict, freeSlots, line>>
sweepVars == <<toSweep, wasExpired>>
vars == <<record, outcome, expired, phase, cutOff, sweepVars, announcing, deliveryVars,
          heard, unsure, stops, faults>>

(* Where _deliver_webhook is suspended:                                     *)
(*   starting   its task is created, or its backoff sleep is over           *)
(*   queued     awaiting _webhook_slots                                     *)
(*   posting    awaiting client.post                                        *)
(*   backoff    asyncio.sleep before the next attempt                       *)
(*   recording  set_webhook_status                                          *)
Delivering == {"starting", "queued", "posting", "backoff", "recording"}
DeliveryState == {"none", "over"} \cup Delivering
Phase == {"down", "listing", "sweeping", "serving", "draining", "closed"}

Init ==
  /\ record = [j \in Jobs |-> "absent"]
  /\ outcome = [j \in Jobs |-> "none"]
  /\ expired = {}
  /\ phase = "serving"
  /\ cutOff = {}
  /\ toSweep = {} /\ wasExpired = {}
  /\ announcing = {}
  /\ delivery = [j \in Jobs |-> "none"]
  /\ attempt = [j \in Jobs |-> 0]
  /\ verdict = [j \in Jobs |-> "failed"]
  /\ freeSlots = SlotCap
  /\ line = << >>
  /\ heard = [j \in Jobs |-> 0]
  /\ unsure = [j \in Jobs |-> 0]
  /\ stops = 0
  /\ faults = 0

Raise == faults < StoreFaults /\ faults' = faults + 1

-----------------------------------------------------------------------------
(* Jobs, as delivery sees them.                                             *)

Submit(j) ==
  /\ phase = "serving" /\ record[j] = "absent"
  /\ record' = [record EXCEPT ![j] = "unfinished"]
  /\ UNCHANGED <<outcome, expired, phase, cutOff, sweepVars, announcing, deliveryVars,
                 heard, unsure, stops, faults>>

(* The run phase, or cancel(), writes the terminal record.                  *)
Finish(j) ==
  /\ phase \in {"serving", "draining", "closed"} /\ record[j] = "unfinished"
  /\ record' = [record EXCEPT ![j] = "terminal"]
  /\ announcing' = announcing \cup {j}
  /\ UNCHANGED <<outcome, expired, phase, cutOff, sweepVars, deliveryVars, heard, unsure,
                 stops, faults>>

(* _deliver_webhook of a record just made terminal.                         *)
Deliver(j) == /\ delivery' = [delivery EXCEPT ![j] = "starting"]
              /\ attempt' = [attempt EXCEPT ![j] = 1]

Announce(j) ==
  /\ j \in announcing
  /\ announcing' = announcing \ {j}
  /\ IF j \in Hooked THEN Deliver(j) ELSE UNCHANGED <<delivery, attempt>>
  /\ UNCHANGED <<record, outcome, expired, phase, cutOff, sweepVars, verdict, freeSlots, line,
                 heard, unsure, stops, faults>>

(* result_ttl runs out; nothing is written.                                 *)
Expire(j) ==
  /\ ResultsExpire
  /\ record[j] = "terminal" /\ j \notin expired
  /\ expired' = expired \cup {j}
  /\ UNCHANGED <<record, outcome, phase, cutOff, sweepVars, announcing, deliveryVars, heard,
                 unsure, stops, faults>>

-----------------------------------------------------------------------------
(* One delivery.  asyncio.Semaphore serves its waiters in order, and nobody *)
(* overtakes one.                                                           *)

Attempt(j) ==
  /\ delivery[j] = "starting"
  /\ IF SlotCap > 0 /\ (freeSlots = 0 \/ line # << >>)
       THEN /\ delivery' = [delivery EXCEPT ![j] = "queued"]
            /\ line' = Append(line, j)
            /\ UNCHANGED freeSlots
       ELSE /\ delivery' = [delivery EXCEPT ![j] = "posting"]
            /\ freeSlots' = IF SlotCap > 0 THEN freeSlots - 1 ELSE freeSlots
            /\ UNCHANGED line
  /\ UNCHANGED <<record, outcome, expired, phase, cutOff, sweepVars, announcing, attempt,
                 verdict, heard, unsure, stops, faults>>

TakeSlot(j) ==
  /\ delivery[j] = "queued" /\ Head(line) = j /\ freeSlots > 0
  /\ delivery' = [delivery EXCEPT ![j] = "posting"]
  /\ line' = Tail(line)
  /\ freeSlots' = freeSlots - 1
  /\ UNCHANGED <<record, outcome, expired, phase, cutOff, sweepVars, announcing, attempt,
                 verdict, heard, unsure, stops, faults>>

(* The slot is given back as the request ends, before the outcome is        *)
(* recorded and before any sleep.                                           *)
GiveBack_KeptOnFailure(j, ok) ==
  freeSlots' = IF SlotCap > 0 /\ ok THEN freeSlots + 1 ELSE freeSlots

GiveBack(j, ok) == freeSlots' = IF SlotCap > 0 THEN freeSlots + 1 ELSE freeSlots

Settle(j, v) ==
  /\ delivery' = [delivery EXCEPT ![j] = "recording"]
  /\ verdict' = [verdict EXCEPT ![j] = v]
  /\ UNCHANGED attempt

(* A failed attempt: back off and try again, or give up after the last.     *)
LastAttempt(j) == attempt[j] = MaxAttempts

Retry(j) ==
  IF LastAttempt(j)
    THEN Settle(j, "failed")
    ELSE /\ delivery' = [delivery EXCEPT ![j] = "backoff"]
         /\ attempt' = [attempt EXCEPT ![j] = @ + 1]
         /\ UNCHANGED verdict

(* client.post ends:                                                        *)
(*   answered  the receiver's 2xx arrives                                   *)
(*   lost      the receiver took the request, its answer did not arrive     *)
(*   rejected  no connection, or an answer that is not 2xx                  *)
(*   blocked   WebhookDestinationBlocked: the guard refused the destination *)
(* A delivery whose client has been closed fails every request.             *)
AfterPost_NoReturn(j, how) ==
  IF how = "blocked" \/ (how = "answered" /\ LastAttempt(j))
    THEN Settle(j, "failed")
    ELSE Retry(j)

AfterPost_RejectedIsDone(j, how) ==
  IF how = "blocked" THEN Settle(j, "failed") ELSE Settle(j, "delivered")

AfterPost(j, how) ==
  CASE how = "answered" -> Settle(j, "delivered")
    [] how = "blocked" -> Settle(j, "failed")
    [] OTHER -> Retry(j)

PostEndsWith(j, how) ==
  /\ delivery[j] = "posting"
  /\ how = "blocked" => Guarded
  /\ j \in cutOff => how = "rejected"
  /\ heard' = [heard EXCEPT ![j] = IF how \in {"answered", "lost"} THEN @ + 1 ELSE @]
  /\ unsure' = [unsure EXCEPT ![j] = IF how = "lost" THEN @ + 1 ELSE @]
  /\ AfterPost(j, how)
  /\ GiveBack(j, how = "answered")
  /\ UNCHANGED <<record, outcome, expired, phase, cutOff, sweepVars, announcing, line, stops,
                 faults>>

PostEnds(j) == \E how \in {"answered", "lost", "rejected", "blocked"} : PostEndsWith(j, how)

BackoffEnds(j) ==
  /\ delivery[j] = "backoff"
  /\ delivery' = [delivery EXCEPT ![j] = "starting"]
  /\ UNCHANGED <<record, outcome, expired, phase, cutOff, sweepVars, announcing, attempt, verdict,
                 freeSlots, line, heard, unsure, stops, faults>>

(* set_webhook_status returns, or raises and is only logged.                *)
OutcomeRecorded(j) ==
  /\ delivery[j] = "recording"
  /\ delivery' = [delivery EXCEPT ![j] = "over"]
  /\ \/ outcome' = [outcome EXCEPT ![j] = verdict[j]] /\ UNCHANGED faults
     \/ Raise /\ UNCHANGED outcome
  /\ UNCHANGED <<record, expired, phase, cutOff, sweepVars, announcing, attempt, verdict,
                 freeSlots, line, heard, unsure, stops>>

-----------------------------------------------------------------------------
(* The process.                                                             *)

(* What dies with it: every task, the slots, the sweep.                     *)
Gone ==
  /\ phase' = "down"
  /\ cutOff' = {}
  /\ announcing' = {}
  /\ delivery' = [j \in Jobs |-> "none"]
  /\ attempt' = [j \in Jobs |-> 0]
  /\ freeSlots' = SlotCap
  /\ line' = << >>
  /\ toSweep' = {} /\ wasExpired' = {}
  /\ UNCHANGED <<verdict, outcome, expired, heard, unsure>>

(* A crash; a terminal UPDATE may have committed without having returned.   *)
Crash ==
  /\ phase # "down" /\ stops < MaxStops
  /\ stops' = stops + 1
  /\ \/ UNCHANGED record
     \/ \E j \in Jobs : /\ record[j] = "unfinished"
                        /\ record' = [record EXCEPT ![j] = "terminal"]
  /\ Gone
  /\ UNCHANGED faults

(* aclose(): nothing new comes in while it waits for the background tasks,  *)
(* at most drain_timeout.                                                   *)
Shutdown ==
  /\ phase = "serving" /\ stops < MaxStops
  /\ stops' = stops + 1
  /\ phase' = "draining"
  /\ UNCHANGED <<record, outcome, expired, cutOff, sweepVars, announcing, deliveryVars,
                 heard, unsure, faults>>

(* Then it closes the client it made, under the deliveries that hold it; a  *)
(* request in flight may have reached its receiver.  The loop runs on until *)
(* the process ends, and a delivery that starts now makes a new client.     *)
HoldsClient(j) == delivery[j] \in {"queued", "posting", "backoff"}
                    \/ (delivery[j] = "starting" /\ attempt[j] > 1)

DrainEnds ==
  /\ phase = "draining"
  /\ phase' = "closed"
  /\ cutOff' = IF OwnsClient THEN {j \in Jobs : HoldsClient(j)} ELSE {}
  /\ \E reached \in SUBSET {j \in cutOff' : delivery[j] = "posting"} :
       /\ heard' = [j \in Jobs |-> IF j \in reached THEN heard[j] + 1 ELSE heard[j]]
       /\ unsure' = [j \in Jobs |-> IF j \in reached THEN unsure[j] + 1 ELSE unsure[j]]
  /\ UNCHANGED <<record, outcome, expired, sweepVars, announcing, deliveryVars, stops,
                 faults>>

Exit ==
  /\ phase = "closed"
  /\ Gone
  /\ UNCHANGED <<record, stops, faults>>

Start ==
  /\ phase = "down"
  /\ phase' = "listing"
  /\ UNCHANGED <<record, outcome, expired, cutOff, sweepVars, announcing, deliveryVars, heard,
                 unsure, stops, faults>>

(* list_recovery_candidates returns: the rows are chosen by their stored    *)
(* status, then _apply_expiry is applied to each.                           *)
Unfinished == {j \in Jobs : record[j] = "unfinished"}
Unheard == {j \in Hooked : record[j] # "absent" /\ outcome[j] = "none"}

Candidates_UnfinishedOnly == Unfinished
Candidates_AllHooked == Unfinished \cup {j \in Hooked : record[j] = "terminal"}

Candidates == Unfinished \cup Unheard

Listed ==
  /\ phase = "listing"
  /\ phase' = "sweeping"
  /\ toSweep' = Candidates
  /\ wasExpired' = Candidates \cap expired
  /\ UNCHANGED <<record, outcome, expired, cutOff, announcing, deliveryVars, heard, unsure,
                 stops, faults>>

(* One candidate.  A terminal one is delivered again in a task of its own,  *)
(* one that displayed "expired" is passed over, and an unfinished one is    *)
(* written as an error and then announced; the sweep awaits that write.     *)
SweepRefires(j) ==
  /\ phase = "sweeping" /\ j \in toSweep /\ announcing = {}
  /\ record[j] = "terminal"
  /\ toSweep' = toSweep \ {j}
  /\ IF j \in wasExpired
       THEN UNCHANGED <<delivery, attempt>>
       ELSE Deliver(j)
  /\ UNCHANGED <<record, outcome, expired, phase, cutOff, wasExpired, announcing, verdict,
                 freeSlots, line, heard, unsure, stops, faults>>

SweepFails(j) ==
  /\ phase = "sweeping" /\ j \in toSweep /\ announcing = {}
  /\ record[j] = "unfinished"
  /\ toSweep' = toSweep \ {j}
  /\ record' = [record EXCEPT ![j] = "terminal"]
  /\ announcing' = {j}
  /\ UNCHANGED <<outcome, expired, phase, cutOff, wasExpired, deliveryVars, heard, unsure,
                 stops, faults>>

(* A store call of the sweep raises: the startup fails.                     *)
SweepRaises ==
  /\ \/ phase = "listing"
     \/ phase = "sweeping" /\ announcing = {} /\ \E j \in toSweep : record[j] = "unfinished"
  /\ Raise
  /\ Gone
  /\ UNCHANGED <<record, stops>>

(* The sweep is over: the server takes requests.                            *)
Serve ==
  /\ phase = "sweeping" /\ toSweep = {} /\ announcing = {}
  /\ phase' = "serving"
  /\ UNCHANGED <<record, outcome, expired, cutOff, sweepVars, announcing, deliveryVars, heard,
                 unsure, stops, faults>>

-----------------------------------------------------------------------------
DeliveryStep(j) ==
  \/ Announce(j) \/ Attempt(j) \/ TakeSlot(j) \/ PostEnds(j) \/ BackoffEnds(j)
  \/ OutcomeRecorded(j)

SweepStep == Listed \/ Serve \/ \E j \in Jobs : SweepRefires(j) \/ SweepFails(j)

Next ==
  \/ \E j \in Jobs : Submit(j) \/ Finish(j) \/ Expire(j) \/ DeliveryStep(j)
  \/ SweepStep \/ SweepRaises
  \/ Crash \/ Shutdown \/ DrainEnds \/ Exit \/ Start

Spec == Init /\ [][Next]_vars

(* Timers fire (the request's timeout, the backoff, the drain), the store   *)
(* answers, and whoever operates the gateway starts it again.               *)
FairSpec ==
  /\ Spec
  /\ \A j \in Jobs : WF_vars(DeliveryStep(j))
  /\ WF_vars(SweepStep) /\ WF_vars(DrainEnds) /\ WF_vars(Exit) /\ WF_vars(Start)

-----------------------------------------------------------------------------
(* Every variable has its type; no delivery makes more attempts than        *)
(* WEBHOOK_MAX_ATTEMPTS.                                                    *)
TypeOK ==
  /\ record \in [Jobs -> {"absent", "unfinished", "terminal"}]
  /\ outcome \in [Jobs -> {"none", "delivered", "failed"}]
  /\ expired \subseteq Jobs
  /\ phase \in Phase
  /\ cutOff \subseteq Jobs
  /\ toSweep \subseteq Jobs /\ wasExpired \subseteq Jobs
  /\ announcing \subseteq Jobs
  /\ delivery \in [Jobs -> DeliveryState]
  /\ attempt \in [Jobs -> 0 .. MaxAttempts]
  /\ verdict \in [Jobs -> {"delivered", "failed"}]
  /\ freeSlots \in 0 .. SlotCap
  /\ line \in Seq(Jobs)
  /\ heard \in [Jobs -> Nat]
  /\ unsure \in [Jobs -> Nat]
  /\ stops \in 0 .. MaxStops
  /\ faults \in 0 .. StoreFaults

(* webhook_status "delivered" is true: the receiver answered 2xx.           *)
DeliveredIsTrue == \A j \in Jobs : outcome[j] = "delivered" => heard[j] > unsure[j]

(* At least once, and no more often than needed: a receiver that answered   *)
(* 2xx is called again only if that answer was lost, or if a crash or a     *)
(* store that raised kept the outcome from being recorded.                  *)
DuplicatesExplained == \A j \in Jobs : heard[j] <= 1 + unsure[j] + stops + faults

(* A recorded outcome is the end of it, in this process and in every later  *)
(* one: nobody posts again and the outcome does not change.                 *)
OutcomeIsFinal ==
  [][\A j \in Jobs : outcome[j] # "none" => outcome'[j] = outcome[j] /\ heard'[j] = heard[j]]_vars

(* A job that is terminal has an outcome, a delivery under way, or one that *)
(* could not record its outcome.                                            *)
LookedAfter(j) ==
  \/ record[j] # "terminal"
  \/ outcome[j] # "none"
  \/ j \in announcing \/ delivery[j] \in Delivering
  \/ delivery[j] = "over" /\ faults > 0

(* A restart leaves no finished job whose receiver was not heard of: each   *)
(* has its webhook fired again, one whose result has expired included.      *)
NobodyForgotten ==
  phase \in {"serving", "draining"} => \A j \in Hooked : LookedAfter(j)

(* What the sweep does achieve: after any crashes, shutdowns and store      *)
(* faults, only an expired result is passed over.                           *)
OnlyExpiredForgotten ==
  phase \in {"serving", "draining"} => \A j \in Hooked \ expired : LookedAfter(j)

(* max_concurrent_webhooks bounds the requests in flight, and a slot is     *)
(* taken exactly while a request is in flight.                              *)
SlotsHeldByRequests ==
  SlotCap > 0 => freeSlots + Cardinality({j \in Jobs : delivery[j] = "posting"}) = SlotCap

(* Every finished job's receiver is called until it answers or every        *)
(* attempt is spent, whatever stops the process in between.                 *)
EveryOutcomeRecorded == \A j \in Hooked : record[j] = "terminal" ~> outcome[j] # "none"

=============================================================================
