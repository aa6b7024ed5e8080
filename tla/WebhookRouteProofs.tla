-------------------------- MODULE WebhookRouteProofs --------------------------
(***************************************************************************)
(* Theorems about WebhookRoute, for any jobs, slots, attempts, settings,   *)
(* stops and faults: no process connects where it must not, the route      *)
(* leaves WebhookDelivery what it is, and only a wait for a slot makes a   *)
(* signature old.                                                          *)
(***************************************************************************)
EXTENDS WebhookRoute, WebhookDeliveryProofs

(* A process that may not call a private address neither is connected to    *)
(* one nor has one to connect to; and when no process runs there is no      *)
(* delivery and no connection, so the next one may have other settings.     *)
NothingPrivate ==
  ~allows => \A j \in Jobs : conn[j] # "private" /\ "private" \notin found[j]

NothingWhileDown ==
  phase = "down" =>
    /\ announcing = {}
    /\ \A j \in Jobs : delivery[j] = "none" /\ conn[j] = "none" /\ found[j] = {}

RouteInv ==
  /\ delivery \in [Jobs -> DeliveryState]
  /\ conn \in [Jobs -> Address \cup {"none"}]
  /\ found \in [Jobs -> SUBSET Address]
  /\ NothingPrivate
  /\ NothingWhileDown

-----------------------------------------------------------------------------
(* What the delivery's steps do to the two variables the invariant reads.   *)
DeliveryRuns == /\ phase # "down" /\ phase' = phase
                /\ delivery' \in [Jobs -> DeliveryState]

LEMMA RetryType ==
  ASSUME delivery \in [Jobs -> DeliveryState], NEW j \in Jobs, NEW how, AfterPost(j, how)
  PROVE  delivery' \in [Jobs -> DeliveryState]
<1>1. CASE \E v : Settle(j, v)
  BY <1>1 DEF Settle, DeliveryState, Delivering
<1>2. CASE Retry(j)
  BY <1>2 DEF Retry, Settle, DeliveryState, Delivering
<1> QED
  BY <1>1, <1>2 DEF AfterPost

LEMMA PostEndsRuns ==
  ASSUME RouteInv, NEW j \in Jobs, NEW how, PostEndsWith(j, how)
  PROVE  DeliveryRuns
BY RetryType DEF PostEndsWith, DeliveryRuns, RouteInv, NothingWhileDown

LEMMA AttemptRuns ==
  ASSUME RouteInv, NEW j \in Jobs, Attempt(j) \/ TakeSlot(j)
  PROVE  DeliveryRuns
BY DEF Attempt, TakeSlot, DeliveryRuns, RouteInv, NothingWhileDown, DeliveryState, Delivering

LEMMA EndsKeeps ==
  ASSUME RouteInv, NEW j \in Jobs, NEW how, Ends(j, how), UNCHANGED conn
  PROVE  RouteInv'
<1>1. DeliveryRuns
  BY PostEndsRuns DEF Ends
<1> QED
  BY <1>1 DEF Ends, DeliveryRuns, RouteInv, NothingPrivate, NothingWhileDown

LEMMA RequestKeeps ==
  ASSUME RouteInv, NEW j \in Jobs, Request(j)
  PROVE  RouteInv'
<1>1. CASE Lookup(j)
  <2>1. PICK addresses \in SUBSET Address :
          \/ \E how : Ends(j, how) /\ UNCHANGED conn
          \/ /\ ~Blocked(addresses)
             /\ found' = [found EXCEPT ![j] = addresses]
             /\ UNCHANGED <<vars, allows, conn>>
    BY <1>1 DEF Lookup
  <2>2. CASE \E how : Ends(j, how) /\ UNCHANGED conn
    BY <2>2, EndsKeeps
  <2>3. CASE /\ ~Blocked(addresses)
             /\ found' = [found EXCEPT ![j] = addresses]
             /\ UNCHANGED <<vars, allows, conn>>
    BY <1>1, <2>3
    DEF Lookup, Blocked, vars, deliveryVars, RouteInv, NothingPrivate, NothingWhileDown
  <2> QED
    BY <2>1, <2>2, <2>3
<1>2. CASE Connect(j)
  <2>1. CASE \E how : Ends(j, how) /\ UNCHANGED conn
    BY <2>1, EndsKeeps
  <2>2. ASSUME NEW a \in found[j], conn' = [conn EXCEPT ![j] = a],
               found' = [found EXCEPT ![j] = {}], UNCHANGED <<vars, allows>>
        PROVE  RouteInv'
    BY <1>2, <2>2
    DEF Connect, vars, deliveryVars, RouteInv, NothingPrivate, NothingWhileDown
  <2> QED
    BY <1>2, <2>1, <2>2 DEF Connect, Targets
<1>3. CASE Response(j)
  <2>1. PICK how : Ends(j, how)
    BY <1>3 DEF Response
  <2>2. DeliveryRuns
    BY <2>1, PostEndsRuns DEF Ends
  <2> QED
    BY <1>3, <2>1, <2>2
    DEF Response, Ends, DeliveryRuns, RouteInv, NothingPrivate, NothingWhileDown
<1>4. CASE Broken(j)
  BY <1>4, EndsKeeps DEF Broken
<1> QED
  BY <1>1, <1>2, <1>3, <1>4 DEF Request

LEMMA BeginKeeps ==
  ASSUME RouteInv, NEW j \in Jobs, AttemptBegins(j) \/ SlotTaken(j)
  PROVE  RouteInv'
<1>1. DeliveryRuns
  BY AttemptRuns DEF AttemptBegins, SlotTaken
<1>2. UNCHANGED <<allows, found>>
  BY DEF AttemptBegins, SlotTaken
<1>3. conn' = conn \/ conn' = [conn EXCEPT ![j] = "none"]
  BY DEF AttemptBegins, SlotTaken, Begin
<1> QED
  BY <1>1, <1>2, <1>3 DEF DeliveryRuns, RouteInv, NothingPrivate, NothingWhileDown

LEMMA OtherStepKeeps ==
  ASSUME RouteInv, NEW j \in Jobs, OtherStep(j)
  PROVE  RouteInv'
<1>1. CASE Submit(j) \/ Finish(j) \/ Expire(j)
  BY <1>1 DEF OtherStep, Submit, Finish, Expire, deliveryVars, path, RouteInv, NothingPrivate,
              NothingWhileDown
<1>2. CASE Announce(j) \/ BackoffEnds(j) \/ OutcomeRecorded(j)
  BY <1>2 DEF OtherStep, Announce, Deliver, BackoffEnds, OutcomeRecorded, path, DeliveryState,
              Delivering, RouteInv, NothingPrivate, NothingWhileDown
<1> QED
  BY <1>1, <1>2 DEF OtherStep

LEMMA ProcessStepKeeps ==
  ASSUME RouteInv, ProcessStep
  PROVE  RouteInv'
<1>1. CASE (SweepStep \/ Shutdown) /\ UNCHANGED <<allows, path, times>>
  <2>1. delivery' \in [Jobs -> DeliveryState] /\ phase # "down" /\ phase' # "down"
    BY <1>1 DEF SweepStep, Shutdown, Listed, Serve, SweepRefires, SweepFails, Deliver,
                deliveryVars, DeliveryState, Delivering, RouteInv
  <2> QED
    BY <1>1, <2>1 DEF path, RouteInv, NothingPrivate, NothingWhileDown
<1>2. CASE ClientCloses
  BY <1>2 DEF ClientCloses, DrainEnds, deliveryVars, RouteInv, NothingPrivate, NothingWhileDown
<1>3. CASE Stopped
  <2>1. Gone
    BY <1>3 DEF Stopped, Crash, Exit, SweepRaises
  <2> QED
    BY <1>3, <2>1 DEF Stopped, Gone, DeliveryState, RouteInv, NothingPrivate, NothingWhileDown
<1>4. CASE Restarted
  BY <1>4 DEF Restarted, Start, deliveryVars, path, RouteInv, NothingPrivate, NothingWhileDown
<1> QED
  BY <1>1, <1>2, <1>3, <1>4 DEF ProcessStep

LEMMA RouteInvKept == RouteSpec => []RouteInv
<1>1. RouteInit => RouteInv
  BY DEF RouteInit, Init, DeliveryState, RouteInv, NothingPrivate, NothingWhileDown
<1>2. RouteInv /\ [RouteNext]_routeVars => RouteInv'
  <2> SUFFICES ASSUME RouteInv, [RouteNext]_routeVars
               PROVE  RouteInv'
    OBVIOUS
  <2>1. CASE Tick \/ UNCHANGED routeVars
    BY <2>1 DEF Tick, routeVars, vars, deliveryVars, path, RouteInv, NothingPrivate,
                NothingWhileDown
  <2> QED
    BY <2>1, ProcessStepKeeps, RequestKeeps, BeginKeeps, OtherStepKeeps DEF RouteNext, RouteStep
<1> QED
  BY <1>1, <1>2, PTL DEF RouteSpec

(* No process that may not call a private address ever has a connection to  *)
(* one, though names change their addresses between the check and the       *)
(* connect, and an earlier process may have been allowed to.                *)
THEOREM NeverWhereForbidden == RouteSpec => []ConnectsOnlyWhereAllowed
<1>1. RouteInv => ConnectsOnlyWhereAllowed
  BY DEF RouteInv, NothingPrivate, ConnectsOnlyWhereAllowed
<1> QED
  BY <1>1, RouteInvKept, PTL

-----------------------------------------------------------------------------
(* The route implements WebhookDelivery: every step on the way of a request *)
(* is a step of its delivery or none, so what is proved of deliveries over  *)
(* restarts holds with the guard, the connections and the clock added.      *)
THEOREM RouteImplementsDelivery == RouteSpec => Spec
<1>1. RouteInit => Init
  BY DEF RouteInit
<1>2. [RouteNext]_routeVars => [Next]_vars
  <2> SUFFICES ASSUME [RouteNext]_routeVars
               PROVE  [Next]_vars
    OBVIOUS
  <2>1. ASSUME NEW j \in Jobs, NEW how, Ends(j, how)
        PROVE  PostEnds(j)
    BY <2>1 DEF Ends, PostEndsWith, PostEnds, AfterPost
  <2>2. ASSUME NEW j \in Jobs, Request(j)
        PROVE  PostEnds(j) \/ UNCHANGED vars
    BY <2>1, <2>2 DEF Request, Lookup, Connect, Response, Broken
  <2>3. ASSUME NEW j \in Jobs, RouteStep(j)
        PROVE  Submit(j) \/ Finish(j) \/ Expire(j) \/ DeliveryStep(j) \/ UNCHANGED vars
    BY <2>2, <2>3 DEF RouteStep, AttemptBegins, SlotTaken, OtherStep, DeliveryStep
  <2>4. ASSUME ProcessStep
        PROVE  SweepStep \/ SweepRaises \/ Crash \/ Shutdown \/ DrainEnds \/ Exit \/ Start
    BY <2>4 DEF ProcessStep, ClientCloses, Stopped, Restarted
  <2> QED
    BY <2>3, <2>4 DEF RouteNext, Tick, routeVars, Next
<1> QED
  BY <1>1, <1>2, PTL DEF RouteSpec, Spec

-----------------------------------------------------------------------------
(* The age of a signature.  A request that is still to leave, and did not   *)
(* queue for its slot, was signed in this tick or in the one before.        *)
OnItsWay(j) == hop[j] \in {"resolving", "connecting"}

Young(j) ==
  /\ hop[j] # "none" => delivery[j] = "posting"
  /\ \/ j \in waited \/ age[j] = 0
     \/ age[j] = 1 /\ OnItsWay(j) /\ j \notin fresh

AgeInv == /\ hop \in [Jobs -> Hop] /\ age \in [Jobs -> Nat]
          /\ \A j \in Jobs : Young(j)

(* What the steps of its delivery leave of a job on its way.                *)
LEMMA YoungElsewhere ==
  ASSUME AgeInv, NEW k \in Jobs, UNCHANGED times, hop'[k] = hop[k],
         hop[k] # "none" => delivery'[k] = "posting"
  PROVE  Young(k)'
BY DEF AgeInv, Young, OnItsWay, times

(* A step of job j's route concerns j only.                                 *)
LEMMA YoungOthers ==
  ASSUME AgeInv, NEW k \in Jobs, hop'[k] = hop[k], age'[k] = age[k], delivery'[k] = delivery[k],
         k \in waited' <=> k \in waited, k \in fresh' <=> k \in fresh
  PROVE  Young(k)'
BY DEF AgeInv, Young, OnItsWay

LEMMA RouteStepAges ==
  ASSUME DeliveryInv, AgeInv, NEW j \in Jobs, AttemptBegins(j) \/ SlotTaken(j) \/ Request(j)
  PROVE  AgeInv'
<1>0. TypeOK /\ Shape
  BY DEF DeliveryInv, Shape
<1> USE DEF AgeInv
<1>1. ASSUME NEW a \in Nat, Begin(j, a), delivery' = [delivery EXCEPT ![j] = "posting"],
             a = 0 \/ j \in waited
      PROVE  AgeInv'
  <2>1. hop' \in [Jobs -> Hop] /\ age' \in [Jobs -> Nat]
    BY <1>1 DEF Begin, Leave, Hop
  <2>2. Young(j)'
    BY <1>0, <1>1 DEF Begin, Leave, Young, OnItsWay, TypeOK
  <2>3. ASSUME NEW k \in Jobs \ {j} PROVE Young(k)'
    <3>1. hop'[k] = hop[k] /\ age'[k] = age[k] /\ delivery'[k] = delivery[k]
      BY <1>0, <1>1 DEF Begin, Leave, TypeOK
    <3>2. (k \in waited' <=> k \in waited) /\ (k \in fresh' <=> k \in fresh)
      BY <1>1 DEF Begin, Leave
    <3> QED
      BY <3>1, <3>2, YoungOthers
  <2> QED
    BY <2>1, <2>2, <2>3
<1>2. ASSUME NEW how, Ends(j, how)
      PROVE  AgeInv'
  <2>1. hop' \in [Jobs -> Hop] /\ age' \in [Jobs -> Nat]
    BY <1>2 DEF Ends, Hop
  <2>2. Young(j)'
    BY <1>2 DEF Ends, Young
  <2>3. \E st \in {"recording", "backoff"} : delivery' = [delivery EXCEPT ![j] = st]
    BY <1>0, <1>2, PostEndsSo DEF Ends
  <2>4. ASSUME NEW k \in Jobs \ {j} PROVE Young(k)'
    <3>1. hop'[k] = hop[k] /\ age'[k] = age[k] /\ delivery'[k] = delivery[k]
      BY <1>0, <1>2, <2>3 DEF Ends, TypeOK
    <3>2. (k \in waited' <=> k \in waited) /\ (k \in fresh' <=> k \in fresh)
      BY <1>2 DEF Ends
    <3> QED
      BY <3>1, <3>2, YoungOthers
  <2> QED
    BY <2>1, <2>2, <2>4
<1>3. CASE AttemptBegins(j)
  <2>1. delivery[j] = "starting"
    BY <1>3 DEF AttemptBegins, Attempt
  <2>2. CASE delivery'[j] = "posting"
    <3>1. Begin(j, 0)
      BY <1>3, <2>2 DEF AttemptBegins, SignedAge
    <3>2. delivery' = [delivery EXCEPT ![j] = "posting"]
      BY <1>0, <1>3, <2>2 DEF AttemptBegins, Attempt, TypeOK
    <3> QED
      BY <1>1, <3>1, <3>2
  <2>3. CASE delivery'[j] # "posting"
    <3>1. /\ age' = [age EXCEPT ![j] = 0] /\ waited' = waited \cup {j}
          /\ UNCHANGED <<hop, fresh>>
      BY <1>3, <2>3 DEF AttemptBegins, SignedAge
    <3>2. delivery' = [delivery EXCEPT ![j] = "queued"]
      BY <1>0, <1>3, <2>3 DEF AttemptBegins, Attempt, TypeOK
    <3>3. ASSUME NEW k \in Jobs \ {j} PROVE Young(k)'
      <4>1. hop'[k] = hop[k] /\ age'[k] = age[k] /\ delivery'[k] = delivery[k]
        BY <1>0, <3>1, <3>2 DEF TypeOK
      <4>2. (k \in waited' <=> k \in waited) /\ (k \in fresh' <=> k \in fresh)
        BY <3>1
      <4> QED
        BY <4>1, <4>2, YoungOthers
    <3>4. Young(j)'
      BY <2>1, <3>1 DEF Young
    <3> QED
      BY <3>1, <3>3, <3>4
  <2> QED
    BY <2>2, <2>3
<1>4. CASE SlotTaken(j)
  <2>1. delivery[j] = "queued" /\ Begin(j, age[j]) /\ delivery' = [delivery EXCEPT ![j] = "posting"]
    BY <1>4 DEF SlotTaken, TakeSlot
  <2>2. age[j] \in Nat /\ (age[j] = 0 \/ j \in waited)
    BY <2>1 DEF Young, OnItsWay
  <2> QED
    BY <1>1, <2>1, <2>2
<1>5. CASE Request(j)
  <2>1. CASE \E how : Ends(j, how)
    BY <1>2, <2>1
  <2>2. CASE /\ delivery[j] = "posting" /\ hop[j] = "resolving"
             /\ hop' = [hop EXCEPT ![j] = "connecting"] /\ UNCHANGED <<vars, times>>
    <3>1. ASSUME NEW k \in Jobs \ {j} PROVE Young(k)'
      BY <2>2, <3>1, YoungElsewhere DEF vars, deliveryVars, Young
    <3>2. Young(j)'
      BY <2>2 DEF vars, deliveryVars, times, Young, OnItsWay
    <3>3. hop' \in [Jobs -> Hop] /\ age' \in [Jobs -> Nat]
      BY <2>2 DEF times, Hop
    <3> QED
      BY <3>1, <3>2, <3>3
  <2>3. CASE delivery[j] = "posting" /\ Leave(j) /\ UNCHANGED vars
    <3>1. hop' \in [Jobs -> Hop] /\ age' \in [Jobs -> Nat]
      BY <2>3 DEF Leave, Hop
    <3>2. Young(j)'
      BY <2>3 DEF Leave, vars, deliveryVars, Young
    <3>3. ASSUME NEW k \in Jobs \ {j} PROVE Young(k)'
      BY <2>3, YoungOthers DEF Leave, vars, deliveryVars
    <3> QED
      BY <3>1, <3>2, <3>3
  <2> QED
    BY <1>5, <2>1, <2>2, <2>3 DEF Request, Lookup, Connect, Response, Broken
<1> QED
  BY <1>3, <1>4, <1>5

LEMMA AgeStep ==
  ASSUME DeliveryInv, AgeInv, [RouteNext]_routeVars
  PROVE  AgeInv'
<1>0. TypeOK
  BY DEF DeliveryInv
<1>1. ASSUME NEW j \in Jobs, RouteStep(j)
      PROVE  AgeInv'
  <2>1. CASE AttemptBegins(j) \/ SlotTaken(j) \/ Request(j)
    BY <2>1, RouteStepAges
  <2>2. CASE OtherStep(j)
    <3>1. UNCHANGED <<hop, age>> /\ UNCHANGED times
      BY <2>2 DEF OtherStep, path, times
    <3>2. delivery' = delivery \/ (delivery[j] # "posting" /\ \E st : delivery' = [delivery EXCEPT ![j] = st])
      BY <2>2 DEF OtherStep, Submit, Finish, Expire, Announce, Deliver, BackoffEnds, OutcomeRecorded,
         deliveryVars, DeliveryInv, OnceInv, Once
    <3>3. ASSUME NEW k \in Jobs PROVE Young(k)'
      <4>1. hop[k] # "none" => delivery'[k] = "posting"
        BY <1>0, <3>2 DEF AgeInv, Young, TypeOK
      <4> QED
        BY <3>1, <4>1, YoungElsewhere
    <3> QED
      BY <3>1, <3>3 DEF AgeInv
  <2> QED
    BY <1>1, <2>1, <2>2 DEF RouteStep
<1>2. CASE (SweepStep \/ Shutdown) /\ UNCHANGED <<allows, path, times>>
  <2>1. UNCHANGED <<hop, age>> /\ UNCHANGED times
    BY <1>2 DEF path, times
  <2>2. ASSUME NEW k \in Jobs, delivery[k] = "posting"
        PROVE  delivery'[k] = "posting"
    <3>1. CASE \E j \in Jobs : SweepRefires(j)
      BY <1>0, <2>2, <3>1 DEF SweepRefires, Deliver, DeliveryInv, OnceInv, Once, TypeOK
    <3>2. CASE Listed \/ Serve \/ Shutdown \/ \E j \in Jobs : SweepFails(j)
      BY <2>2, <3>2 DEF Listed, Serve, Shutdown, SweepFails, deliveryVars
    <3> QED
      BY <1>2, <3>1, <3>2 DEF SweepStep
  <2>3. ASSUME NEW k \in Jobs PROVE Young(k)'
    BY <2>1, <2>2, YoungElsewhere DEF AgeInv, Young
  <2> QED
    BY <2>1, <2>3 DEF AgeInv
<1>3. CASE ClientCloses \/ Restarted \/ UNCHANGED routeVars
  <2>1. UNCHANGED <<hop, age, delivery>> /\ UNCHANGED times
    BY <1>3 DEF ClientCloses, Restarted, routeVars, path, times, vars, deliveryVars, DrainEnds, Start
  <2>2. ASSUME NEW k \in Jobs PROVE Young(k)'
    BY <2>1, YoungElsewhere DEF AgeInv, Young
  <2> QED
    BY <2>1, <2>2 DEF AgeInv
<1>4. CASE Stopped
  BY <1>4 DEF Stopped, AgeInv, Young, Hop
<1>5. CASE Tick
  <2>1. UNCHANGED <<hop, delivery, waited>> /\ fresh' = {}
    BY <1>5 DEF Tick, path, vars, deliveryVars
  <2>2. age' \in [Jobs -> Nat]
    BY <1>5 DEF Tick, AgeInv
  <2>3. ASSUME NEW k \in Jobs PROVE Young(k)'
    <3>1. Young(k) /\ age[k] \in Nat
      BY DEF AgeInv
    <3>2. OnItsWay(k) => k \in fresh
      BY <1>5 DEF Tick, OnItsWay
    <3>3. k \notin waited => age'[k] = age[k] \/ (OnItsWay(k) /\ age'[k] = age[k] + 1)
      BY <1>5 DEF Tick, OnItsWay
    <3> QED
      BY <2>1, <3>1, <3>2, <3>3 DEF Young, OnItsWay
  <2> QED
    BY <2>1, <2>2, <2>3 DEF AgeInv
<1> QED
  BY <1>1, <1>2, <1>3, <1>4, <1>5 DEF RouteNext, ProcessStep

(* What is proved of deliveries holds on their route.                       *)
LEMMA RouteDelivers == RouteSpec => []DeliveryInv
BY RouteImplementsDelivery, DeliveryInvKept, PTL

LEMMA AgeInvKept == RouteSpec => [](DeliveryInv /\ AgeInv)
<1>1. RouteInit => AgeInv
  BY DEF RouteInit, AgeInv, Young, Hop
<1>2. DeliveryInv /\ AgeInv /\ [RouteNext]_routeVars => AgeInv'
  BY AgeStep
<1> QED
  BY <1>1, <1>2, RouteDelivers, PTL DEF RouteSpec

(* Every attempt is signed anew, so a request that leaves with a timestamp  *)
(* its receiver refuses had to queue for its slot: a retry's backoff, an    *)
(* open connection or a restart never makes it old.  The tolerance is a     *)
(* tick at least (WEBHOOK_TIMEOUT_SECONDS is below 300).                    *)
THEOREM OnlyQueueingMakesStale ==
  ASSUME Tolerance > 0
  PROVE  RouteSpec => StaleOnlyIfQueued
<1> DEFINE Fine(j) == Leaves(j) => age[j] <= Tolerance \/ j \in waited
<1>1. AgeInv => \A j \in Jobs : Fine(j)
  BY RouteAssumption DEF AgeInv, Young
<1>2. (DeliveryInv /\ AgeInv) /\ [RouteNext]_routeVars => [\A j \in Jobs : Fine(j)]_routeVars
  BY <1>1
<1> QED
  BY <1>2, AgeInvKept, PTL DEF RouteSpec, StaleOnlyIfQueued

(* Every variable of the route has its type; no age is told apart above the *)
(* tolerance.                                                               *)
Ages == /\ allows \in BOOLEAN
        /\ age \in [Jobs -> 0 .. Tolerance + 1]
        /\ waited \subseteq Jobs /\ fresh \subseteq Jobs

THEOREM RouteTyped == RouteSpec => []RouteTypeOK
<1>1. RouteInit => Ages
  BY RouteAssumption DEF RouteInit, Ages
<1>2. Ages /\ [RouteNext]_routeVars => Ages'
  <2> SUFFICES ASSUME Ages, [RouteNext]_routeVars
               PROVE  Ages'
    OBVIOUS
  <2> USE RouteAssumption DEF Ages
  <2>1. ASSUME NEW j \in Jobs, NEW how, Ends(j, how) PROVE Ages'
    BY <2>1 DEF Ends
  <2>2. ASSUME NEW j \in Jobs, NEW a \in 0 .. Tolerance + 1, Begin(j, a), UNCHANGED allows
        PROVE  Ages'
    BY <2>2 DEF Begin, Leave
  <2>3. ASSUME NEW j \in Jobs, AttemptBegins(j) PROVE Ages'
    BY <2>2, <2>3 DEF AttemptBegins, SignedAge
  <2>4. ASSUME NEW j \in Jobs, SlotTaken(j) PROVE Ages'
    BY <2>2, <2>4 DEF SlotTaken
  <2>5. ASSUME NEW j \in Jobs, Request(j) PROVE Ages'
    BY <2>1, <2>5 DEF Request, Lookup, Connect, Response, Broken, Leave, times
  <2>6. ASSUME NEW j \in Jobs, OtherStep(j) PROVE Ages'
    BY <2>6 DEF OtherStep, times
  <2>7. CASE Tick
    BY <2>7 DEF Tick
  <2>8. CASE ProcessStep
    BY <2>8 DEF ProcessStep, ClientCloses, Stopped, Restarted, times
  <2>9. CASE UNCHANGED routeVars
    BY <2>9 DEF routeVars, times
  <2> QED
    BY <2>3, <2>4, <2>5, <2>6, <2>7, <2>8, <2>9 DEF RouteNext, RouteStep
<1>3. RouteInv /\ AgeInv /\ Ages => RouteTypeOK
  BY DEF RouteInv, AgeInv, Ages, RouteTypeOK
<1> QED
  BY <1>1, <1>2, <1>3, RouteInvKept, AgeInvKept, PTL DEF RouteSpec

=============================================================================
