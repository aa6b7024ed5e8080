------------------------ MODULE WebhookDeliveryProofs ------------------------
(***************************************************************************)
(* Webhook delivery over restarts, for any number of jobs, slots,          *)
(* attempts, crashes, shutdowns and store faults: what is recorded is      *)
(* true and final, a duplicate has its reason, only an expired result is   *)
(* passed over, and the slots are those of the requests in flight.         *)
(***************************************************************************)
EXTENDS WebhookDelivery, FiniteSetTheorems, TLAPS

-----------------------------------------------------------------------------
(* The line is the queue of the deliveries that wait for a slot.            *)
LineInv ==
  /\ \A j \in Jobs : delivery[j] = "queued" <=> \E i \in 1 .. Len(line) : line[i] = j
  /\ \A i, k \in 1 .. Len(line) : line[i] = line[k] => i = k

Posting == {j \in Jobs : delivery[j] = "posting"}

SlotInv == SlotCap > 0 => freeSlots + Cardinality(Posting) = SlotCap

(* A process delivers a job once, and only one that is terminal, has no     *)
(* outcome yet and waits neither for the sweep nor for its announcement.    *)
Once(j) ==
  /\ record[j] # "terminal" => outcome[j] = "none"
  /\ j \in toSweep => phase = "sweeping" /\ record[j] # "absent" /\ delivery[j] = "none"
                      /\ j \notin announcing /\ outcome[j] = "none"
  /\ j \in announcing => record[j] = "terminal" /\ delivery[j] = "none" /\ outcome[j] = "none"
  /\ delivery[j] # "none" => record[j] = "terminal"
  /\ delivery[j] \in Delivering => outcome[j] = "none"
  /\ phase \in {"down", "listing"} => delivery[j] = "none" /\ j \notin announcing

OnceInv == \A j \in Jobs : Once(j)

(* A 2xx that arrived is behind every "delivered".                          *)
True(j) ==
  /\ unsure[j] <= heard[j]
  /\ delivery[j] = "recording" /\ verdict[j] = "delivered" => unsure[j] < heard[j]
  /\ outcome[j] = "delivered" => unsure[j] < heard[j]

(* Every process before this one, and this one once its delivery is done,   *)
(* accounts for one answer at most, and ended in a stop or a fault.         *)
Ended == IF phase \in {"draining", "closed"} THEN stops - 1 ELSE stops

Explained(j) ==
  heard[j] <= unsure[j] + Ended + faults + (IF delivery[j] \in {"recording", "over"} THEN 1 ELSE 0)

HeardInv == /\ phase \in {"draining", "closed"} => stops > 0
            /\ \A j \in Jobs : True(j) /\ Explained(j)

(* From the listing on a hooked job is looked after, or still to be swept.  *)
Looked(j) == LookedAfter(j) \/ (j \in toSweep /\ j \notin wasExpired)

LookInv ==
  /\ wasExpired \subseteq expired
  /\ phase \in {"sweeping", "serving", "draining"} => \A j \in Hooked \ expired : Looked(j)

DeliveryInv == TypeOK /\ LineInv /\ SlotInv /\ OnceInv /\ HeardInv /\ LookInv

-----------------------------------------------------------------------------
(* The line and the slots.                                                  *)

LEMMA PostingFinite == IsFiniteSet(Posting) /\ Cardinality(Posting) \in Nat
<1>1. Posting \in SUBSET Jobs
  BY DEF Posting
<1> QED
  BY <1>1, FS_Subset, FS_CardinalityType, ConstantsAssumption

LEMMA LineSame ==
  ASSUME LineInv, UNCHANGED line, \A j \in Jobs : delivery'[j] = "queued" <=> delivery[j] = "queued"
  PROVE  LineInv'
BY DEF LineInv

LEMMA SlotsSame ==
  ASSUME SlotInv, UNCHANGED freeSlots, \A j \in Jobs : delivery'[j] = "posting" <=> delivery[j] = "posting"
  PROVE  SlotInv'
<1>1. Posting' = Posting
  BY DEF Posting
<1> QED
  BY <1>1 DEF SlotInv

LEMMA LineJoined ==
  ASSUME TypeOK, LineInv, NEW j \in Jobs, delivery[j] # "queued", line' = Append(line, j),
         delivery' = [delivery EXCEPT ![j] = "queued"]
  PROVE  LineInv' /\ line' \in Seq(Jobs)
<1>1. /\ line \in Seq(Jobs) /\ line' \in Seq(Jobs) /\ Len(line') = Len(line) + 1
      /\ line'[Len(line) + 1] = j /\ \A i \in 1 .. Len(line) : line'[i] = line[i]
  BY DEF TypeOK
<1>2. \A i \in 1 .. Len(line) : line[i] # j
  BY DEF LineInv
<1>3. /\ Len(line) \in Nat
      /\ \A i \in 1 .. Len(line') : i \in 1 .. Len(line) \/ i = Len(line) + 1
      /\ \A i \in 1 .. Len(line) : i \in 1 .. Len(line')
      /\ Len(line) + 1 \in 1 .. Len(line')
  BY <1>1
<1>4. ASSUME NEW k \in Jobs
      PROVE  delivery'[k] = "queued" <=> \E i \in 1 .. Len(line') : line'[i] = k
  <2>1. CASE k = j
    BY <1>1, <1>3, <2>1 DEF TypeOK
  <2>2. CASE k # j
    <3>1. delivery'[k] = delivery[k]
      BY <2>2 DEF TypeOK
    <3> QED
      BY <1>1, <1>3, <2>2, <3>1 DEF LineInv
  <2> QED
    BY <2>1, <2>2
<1>5. \A i, k \in 1 .. Len(line') : line'[i] = line'[k] => i = k
  BY <1>1, <1>2, <1>3 DEF LineInv
<1> QED
  BY <1>1, <1>4, <1>5 DEF LineInv

LEMMA LineLeft ==
  ASSUME TypeOK, LineInv, NEW j \in Jobs, delivery[j] = "queued", Head(line) = j, line' = Tail(line),
         NEW s \in DeliveryState \ {"queued"}, delivery' = [delivery EXCEPT ![j] = s]
  PROVE  LineInv' /\ line' \in Seq(Jobs)
<1>1. line \in Seq(Jobs) /\ line # << >> /\ Len(line) \in Nat
  BY DEF TypeOK, LineInv
<1>2. /\ line' \in Seq(Jobs) /\ Len(line') = Len(line) - 1 /\ line[1] = j
      /\ \A i \in 1 .. Len(line') : line'[i] = line[i + 1]
  BY <1>1
<1>3. /\ \A i \in 1 .. Len(line') : i + 1 \in 1 .. Len(line) /\ i + 1 # 1
      /\ 1 \in 1 .. Len(line)
      /\ \A i \in 1 .. Len(line) : i = 1 \/ i - 1 \in 1 .. Len(line')
  BY <1>1, <1>2
<1>4. ASSUME NEW k \in Jobs
      PROVE  delivery'[k] = "queued" <=> \E i \in 1 .. Len(line') : line'[i] = k
  <2>1. CASE k = j
    <3>1. \A i \in 1 .. Len(line') : line'[i] # j
      BY <1>2, <1>3 DEF LineInv
    <3> QED
      BY <2>1, <3>1 DEF TypeOK
  <2>2. CASE k # j
    <3>1. delivery'[k] = delivery[k]
      BY <2>2 DEF TypeOK
    <3>2. ASSUME NEW i \in 1 .. Len(line), line[i] = k
          PROVE  i - 1 \in 1 .. Len(line') /\ line'[i - 1] = k
      BY <1>1, <1>2, <1>3, <2>2, <3>2
    <3>3. ASSUME NEW i \in 1 .. Len(line'), line'[i] = k
          PROVE  delivery[k] = "queued"
      BY <1>2, <1>3, <3>3 DEF LineInv
    <3>4. delivery[k] = "queued" => \E i \in 1 .. Len(line') : line'[i] = k
      BY <3>2 DEF LineInv
    <3> QED
      BY <3>1, <3>3, <3>4
  <2> QED
    BY <2>1, <2>2
<1>5. \A i, k \in 1 .. Len(line') : line'[i] = line'[k] => i = k
  <2> SUFFICES ASSUME NEW i \in 1 .. Len(line'), NEW k \in 1 .. Len(line'), line'[i] = line'[k]
               PROVE  i = k
    OBVIOUS
  <2>1. i + 1 = k + 1
    BY <1>2, <1>3 DEF LineInv
  <2> QED
    BY <2>1
<1> QED
  BY <1>2, <1>4, <1>5 DEF LineInv

Shape == TypeOK /\ LineInv /\ SlotInv

(* A request begins.                                                        *)
LEMMA PostBegins ==
  ASSUME Shape, NEW j \in Jobs, delivery[j] # "posting", SlotCap > 0 => freeSlots > 0,
         delivery' = [delivery EXCEPT ![j] = "posting"],
         freeSlots' = IF SlotCap > 0 THEN freeSlots - 1 ELSE freeSlots
  PROVE  SlotInv' /\ freeSlots' \in 0 .. SlotCap
<1>1. Posting' = Posting \cup {j} /\ j \notin Posting
  BY DEF Posting, Shape, TypeOK
<1>2. Cardinality(Posting') = Cardinality(Posting) + 1
  BY <1>1, PostingFinite, FS_AddElement
<1> QED
  BY <1>2, PostingFinite, ConstantsAssumption DEF SlotInv, Shape, TypeOK

(* A request ends and gives its slot back.                                  *)
LEMMA PostGivesBack ==
  ASSUME Shape, NEW j \in Jobs, delivery[j] = "posting", NEW s \in DeliveryState \ {"posting"},
         delivery' = [delivery EXCEPT ![j] = s],
         freeSlots' = IF SlotCap > 0 THEN freeSlots + 1 ELSE freeSlots
  PROVE  SlotInv' /\ freeSlots' \in 0 .. SlotCap
<1>1. Posting' = Posting \ {j} /\ j \in Posting
  BY DEF Posting, Shape, TypeOK
<1>2. Cardinality(Posting') = Cardinality(Posting) - 1 /\ Cardinality(Posting') \in Nat
  BY <1>1, PostingFinite, FS_RemoveElement, FS_CardinalityType
<1>3. Cardinality(Posting) \in Nat /\ freeSlots \in 0 .. SlotCap /\ SlotCap \in Nat
  BY PostingFinite, ConstantsAssumption DEF Shape, TypeOK
<1>4. SlotCap > 0 => freeSlots + Cardinality(Posting) = SlotCap
  BY DEF Shape, SlotInv
<1>5. freeSlots' \in 0 .. SlotCap
  BY <1>2, <1>3, <1>4
<1> QED
  BY <1>2, <1>3, <1>4, <1>5 DEF SlotInv

(* A step that no delivery takes.                                           *)
LEMMA ElsewhereShaped ==
  ASSUME Shape, UNCHANGED deliveryVars, TypeOK'
  PROVE  Shape'
BY LineSame, SlotsSame DEF Shape, deliveryVars

LEMMA ShapeElsewhere ==
  ASSUME Shape,
         \/ \E j \in Jobs : Submit(j) \/ Finish(j) \/ Expire(j) \/ SweepFails(j)
         \/ Listed \/ Serve \/ Shutdown \/ DrainEnds \/ Start \/ UNCHANGED vars
  PROVE  Shape'
<1> USE DEF Shape
<1>1. ASSUME NEW j \in Jobs, Submit(j) \/ Finish(j) \/ Expire(j) \/ SweepFails(j)
      PROVE  Shape'
  <2>1. UNCHANGED deliveryVars /\ UNCHANGED <<outcome, cutOff, wasExpired, heard, unsure, stops, faults>>
    BY <1>1 DEF Submit, Finish, Expire, SweepFails, sweepVars
  <2>2. /\ record' \in [Jobs -> {"absent", "unfinished", "terminal"}] /\ expired' \subseteq Jobs
        /\ phase' = phase /\ toSweep' \subseteq Jobs /\ announcing' \subseteq Jobs
    BY <1>1 DEF Submit, Finish, Expire, SweepFails, sweepVars, TypeOK
  <2>3. TypeOK'
    BY <2>1, <2>2 DEF TypeOK, deliveryVars
  <2> QED
    BY <2>1, <2>3, ElsewhereShaped
<1>2. CASE Listed
  <2>1. TypeOK'
    BY <1>2, ConstantsAssumption DEF Listed, Candidates, Unfinished, Unheard, TypeOK, deliveryVars, Phase
  <2> QED
    BY <1>2, <2>1, ElsewhereShaped DEF Listed
<1>3. CASE Serve \/ Start
  <2>1. TypeOK'
    BY <1>3 DEF Serve, Start, TypeOK, deliveryVars, sweepVars, Phase
  <2> QED
    BY <1>3, <2>1, ElsewhereShaped DEF Serve, Start
<1>4. CASE Shutdown
  <2>1. TypeOK'
    BY <1>4, ConstantsAssumption DEF Shutdown, TypeOK, deliveryVars, sweepVars, Phase
  <2> QED
    BY <1>4, <2>1, ElsewhereShaped DEF Shutdown
<1>5. CASE DrainEnds
  <2>1. heard' \in [Jobs -> Nat] /\ unsure' \in [Jobs -> Nat] /\ cutOff' \subseteq Jobs /\ phase' \in Phase
    BY <1>5 DEF DrainEnds, TypeOK, Phase
  <2>2. TypeOK'
    BY <1>5, <2>1 DEF DrainEnds, TypeOK, deliveryVars, sweepVars
  <2> QED
    BY <1>5, <2>2, ElsewhereShaped DEF DrainEnds
<1>6. CASE UNCHANGED vars
  <2>1. TypeOK'
    BY <1>6 DEF vars, deliveryVars, sweepVars, TypeOK
  <2> QED
    BY <1>6, <2>1, ElsewhereShaped DEF vars
<1> QED
  BY <1>1, <1>2, <1>3, <1>4, <1>5, <1>6

(* A step of one delivery that takes and gives no slot and joins no line.   *)
LEMMA ShapeSame ==
  ASSUME Shape, TypeOK', NEW j \in Jobs, delivery[j] \notin {"queued", "posting"},
         NEW s \in DeliveryState \ {"queued", "posting"},
         UNCHANGED <<line, freeSlots>>,
         delivery' = [delivery EXCEPT ![j] = s]
  PROVE  Shape'
BY LineSame, SlotsSame DEF Shape, TypeOK

LEMMA AttemptOne == 1 \in 0 .. MaxAttempts
BY ConstantsAssumption

(* What a delivery's steps leave of the process.                            *)
LEMMA ShapeDelivers ==
  ASSUME Shape, OnceInv, NEW j \in Jobs, Announce(j) \/ SweepRefires(j) \/ BackoffEnds(j) \/ OutcomeRecorded(j)
  PROVE  Shape'
<1>1. CASE Announce(j)
  <2>1. delivery[j] = "none"
    BY <1>1 DEF Announce, OnceInv, Once
  <2>2. TypeOK'
    BY <1>1, AttemptOne DEF Announce, Deliver, Shape, TypeOK, sweepVars, DeliveryState, Delivering
  <2>3. CASE j \in Hooked
    BY <1>1, <2>1, <2>2, <2>3, ShapeSame DEF Announce, Deliver, DeliveryState, Delivering
  <2>4. CASE j \notin Hooked
    BY <1>1, <2>2, <2>4, ElsewhereShaped DEF Announce, deliveryVars
  <2> QED
    BY <2>3, <2>4
<1>2. CASE SweepRefires(j)
  <2>1. delivery[j] = "none"
    BY <1>2 DEF SweepRefires, OnceInv, Once
  <2>2. TypeOK'
    BY <1>2, AttemptOne DEF SweepRefires, Deliver, Shape, TypeOK, DeliveryState, Delivering
  <2>3. CASE j \notin wasExpired
    BY <1>2, <2>1, <2>2, <2>3, ShapeSame DEF SweepRefires, Deliver, DeliveryState, Delivering
  <2>4. CASE j \in wasExpired
    BY <1>2, <2>2, <2>4, ElsewhereShaped DEF SweepRefires, deliveryVars
  <2> QED
    BY <2>3, <2>4
<1>3. CASE BackoffEnds(j)
  <2>1. TypeOK'
    BY <1>3 DEF BackoffEnds, Shape, TypeOK, sweepVars, DeliveryState, Delivering
  <2> QED
    BY <1>3, <2>1, ShapeSame DEF BackoffEnds, DeliveryState, Delivering
<1>4. CASE OutcomeRecorded(j)
  <2>1. faults' \in 0 .. StoreFaults
    BY <1>4, ConstantsAssumption DEF OutcomeRecorded, Raise, Shape, TypeOK
  <2>2. outcome' \in [Jobs -> {"none", "delivered", "failed"}]
    BY <1>4 DEF OutcomeRecorded, Shape, TypeOK
  <2>3. TypeOK'
    BY <1>4, <2>1, <2>2 DEF OutcomeRecorded, Shape, TypeOK, sweepVars, DeliveryState, Delivering
  <2> QED
    BY <1>4, <2>3, ShapeSame DEF OutcomeRecorded, DeliveryState, Delivering
<1> QED
  BY <1>1, <1>2, <1>3, <1>4

LEMMA ShapeBegins ==
  ASSUME Shape, NEW j \in Jobs, Attempt(j) \/ TakeSlot(j)
  PROVE  Shape'
<1> USE DEF Shape
<1>1. /\ UNCHANGED <<record, outcome, expired, phase, cutOff, sweepVars, announcing, attempt, verdict,
                     heard, unsure, stops, faults>>
  BY DEF Attempt, TakeSlot
<1>2. ASSUME line' \in Seq(Jobs), freeSlots' \in 0 .. SlotCap,
             NEW s \in DeliveryState, delivery' = [delivery EXCEPT ![j] = s]
      PROVE  TypeOK'
  BY <1>1, <1>2 DEF TypeOK, sweepVars
<1>3. {"posting", "queued"} \subseteq DeliveryState
  BY DEF DeliveryState, Delivering
<1>4. CASE TakeSlot(j)
  <2>1. LineInv' /\ line' \in Seq(Jobs)
    BY <1>3, <1>4, LineLeft DEF TakeSlot
  <2>2. freeSlots > 0 /\ freeSlots' = IF SlotCap > 0 THEN freeSlots - 1 ELSE freeSlots
    BY <1>4, ConstantsAssumption DEF TakeSlot, TypeOK
  <2>3. SlotInv' /\ freeSlots' \in 0 .. SlotCap
    BY <1>4, <2>2, PostBegins DEF TakeSlot
  <2> QED
    BY <1>2, <1>3, <1>4, <2>1, <2>3 DEF TakeSlot
<1>5. CASE Attempt(j) /\ SlotCap > 0 /\ (freeSlots = 0 \/ line # << >>)
  <2>1. /\ delivery[j] = "starting" /\ delivery' = [delivery EXCEPT ![j] = "queued"]
        /\ line' = Append(line, j) /\ freeSlots' = freeSlots
    BY <1>5 DEF Attempt
  <2>2. LineInv' /\ line' \in Seq(Jobs)
    BY <2>1, LineJoined
  <2>3. SlotInv' /\ freeSlots' \in 0 .. SlotCap
    BY <2>1, SlotsSame DEF TypeOK
  <2> QED
    BY <1>2, <1>3, <2>1, <2>2, <2>3
<1>6. CASE Attempt(j) /\ ~(SlotCap > 0 /\ (freeSlots = 0 \/ line # << >>))
  <2>1. /\ delivery[j] = "starting" /\ delivery' = [delivery EXCEPT ![j] = "posting"]
        /\ line' = line /\ freeSlots' = IF SlotCap > 0 THEN freeSlots - 1 ELSE freeSlots
    BY <1>6 DEF Attempt
  <2>2. LineInv' /\ line' \in Seq(Jobs)
    BY <2>1, LineSame DEF TypeOK
  <2>3. SlotCap > 0 => freeSlots > 0
    BY <1>6, ConstantsAssumption DEF TypeOK
  <2>4. SlotInv' /\ freeSlots' \in 0 .. SlotCap
    BY <2>1, <2>3, PostBegins
  <2> QED
    BY <1>2, <1>3, <2>1, <2>2, <2>4
<1> QED
  BY <1>4, <1>5, <1>6

(* How a request ends.                                                      *)
LEMMA PostEndsSo ==
  ASSUME Shape, NEW j \in Jobs, NEW how, PostEndsWith(j, how)
  PROVE  /\ delivery[j] = "posting"
         /\ \/ delivery' = [delivery EXCEPT ![j] = "recording"]
            \/ delivery' = [delivery EXCEPT ![j] = "backoff"] /\ verdict' = verdict
         /\ verdict' = verdict \/ verdict' = [verdict EXCEPT ![j] = "failed"]
              \/ (how = "answered" /\ verdict' = [verdict EXCEPT ![j] = "delivered"])
         /\ delivery'[j] = "recording" => verdict'[j] = "failed" \/ how = "answered"
         /\ attempt' \in [Jobs -> 0 .. MaxAttempts]
<1>1. CASE Settle(j, "delivered") /\ how = "answered"
  BY <1>1 DEF Settle, PostEndsWith, Shape, TypeOK
<1>2. CASE Settle(j, "failed")
  BY <1>2 DEF Settle, PostEndsWith, Shape, TypeOK
<1>3. CASE ~LastAttempt(j) /\ Retry(j)
  <2>1. /\ attempt' = [attempt EXCEPT ![j] = attempt[j] + 1] /\ attempt[j] # MaxAttempts
        /\ delivery' = [delivery EXCEPT ![j] = "backoff"] /\ verdict' = verdict
    BY <1>3 DEF Retry, LastAttempt
  <2>2. attempt[j] + 1 \in 0 .. MaxAttempts
    BY <2>1, ConstantsAssumption DEF Shape, TypeOK
  <2> QED
    BY <2>1, <2>2 DEF PostEndsWith, Shape, TypeOK
<1> QED
  BY <1>1, <1>2, <1>3 DEF PostEndsWith, AfterPost, Retry

LEMMA ShapeEnds ==
  ASSUME Shape, NEW j \in Jobs, NEW how, PostEndsWith(j, how)
  PROVE  Shape'
<1> USE DEF Shape
<1>1. PICK s \in {"recording", "backoff"} : delivery' = [delivery EXCEPT ![j] = s]
  BY PostEndsSo
<1>2. delivery[j] = "posting" /\ s \in DeliveryState \ {"posting"}
  BY PostEndsSo DEF DeliveryState, Delivering
<1>3. freeSlots' = IF SlotCap > 0 THEN freeSlots + 1 ELSE freeSlots
  BY DEF PostEndsWith, GiveBack
<1>4. SlotInv' /\ freeSlots' \in 0 .. SlotCap
  BY <1>1, <1>2, <1>3, PostGivesBack
<1>5. LineInv'
  BY <1>1, <1>2, LineSame DEF PostEndsWith, TypeOK
<1>6. heard' \in [Jobs -> Nat] /\ unsure' \in [Jobs -> Nat]
  BY DEF PostEndsWith, TypeOK
<1>7. verdict' \in [Jobs -> {"delivered", "failed"}] /\ attempt' \in [Jobs -> 0 .. MaxAttempts]
  BY PostEndsSo DEF TypeOK
<1>8. TypeOK'
  BY <1>1, <1>2, <1>4, <1>6, <1>7 DEF PostEndsWith, TypeOK, sweepVars
<1> QED
  BY <1>4, <1>5, <1>8

LEMMA ShapeGone ==
  ASSUME Shape, Gone, record' \in [Jobs -> {"absent", "unfinished", "terminal"}],
         stops' \in 0 .. MaxStops, faults' \in 0 .. StoreFaults
  PROVE  Shape'
<1>1. TypeOK'
  BY ConstantsAssumption DEF Gone, Shape, TypeOK, Phase, DeliveryState
<1>2. LineInv'
  BY DEF Gone, LineInv
<1>3. SlotInv'
  <2>1. Posting' = {}
    BY DEF Gone, Posting
  <2> QED
    BY <2>1, FS_EmptySet, ConstantsAssumption DEF Gone, SlotInv
<1> QED
  BY <1>1, <1>2, <1>3 DEF Shape

LEMMA ShapeStops ==
  ASSUME Shape, Crash \/ Exit \/ SweepRaises
  PROVE  Shape'
<1>1. Gone
  BY DEF Crash, Exit, SweepRaises
<1>2. record' \in [Jobs -> {"absent", "unfinished", "terminal"}]
  BY DEF Crash, Exit, SweepRaises, Shape, TypeOK
<1>3. stops' \in 0 .. MaxStops /\ faults' \in 0 .. StoreFaults
  BY ConstantsAssumption DEF Crash, Exit, SweepRaises, Raise, Shape, TypeOK
<1> QED
  BY <1>1, <1>2, <1>3, ShapeGone

LEMMA ShapeStep ==
  ASSUME Shape, OnceInv, [Next]_vars
  PROVE  Shape'
BY ShapeElsewhere, ShapeDelivers, ShapeBegins, ShapeEnds, ShapeStops
DEF Next, DeliveryStep, SweepStep, PostEnds

-----------------------------------------------------------------------------
(* One delivery per job and process.                                        *)

(* A step of one job leaves the others as they were.                        *)
LEMMA OnceOthers ==
  ASSUME OnceInv, NEW k \in Jobs, UNCHANGED phase,
         record'[k] = record[k], outcome'[k] = outcome[k], delivery'[k] = delivery[k],
         k \in toSweep' => k \in toSweep, k \in announcing' => k \in announcing
  PROVE  Once(k)'
BY DEF OnceInv, Once

LEMMA OnceStep ==
  ASSUME Shape, OnceInv, [Next]_vars
  PROVE  OnceInv'
<1> SUFFICES ASSUME NEW k \in Jobs PROVE Once(k)'
  BY DEF OnceInv
<1> USE DEF Shape
<1>0. Once(k)
  BY DEF OnceInv
<1>1. CASE \E j \in Jobs : Submit(j) \/ Finish(j) \/ Expire(j) \/ SweepFails(j)
  <2> PICK j \in Jobs : Submit(j) \/ Finish(j) \/ Expire(j) \/ SweepFails(j)
    BY <1>1
  <2>1. CASE k # j
    BY <2>1, OnceOthers DEF Submit, Finish, Expire, SweepFails, deliveryVars, sweepVars, TypeOK
  <2>2. CASE k = j
    BY <1>0, <2>2 DEF Submit, Finish, Expire, SweepFails, deliveryVars, sweepVars, TypeOK, Once,
       Delivering
  <2> QED
    BY <2>1, <2>2
<1>2. CASE \E j \in Jobs : Announce(j) \/ SweepRefires(j)
  <2> PICK j \in Jobs : Announce(j) \/ SweepRefires(j)
    BY <1>2
  <2>1. CASE k # j
    BY <2>1, OnceOthers DEF Announce, SweepRefires, Deliver, sweepVars, TypeOK
  <2>2. CASE k = j
    BY <1>0, <2>2 DEF Announce, SweepRefires, Deliver, sweepVars, TypeOK, Once, Delivering
  <2> QED
    BY <2>1, <2>2
<1>3. CASE \E j \in Jobs : Attempt(j) \/ TakeSlot(j) \/ BackoffEnds(j) \/ PostEnds(j)
  <2> PICK j \in Jobs : Attempt(j) \/ TakeSlot(j) \/ BackoffEnds(j) \/ PostEnds(j)
    BY <1>3
  <2>1. UNCHANGED <<record, outcome, phase, toSweep, announcing>>
    BY DEF Attempt, TakeSlot, BackoffEnds, PostEnds, PostEndsWith, sweepVars
  <2>2. /\ delivery[j] \in Delivering
        /\ \E s \in Delivering : delivery' = [delivery EXCEPT ![j] = s]
    <3>1. CASE Attempt(j) \/ TakeSlot(j) \/ BackoffEnds(j)
      BY <3>1 DEF Attempt, TakeSlot, BackoffEnds, Delivering
    <3>2. CASE PostEnds(j)
      BY <3>2, PostEndsSo DEF PostEnds, Delivering
    <3> QED
      BY <3>1, <3>2
  <2>3. CASE k # j
    BY <2>1, <2>2, <2>3, OnceOthers DEF TypeOK
  <2>4. CASE k = j
    BY <1>0, <2>1, <2>2, <2>4 DEF TypeOK, Once, Delivering
  <2> QED
    BY <2>3, <2>4
<1>4. CASE \E j \in Jobs : OutcomeRecorded(j)
  <2> PICK j \in Jobs : OutcomeRecorded(j)
    BY <1>4
  <2>1. CASE k # j
    BY <2>1, OnceOthers DEF OutcomeRecorded, sweepVars, TypeOK
  <2>2. CASE k = j
    BY <1>0, <2>2 DEF OutcomeRecorded, sweepVars, TypeOK, Once, Delivering
  <2> QED
    BY <2>1, <2>2
<1>5. CASE Listed
  BY <1>0, <1>5 DEF Listed, Candidates, Unfinished, Unheard, deliveryVars, Once, TypeOK, Delivering
<1>6. CASE Serve \/ Shutdown \/ DrainEnds \/ Start \/ UNCHANGED vars
  BY <1>0, <1>6 DEF Serve, Shutdown, DrainEnds, Start, vars, deliveryVars, sweepVars, Once, Delivering
<1>7. CASE Crash \/ Exit \/ SweepRaises
  <2>1. Gone /\ (record'[k] = record[k] \/ (record[k] = "unfinished" /\ record'[k] = "terminal"))
    BY <1>7 DEF Crash, Exit, SweepRaises, TypeOK
  <2> QED
    BY <1>0, <2>1 DEF Gone, Once, Delivering, TypeOK
<1> QED
  BY <1>1, <1>2, <1>3, <1>4, <1>5, <1>6, <1>7 DEF Next, DeliveryStep, SweepStep

-----------------------------------------------------------------------------
(* The answers that were given.                                             *)

Heard(j) == True(j) /\ Explained(j)

LEMMA NumbersTyped ==
  ASSUME TypeOK, NEW j \in Jobs
  PROVE  heard[j] \in Nat /\ unsure[j] \in Nat /\ stops \in Nat /\ faults \in Nat
BY ConstantsAssumption DEF TypeOK

(* A step that leaves a job's answers, record and outcome as they were.     *)
LEMMA HeardSame ==
  ASSUME TypeOK, NEW k \in Jobs, Heard(k), UNCHANGED <<phase, stops>>,
         heard'[k] = heard[k], unsure'[k] = unsure[k], outcome'[k] = outcome[k],
         faults' \in Nat, faults' >= faults,
         \/ delivery'[k] = delivery[k] /\ verdict'[k] = verdict[k]
         \/ delivery[k] \notin {"recording", "over"} /\ delivery'[k] # "recording"
         \/ delivery[k] = "recording" /\ delivery'[k] = "over"
  PROVE  Heard(k)'
<1>1. Ended' = Ended
  BY DEF Ended
<1>2. True(k)'
  BY DEF Heard, True
<1>3. Ended \in Int
  BY NumbersTyped DEF Ended
<1>4. Explained(k)'
  BY <1>1, <1>3, NumbersTyped DEF Heard, Explained
<1> QED
  BY <1>2, <1>4 DEF Heard

LEMMA HeardPosted ==
  ASSUME Shape, NEW k \in Jobs, Heard(k), NEW how, PostEndsWith(k, how)
  PROVE  Heard(k)'
<1>1. /\ UNCHANGED <<phase, stops, faults, outcome>>
      /\ heard'[k] = IF how \in {"answered", "lost"} THEN heard[k] + 1 ELSE heard[k]
      /\ unsure'[k] = IF how = "lost" THEN unsure[k] + 1 ELSE unsure[k]
  BY DEF PostEndsWith, Shape, TypeOK
<1>2. delivery[k] = "posting" /\ delivery'[k] \in {"recording", "backoff"}
  BY PostEndsSo DEF Shape, TypeOK
<1>3. delivery'[k] = "recording" => verdict'[k] = "failed" \/ how = "answered"
  BY PostEndsSo
<1>4. delivery'[k] = "backoff" => how # "answered"
  BY DEF PostEndsWith, AfterPost, Settle, Shape, TypeOK
<1>5. True(k)'
  BY <1>1, <1>2, <1>3, NumbersTyped DEF Heard, True, Shape
<1>6. Ended' = Ended /\ Ended \in Int
  BY <1>1, NumbersTyped DEF Ended, Shape
<1>7. Explained(k)'
  BY <1>1, <1>2, <1>4, <1>6, NumbersTyped DEF Heard, Explained, Shape
<1> QED
  BY <1>5, <1>7 DEF Heard

(* What dies with a process leaves at most one answer to account for.       *)
LEMMA HeardGone ==
  ASSUME Shape, HeardInv, Gone, NEW k \in Jobs,
         \/ stops' = stops + 1 /\ faults' = faults
         \/ stops' = stops /\ faults' = faults /\ phase = "closed"
         \/ stops' = stops /\ faults' = faults + 1 /\ phase \in {"listing", "sweeping"}
  PROVE  Heard(k)'
<1>1. UNCHANGED <<heard, unsure, outcome>> /\ phase' = "down" /\ delivery'[k] = "none"
  BY DEF Gone
<1>2. True(k)'
  BY <1>1 DEF HeardInv, True
<1>3. heard[k] <= unsure[k] + Ended + faults + 1
  BY NumbersTyped DEF HeardInv, Explained, Shape, Ended
<1>4. Ended + faults + 1 <= Ended' + faults' /\ Ended \in Int /\ Ended' \in Int
  BY <1>1, NumbersTyped DEF Ended, Shape
<1>5. Explained(k)'
  BY <1>1, <1>3, <1>4, NumbersTyped DEF Explained, Shape
<1> QED
  BY <1>2, <1>5 DEF Heard

(* A shutdown is counted as it begins.                                      *)
LEMMA ShutdownCounted ==
  ASSUME Shape, HeardInv, [Next]_vars
  PROVE  phase' \in {"draining", "closed"} => stops' > 0
<1> SUFFICES ASSUME phase' \in {"draining", "closed"}
             PROVE  stops' > 0
  OBVIOUS
<1>1. stops \in Nat
  BY ConstantsAssumption DEF Shape, TypeOK
<1>2. CASE Shutdown
  BY <1>1, <1>2 DEF Shutdown
<1>3. CASE DrainEnds
  BY <1>3 DEF DrainEnds, HeardInv
<1>4. CASE \E j \in Jobs : Submit(j) \/ Finish(j) \/ Expire(j) \/ SweepRefires(j) \/ SweepFails(j)
  BY <1>4 DEF Submit, Finish, Expire, SweepRefires, SweepFails, HeardInv
<1>5. CASE \E j \in Jobs : DeliveryStep(j)
  BY <1>5 DEF DeliveryStep, Announce, Attempt, TakeSlot, PostEnds, PostEndsWith, BackoffEnds,
     OutcomeRecorded, HeardInv
<1>6. CASE Listed \/ Serve \/ Start \/ UNCHANGED vars
  BY <1>6 DEF Listed, Serve, Start, vars, HeardInv
<1>7. CASE Crash \/ Exit \/ SweepRaises
  BY <1>7 DEF Crash, Exit, SweepRaises, Gone
<1> QED
  BY <1>2, <1>3, <1>4, <1>5, <1>6, <1>7 DEF Next, SweepStep

LEMMA HeardStep ==
  ASSUME Shape, OnceInv, HeardInv, [Next]_vars
  PROVE  HeardInv'
<1> SUFFICES ASSUME NEW k \in Jobs
             PROVE  Heard(k)'
  BY ShutdownCounted DEF HeardInv, Heard
<1> USE DEF Shape
<1>0. Heard(k) /\ faults \in Nat /\ stops \in Nat
  BY NumbersTyped DEF HeardInv, Heard
<1>1. CASE \E j \in Jobs : Submit(j) \/ Finish(j) \/ Expire(j) \/ SweepFails(j)
  BY <1>0, <1>1, HeardSame DEF Submit, Finish, Expire, SweepFails, deliveryVars
<1>2. CASE \E j \in Jobs : Announce(j) \/ SweepRefires(j)
  <2> PICK j \in Jobs : Announce(j) \/ SweepRefires(j)
    BY <1>2
  <2>1. UNCHANGED <<phase, stops, faults, heard, unsure, outcome, verdict>>
    BY DEF Announce, SweepRefires
  <2>2. delivery[j] = "none" /\ (delivery' = delivery \/ delivery' = [delivery EXCEPT ![j] = "starting"])
    BY DEF Announce, SweepRefires, Deliver, OnceInv, Once
  <2>3. \/ delivery'[k] = delivery[k]
        \/ delivery[k] \notin {"recording", "over"} /\ delivery'[k] # "recording"
    BY <2>2 DEF TypeOK
  <2> QED
    BY <1>0, <2>1, <2>3, HeardSame
<1>3. CASE \E j \in Jobs : Attempt(j) \/ TakeSlot(j) \/ BackoffEnds(j)
  <2> PICK j \in Jobs : Attempt(j) \/ TakeSlot(j) \/ BackoffEnds(j)
    BY <1>3
  <2>1. UNCHANGED <<phase, stops, faults, heard, unsure, outcome, verdict>>
    BY DEF Attempt, TakeSlot, BackoffEnds
  <2>2. /\ delivery[j] \notin {"recording", "over"}
        /\ \E s \in {"queued", "posting", "starting"} : delivery' = [delivery EXCEPT ![j] = s]
    BY DEF Attempt, TakeSlot, BackoffEnds
  <2>3. \/ delivery'[k] = delivery[k]
        \/ delivery[k] \notin {"recording", "over"} /\ delivery'[k] # "recording"
    BY <2>2 DEF TypeOK
  <2> QED
    BY <1>0, <2>1, <2>3, HeardSame
<1>4. CASE \E j \in Jobs : PostEnds(j)
  <2> PICK j \in Jobs, how \in {"answered", "lost", "rejected", "blocked"} : PostEndsWith(j, how)
    BY <1>4 DEF PostEnds
  <2>1. UNCHANGED <<phase, stops, faults, outcome>>
    BY DEF PostEndsWith
  <2>2. CASE k = j
    BY <1>0, <2>1, <2>2, HeardPosted
  <2>3. CASE k # j
    <3>1. heard'[k] = heard[k] /\ unsure'[k] = unsure[k]
      BY <2>3 DEF PostEndsWith, TypeOK
    <3>2. delivery'[k] = delivery[k]
      <4>1. \E st \in {"recording", "backoff"} : delivery' = [delivery EXCEPT ![j] = st]
        BY PostEndsSo
      <4> QED
        BY <2>3, <4>1 DEF TypeOK
    <3>3. verdict'[k] = verdict[k]
      <4>1. verdict' = verdict \/ \E v \in {"delivered", "failed"} : verdict' = [verdict EXCEPT ![j] = v]
        BY PostEndsSo
      <4> QED
        BY <2>3, <4>1 DEF TypeOK
    <3> QED
      BY <1>0, <2>1, <3>1, <3>2, <3>3, HeardSame
  <2> QED
    BY <2>2, <2>3
<1>5. CASE \E j \in Jobs : OutcomeRecorded(j)
  <2> PICK j \in Jobs : OutcomeRecorded(j)
    BY <1>5
  <2>1. UNCHANGED <<phase, stops, heard, unsure, verdict>> /\ faults' \in Nat /\ faults' >= faults
    BY <1>0 DEF OutcomeRecorded, Raise
  <2>2. CASE k # j
    <3>1. delivery'[k] = delivery[k] /\ outcome'[k] = outcome[k]
      BY <2>2 DEF OutcomeRecorded, TypeOK
    <3> QED
      BY <1>0, <2>1, <3>1, HeardSame
  <2>3. CASE k = j
    <3>1. delivery[k] = "recording" /\ delivery'[k] = "over"
      BY <2>3 DEF OutcomeRecorded, TypeOK
    <3>2. outcome'[k] = outcome[k] \/ outcome'[k] = verdict[k]
      BY <2>3 DEF OutcomeRecorded, TypeOK
    <3>3. True(k)'
      BY <1>0, <2>1, <3>1, <3>2 DEF Heard, True
    <3>4. Ended' = Ended /\ Ended \in Int
      BY <1>0, <2>1 DEF Ended
    <3>5. Explained(k)'
      BY <1>0, <2>1, <3>1, <3>4, NumbersTyped DEF Heard, Explained
    <3> QED
      BY <1>0, <2>1, <3>3, <3>5 DEF Heard
  <2> QED
    BY <2>2, <2>3
<1>6. CASE Listed \/ Serve \/ Start \/ UNCHANGED vars
  <2>1. UNCHANGED <<stops, faults, heard, unsure, outcome, delivery, verdict>>
    BY <1>6 DEF Listed, Serve, Start, vars, deliveryVars
  <2>2. (phase' \in {"draining", "closed"}) = (phase \in {"draining", "closed"})
    BY <1>6 DEF Listed, Serve, Start, vars
  <2> QED
    BY <1>0, <2>1, <2>2 DEF Heard, True, Explained, Ended
<1>7. CASE Shutdown
  <2>1. /\ UNCHANGED <<faults, heard, unsure, outcome, delivery, verdict>>
        /\ phase = "serving" /\ phase' = "draining" /\ stops' = stops + 1
    BY <1>7 DEF Shutdown, deliveryVars
  <2>2. Ended' = Ended
    BY <1>0, <2>1 DEF Ended
  <2> QED
    BY <1>0, <2>1, <2>2 DEF Heard, True, Explained
<1>8. CASE DrainEnds
  <2>1. /\ UNCHANGED <<stops, faults, outcome, delivery, verdict>>
        /\ phase = "draining" /\ phase' = "closed"
    BY <1>8 DEF DrainEnds, deliveryVars
  <2>2. \/ heard'[k] = heard[k] /\ unsure'[k] = unsure[k]
        \/ heard'[k] = heard[k] + 1 /\ unsure'[k] = unsure[k] + 1
    BY <1>8 DEF DrainEnds
  <2>3. Ended' = Ended /\ Ended \in Int
    BY <1>0, <2>1 DEF Ended
  <2>4. True(k)'
    BY <1>0, <2>1, <2>2, NumbersTyped DEF Heard, True
  <2>5. Explained(k)'
    BY <1>0, <2>1, <2>2, <2>3, NumbersTyped DEF Heard, Explained
  <2> QED
    BY <1>0, <2>1, <2>4, <2>5 DEF Heard
<1>9. CASE Crash \/ Exit \/ SweepRaises
  <2>1. Gone
    BY <1>9 DEF Crash, Exit, SweepRaises
  <2>2. \/ stops' = stops + 1 /\ faults' = faults
        \/ stops' = stops /\ faults' = faults /\ phase = "closed"
        \/ stops' = stops /\ faults' = faults + 1 /\ phase \in {"listing", "sweeping"}
    BY <1>9 DEF Crash, Exit, SweepRaises, Raise
  <2>3. phase' = "down"
    BY <2>1 DEF Gone
  <2> QED
    BY <2>1, <2>2, <2>3, HeardGone
<1> QED
  BY <1>1, <1>2, <1>3, <1>4, <1>5, <1>6, <1>7, <1>8, <1>9 DEF Next, DeliveryStep, SweepStep

-----------------------------------------------------------------------------
(* Who is looked after.                                                     *)

Awake == phase \in {"sweeping", "serving", "draining"}

(* A step of another job.                                                   *)
LEMMA LookedSame ==
  ASSUME TypeOK, NEW k \in Jobs, Looked(k), UNCHANGED wasExpired,
         record'[k] = record[k], outcome'[k] = outcome[k], delivery'[k] = delivery[k],
         k \in toSweep => k \in toSweep', k \in announcing => k \in announcing',
         faults' \in Nat, faults' >= faults
  PROVE  Looked(k)'
<1>1. faults \in Nat
  BY ConstantsAssumption DEF TypeOK
<1> QED
  BY <1>1 DEF Looked, LookedAfter

LEMMA LookStep ==
  ASSUME Shape, OnceInv, LookInv, [Next]_vars
  PROVE  LookInv'
<1> USE DEF Shape
<1>0. faults \in Nat /\ Hooked \subseteq Jobs /\ faults >= faults
  BY ConstantsAssumption DEF TypeOK
<1>a. ASSUME NEW k \in Hooked \ expired, Awake
      PROVE  k \in Jobs /\ Looked(k)
  BY <1>0, <1>a DEF LookInv, Awake
<1> DEFINE Goal == \A k \in Hooked \ expired : Looked(k)'
<1>b. ASSUME expired \subseteq expired', UNCHANGED wasExpired, Awake' => Goal
      PROVE  LookInv'
  BY <1>b DEF LookInv, Awake
<1>1. CASE \E j \in Jobs : Submit(j) \/ Finish(j) \/ Expire(j) \/ SweepFails(j)
  <2> PICK j \in Jobs : Submit(j) \/ Finish(j) \/ Expire(j) \/ SweepFails(j)
    BY <1>1
  <2>1. /\ UNCHANGED <<wasExpired, delivery, outcome, faults, phase>>
        /\ expired \subseteq expired'
    BY DEF Submit, Finish, Expire, SweepFails, sweepVars, deliveryVars
  <2>2. ASSUME NEW k \in Hooked \ expired, Looked(k), k \in Jobs
        PROVE  Looked(k)'
    <3>1. CASE k # j
      BY <1>0, <2>1, <2>2, <3>1, LookedSame DEF Submit, Finish, Expire, SweepFails, sweepVars, TypeOK
    <3>2. CASE k = j /\ ~Expire(j)
      BY <2>1, <3>2 DEF Submit, Finish, SweepFails, Looked, LookedAfter, TypeOK
    <3>3. CASE Expire(j)
      BY <1>0, <2>1, <2>2, <3>3, LookedSame DEF Expire, sweepVars
    <3> QED
      BY <3>1, <3>2, <3>3
  <2>3. Awake' => Goal
    BY <1>a, <2>1, <2>2 DEF Awake
  <2> QED
    BY <1>b, <2>1, <2>3
<1>2. CASE \E j \in Jobs : Announce(j) \/ SweepRefires(j)
  <2> PICK j \in Jobs : Announce(j) \/ SweepRefires(j)
    BY <1>2
  <2>1. UNCHANGED <<wasExpired, outcome, record, faults, phase, expired>>
    BY DEF Announce, SweepRefires, sweepVars
  <2>2. ASSUME NEW k \in Hooked \ expired, Looked(k), k \in Jobs
        PROVE  Looked(k)'
    <3>1. CASE k # j
      BY <1>0, <2>1, <2>2, <3>1, LookedSame DEF Announce, SweepRefires, Deliver, sweepVars, TypeOK
    <3>2. CASE k = j
      <4>1. j \notin wasExpired
        BY <3>2 DEF LookInv
      <4>2. delivery' = [delivery EXCEPT ![j] = "starting"]
        BY <3>2, <4>1 DEF Announce, SweepRefires, Deliver
      <4> QED
        BY <3>2, <4>2 DEF Looked, LookedAfter, Delivering, TypeOK
    <3> QED
      BY <3>1, <3>2
  <2>3. Awake' => Goal
    BY <1>a, <2>1, <2>2 DEF Awake
  <2> QED
    BY <1>b, <2>1, <2>3
<1>3. CASE \E j \in Jobs : Attempt(j) \/ TakeSlot(j) \/ BackoffEnds(j) \/ PostEnds(j)
  <2> PICK j \in Jobs : Attempt(j) \/ TakeSlot(j) \/ BackoffEnds(j) \/ PostEnds(j)
    BY <1>3
  <2>1. UNCHANGED <<record, outcome, expired, phase, toSweep, wasExpired, announcing, faults>>
    BY DEF Attempt, TakeSlot, BackoffEnds, PostEnds, PostEndsWith, sweepVars
  <2>2. \E s \in Delivering : delivery' = [delivery EXCEPT ![j] = s]
    <3>1. CASE Attempt(j) \/ TakeSlot(j) \/ BackoffEnds(j)
      BY <3>1 DEF Attempt, TakeSlot, BackoffEnds, Delivering
    <3>2. CASE PostEnds(j)
      BY <3>2, PostEndsSo DEF PostEnds, Delivering
    <3> QED
      BY <3>1, <3>2
  <2>3. ASSUME NEW k \in Hooked \ expired, Looked(k), k \in Jobs
        PROVE  Looked(k)'
    <3>1. CASE k # j
      BY <1>0, <2>1, <2>2, <2>3, <3>1, LookedSame DEF TypeOK
    <3>2. CASE k = j
      BY <2>2, <3>2 DEF Looked, LookedAfter, TypeOK
    <3> QED
      BY <3>1, <3>2
  <2>4. Awake' => Goal
    BY <1>a, <2>1, <2>3 DEF Awake
  <2> QED
    BY <1>b, <2>1, <2>4
<1>4. CASE \E j \in Jobs : OutcomeRecorded(j)
  <2> PICK j \in Jobs : OutcomeRecorded(j)
    BY <1>4
  <2>1. /\ UNCHANGED <<record, expired, phase, toSweep, wasExpired, announcing>>
        /\ faults' \in Nat /\ faults' >= faults
    BY <1>0 DEF OutcomeRecorded, Raise, sweepVars
  <2>2. ASSUME NEW k \in Hooked \ expired, Looked(k), k \in Jobs
        PROVE  Looked(k)'
    <3>1. CASE k # j
      BY <2>1, <2>2, <3>1, LookedSame DEF OutcomeRecorded, TypeOK
    <3>2. CASE k = j /\ Raise
      <4>1. delivery'[j] = "over" /\ faults' > 0
        BY <1>0, <3>2 DEF OutcomeRecorded, Raise, TypeOK
      <4> QED
        BY <3>2, <4>1 DEF Looked, LookedAfter
    <3>3. CASE k = j /\ ~Raise
      <4>1. outcome'[j] = verdict[j] /\ verdict[j] # "none"
        BY <3>3 DEF OutcomeRecorded, TypeOK
      <4> QED
        BY <3>3, <4>1 DEF Looked, LookedAfter
    <3> QED
      BY <3>1, <3>2, <3>3
  <2>3. Awake' => Goal
    BY <1>a, <2>1, <2>2 DEF Awake
  <2> QED
    BY <1>b, <2>1, <2>3
<1>5. CASE Listed
  <2>1. UNCHANGED <<record, outcome, expired, announcing, delivery, faults>>
    BY <1>5 DEF Listed, deliveryVars
  <2>2. toSweep' = Candidates /\ wasExpired' = Candidates \cap expired
    BY <1>5 DEF Listed
  <2>3. ASSUME NEW k \in Hooked \ expired
        PROVE  Looked(k)'
    <3>1. CASE record[k] = "terminal" /\ outcome[k] = "none"
      BY <2>1, <2>2, <3>1 DEF Candidates, Unheard, Looked
    <3>2. CASE ~(record[k] = "terminal" /\ outcome[k] = "none")
      BY <2>1, <3>2 DEF Looked, LookedAfter
    <3> QED
      BY <3>1, <3>2
  <2> QED
    BY <2>1, <2>2, <2>3 DEF LookInv
<1>6. CASE Serve \/ Shutdown \/ DrainEnds \/ Start \/ UNCHANGED vars
  <2>1. UNCHANGED <<record, outcome, expired, toSweep, wasExpired, announcing, delivery, faults>>
    BY <1>6 DEF Serve, Shutdown, DrainEnds, Start, vars, deliveryVars, sweepVars
  <2>2. Awake' => Awake
    BY <1>6 DEF Serve, Shutdown, DrainEnds, Start, vars, Awake
  <2> QED
    BY <2>1, <2>2 DEF LookInv, Awake, Looked, LookedAfter
<1>7. CASE Crash \/ Exit \/ SweepRaises
  <2>1. Gone
    BY <1>7 DEF Crash, Exit, SweepRaises
  <2> QED
    BY <2>1 DEF Gone, LookInv
<1> QED
  BY <1>1, <1>2, <1>3, <1>4, <1>5, <1>6, <1>7 DEF Next, DeliveryStep, SweepStep

-----------------------------------------------------------------------------
(* What holds of every behaviour.                                           *)

LEMMA DeliveryStarts == Init => DeliveryInv
<1> SUFFICES ASSUME Init PROVE DeliveryInv
  OBVIOUS
<1>1. TypeOK
  BY ConstantsAssumption DEF Init, TypeOK, Phase, DeliveryState
<1>2. LineInv
  BY DEF Init, LineInv
<1>3. SlotInv
  <2>1. Posting = {}
    BY DEF Init, Posting
  <2> QED
    BY <2>1, FS_EmptySet, ConstantsAssumption DEF Init, SlotInv
<1>4. OnceInv
  BY DEF Init, OnceInv, Once, Delivering
<1>5. HeardInv
  BY DEF Init, HeardInv, True, Explained, Ended
<1>6. LookInv
  BY ConstantsAssumption DEF Init, LookInv, Looked, LookedAfter
<1> QED
  BY <1>1, <1>2, <1>3, <1>4, <1>5, <1>6 DEF DeliveryInv

LEMMA DeliveryKept == DeliveryInv /\ [Next]_vars => DeliveryInv'
BY ShapeStep, OnceStep, HeardStep, LookStep DEF DeliveryInv, Shape

(* The inductive invariant: one delivery per job and process, made only of  *)
(* a job that still lacks an outcome; every answer accounted for.           *)
THEOREM DeliveryInvKept == Spec => []DeliveryInv
BY DeliveryStarts, DeliveryKept, PTL DEF Spec

(* Every variable has its type, whatever crashes, shutdowns and faults: no  *)
(* delivery makes more than WEBHOOK_MAX_ATTEMPTS attempts.                  *)
THEOREM DeliveryTyped == Spec => []TypeOK
<1>1. DeliveryInv => TypeOK
  BY DEF DeliveryInv
<1> QED
  BY <1>1, DeliveryInvKept, PTL

(* webhook_status "delivered" is true: _deliver_webhook records it only     *)
(* after a 2xx that did arrive.                                             *)
THEOREM DeliveredTrue == Spec => []DeliveredIsTrue
<1>1. DeliveryInv => DeliveredIsTrue
  <2> SUFFICES ASSUME DeliveryInv, NEW j \in Jobs, outcome[j] = "delivered"
               PROVE  heard[j] > unsure[j]
    BY DEF DeliveredIsTrue
  <2>1. unsure[j] < heard[j] /\ heard[j] \in Nat /\ unsure[j] \in Nat
    BY NumbersTyped DEF DeliveryInv, HeardInv, True
  <2> QED
    BY <2>1
<1> QED
  BY <1>1, DeliveryInvKept, PTL

(* A receiver that answered 2xx is called again only for a lost answer, a   *)
(* stop or a store fault that kept the outcome from being recorded.         *)
THEOREM DuplicatesHaveReasons == Spec => []DuplicatesExplained
<1>1. DeliveryInv => DuplicatesExplained
  <2> SUFFICES ASSUME DeliveryInv, NEW j \in Jobs
               PROVE  heard[j] <= 1 + unsure[j] + stops + faults
    BY DEF DuplicatesExplained
  <2>1. heard[j] \in Nat /\ unsure[j] \in Nat /\ stops \in Nat /\ faults \in Nat
    BY NumbersTyped DEF DeliveryInv
  <2>2. heard[j] <= unsure[j] + Ended + faults + 1 /\ Ended \in Int /\ Ended <= stops
    BY <2>1 DEF DeliveryInv, HeardInv, Explained, Ended
  <2> QED
    BY <2>1, <2>2
<1> QED
  BY <1>1, DeliveryInvKept, PTL

(* recover_interrupted_jobs() passes over expired results only, and what it *)
(* refires is looked after.                                                 *)
THEOREM OnlyExpiredPassedOver == Spec => []OnlyExpiredForgotten
<1>1. DeliveryInv => OnlyExpiredForgotten
  <2> SUFFICES ASSUME DeliveryInv, phase \in {"serving", "draining"}, NEW j \in Hooked \ expired
               PROVE  LookedAfter(j)
    BY DEF OnlyExpiredForgotten
  <2>1. j \notin toSweep
    BY ConstantsAssumption DEF DeliveryInv, OnceInv, Once
  <2> QED
    BY <2>1 DEF DeliveryInv, LookInv, Looked
<1> QED
  BY <1>1, DeliveryInvKept, PTL

(* max_concurrent_webhooks bounds the requests in flight; no slot leaks.    *)
THEOREM SlotsExact == Spec => []SlotsHeldByRequests
<1>1. DeliveryInv => SlotsHeldByRequests
  BY DEF DeliveryInv, SlotInv, SlotsHeldByRequests, Posting
<1> QED
  BY <1>1, DeliveryInvKept, PTL

(* A recorded outcome is the end of it, over every restart: nobody posts    *)
(* again and the outcome does not change.                                   *)
THEOREM OutcomeFinal == Spec => OutcomeIsFinal
<1>1. DeliveryInv /\ [Next]_vars =>
        \A j \in Jobs : outcome[j] # "none" => outcome'[j] = outcome[j] /\ heard'[j] = heard[j]
  <2> SUFFICES ASSUME DeliveryInv, [Next]_vars, NEW k \in Jobs, outcome[k] # "none"
               PROVE  outcome'[k] = outcome[k] /\ heard'[k] = heard[k]
    OBVIOUS
  <2>1. delivery[k] \notin Delivering /\ TypeOK
    BY DEF DeliveryInv, OnceInv, Once
  <2>2. CASE \E j \in Jobs : Submit(j) \/ Finish(j) \/ Expire(j) \/ SweepRefires(j) \/ SweepFails(j)
                             \/ Announce(j) \/ Attempt(j) \/ TakeSlot(j) \/ BackoffEnds(j)
    BY <2>2 DEF Submit, Finish, Expire, SweepRefires, SweepFails, Announce, Attempt, TakeSlot, BackoffEnds
  <2>3. CASE \E j \in Jobs : PostEnds(j) \/ OutcomeRecorded(j)
    <3> PICK j \in Jobs : PostEnds(j) \/ OutcomeRecorded(j)
      BY <2>3
    <3>1. k # j
      BY <2>1 DEF PostEnds, PostEndsWith, OutcomeRecorded, Delivering
    <3> QED
      BY <2>1, <3>1 DEF PostEnds, PostEndsWith, OutcomeRecorded, TypeOK
  <2>4. CASE DrainEnds
    <3>1. outcome' = outcome /\ heard'[k] = heard[k]
      BY <2>1, <2>4 DEF DrainEnds, Delivering
    <3> QED
      BY <3>1
  <2>5. CASE Listed \/ Serve \/ Shutdown \/ Start \/ UNCHANGED vars
    BY <2>5 DEF Listed, Serve, Shutdown, Start, vars
  <2>6. CASE Crash \/ Exit \/ SweepRaises
    BY <2>6 DEF Crash, Exit, SweepRaises, Gone
  <2> QED
    BY <2>2, <2>3, <2>4, <2>5, <2>6 DEF Next, DeliveryStep, SweepStep
<1>2. Spec => [][DeliveryInv /\ [Next]_vars]_vars
  BY DeliveryInvKept, PTL DEF Spec
<1>3. (DeliveryInv /\ [Next]_vars) =>
        [\A j \in Jobs : outcome[j] # "none" => outcome'[j] = outcome[j] /\ heard'[j] = heard[j]]_vars
  BY <1>1
<1> QED
  BY <1>2, <1>3, PTL DEF OutcomeIsFinal

=============================================================================
