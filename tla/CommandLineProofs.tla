-------------------------- MODULE CommandLineProofs --------------------------
(***************************************************************************)
(* What the callers of wait() and cancel(), and the shell, are told is     *)
(* true: for any number of callers, any retry budget, either store and any *)
(* number of restarts, whatever the network loses.                         *)
(*                                                                         *)
(* The commands use the client and nothing else: CommandLine implements    *)
(* ClientWait, so what is proved of the client's calls holds with them.    *)
(***************************************************************************)
EXTENDS CommandLine, TLAPS

-----------------------------------------------------------------------------
(* The gateway.                                                             *)

(* Only an in-memory store loses its record; only an ended job expires; an  *)
(* outcome is recorded beside a cancellation under way only over SQLite,    *)
(* and only the cancellation's write may follow it.                         *)
GatewayInv ==
  /\ lost => store = "memory"
  /\ expired => stored \in Ended
  /\ overtaken # "none" => store = "sqlite" /\ stored \in {overtaken, "cancelled"}
  /\ cancelling # "none" /\ stored \in Ended => stored = overtaken

(* What a step may do to the job: an end is for good, and so is its expiry, *)
(* but for an outcome a cancellation under way overtakes; loss is for good, *)
(* and no job that displayed anything else is unfinished again.             *)
Onward ==
  /\ store' = store
  /\ stored \in Ended => stored' = stored \/ (stored = overtaken /\ stored' = "cancelled")
  /\ stored \in Ended /\ cancelling = "none" => cancelling' = "none" /\ stored' = stored
  /\ overtaken # "none" => overtaken' = overtaken
  /\ expired => expired' \/ (cancelling # "none" /\ stored' = "cancelled")
  /\ lost => lost'
  /\ Displayed' \in Unfinished => Displayed \in Unfinished

(* What can be told of the job, as it stays true.                           *)
ResultStands == stored = "ready" \/ Overwritten
FailureStands == stored \in {"error", "cancelled"}
ExpiryStands == expired \/ (overtaken # "none" /\ stored = "cancelled")
RefusalStands == /\ stored \in Ended /\ cancelling = "none"
                 /\ stored = "cancelled" => expired

LEMMA GatewayGoesOn ==
  ASSUME TypeOK, GatewayInv, [Next]_vars
  PROVE  GatewayInv' /\ Onward
<1> USE DEF GatewayInv, Onward, Displayed, Ended, Unfinished, TypeOK
<1>1. ASSUME UNCHANGED gateway
      PROVE  GatewayInv' /\ Onward
  BY <1>1 DEF gateway
<1>2. CASE Progress
  BY <1>2 DEF Progress, RunWrites
<1>3. CASE Expire
  BY <1>3 DEF Expire
<1>4. CASE Restart
  BY <1>4 DEF Restart
<1>5. ASSUME NEW c \in Calls, Request(c)
      PROVE  GatewayInv' /\ Onward
  <2>1. CASE Disturb(c) \/ GetJob(c) \/ CancelAnswers(c) \/ CancelFinds(c)
    BY <1>1, <2>1 DEF Disturb, GetJob, CancelAnswers, CancelFinds
  <2>2. CASE CancelBegins(c)
    BY <2>2 DEF CancelBegins, Cancellable
  <2> QED
    BY <1>5, <2>1, <2>2 DEF Request, CancelJob
<1>6. ASSUME NEW w \in Waiters, Wait(w) \/ Deadline(w)
      PROVE  GatewayInv' /\ Onward
  BY <1>1, <1>6 DEF Wait, Poll, Retry, Send, Receive, Deadline
<1>7. ASSUME NEW c \in Calls, CallAgain(c) \/ AskCancel(c) \/ ReceiveCancel(c)
      PROVE  GatewayInv' /\ Onward
  BY <1>1, <1>7 DEF CallAgain, AskCancel, ReceiveCancel
<1>8. CASE UNCHANGED vars
  BY <1>1, <1>8 DEF vars, gateway
<1>9. CASE CancelWrites
  BY <1>9 DEF CancelWrites
<1> QED
  BY <1>2, <1>3, <1>4, <1>5, <1>6, <1>7, <1>8, <1>9 DEF Next, Gateway, Calls

(* What is once true to tell of the job stays so.                           *)
LEMMA TruthLasts ==
  ASSUME TypeOK, GatewayInv, Onward
  PROVE  /\ ResultStands => ResultStands'
         /\ FailureStands => FailureStands'
         /\ ExpiryStands => ExpiryStands'
         /\ RefusalStands => RefusalStands'
         /\ stored = "cancelled" => stored' = "cancelled"
         /\ stored \in Ended => stored' \in Ended
         /\ lost => lost'
<1> USE DEF GatewayInv, Onward, Ended, TypeOK
<1>1. ResultStands => ResultStands'
  BY DEF ResultStands, Overwritten
<1>2. FailureStands => FailureStands'
  BY DEF FailureStands
<1>3. ExpiryStands => ExpiryStands'
  BY DEF ExpiryStands
<1>4. RefusalStands => RefusalStands'
  BY DEF RefusalStands
<1> QED
  BY <1>1, <1>2, <1>3, <1>4

-----------------------------------------------------------------------------
(* The calls.                                                               *)

(* An answer is true of the job, now and from now on; for an unfinished job *)
(* it is true of the moment the request left.                               *)
AnswerIsTrue(c) ==
  /\ reply[c] = "ready" => ResultStands
  /\ reply[c] = "error" => FailureStands
  /\ reply[c] = "200" => stored = "cancelled"
  /\ reply[c] = "409" => RefusalStands
  /\ reply[c] = "410" => ExpiryStands
  /\ reply[c] = "404" => lost

LastAsked(w) ==
  /\ state[w] = "asking" /\ Displayed \in Unfinished => w \in unfinished
  /\ state[w] = "answered" /\ reply[w] \in Unfinished => w \in unfinished

(* A poll's budget: the blips in a row are the attempts that failed.        *)
Budget(w) ==
  /\ state[w] \in {"idle", "pausing"} => blips[w] = 0
  /\ state[w] \in {"asking", "answered"} => blips[w] = attempt[w]
  /\ state[w] = "resting" => blips[w] = attempt[w] + 1 /\ attempt[w] < Retries

(* What a call has ended with.                                              *)
WaitEnded(w) ==
  /\ state[w] # "done" => outcome[w] = "none"
  /\ outcome[w] = "result" => ResultStands
  /\ outcome[w] = "failed" => FailureStands
  /\ outcome[w] = "expired" => ExpiryStands
  /\ outcome[w] = "not_found" => lost
  /\ outcome[w] = "http" => reply[w] \in {"unavailable", "broken"}
  /\ outcome[w] = "timeout" => w \in overdue /\ w \in unfinished
  /\ outcome[w] = "network" \/ (outcome[w] = "http" /\ reply[w] = "unavailable")
       => blips[w] = Retries + 1

CancelEnded(c) ==
  /\ outcome[c] = "cancelled" => stored = "cancelled"
  /\ outcome[c] = "not_cancellable" => stored \in Ended
  /\ outcome[c] = "not_found" => lost

(* What any call has ever told.                                             *)
StoriesAreTrue ==
  /\ "result" \in stories => ResultStands
  /\ "failed" \in stories => FailureStands
  /\ "cancelled" \in stories => stored = "cancelled"
  /\ "not_cancellable" \in stories => RefusalStands

ClientInv ==
  /\ TypeOK
  /\ GatewayInv
  /\ \A c \in Calls : AnswerIsTrue(c)
  /\ \A w \in Waiters : LastAsked(w) /\ Budget(w) /\ WaitEnded(w)
  /\ \A c \in Cancellers : CancelEnded(c)
  /\ StoriesAreTrue

(* While a call does not move, what is true of it stays true.               *)
Still(c) == /\ state'[c] = state[c] /\ reply'[c] = reply[c] /\ outcome'[c] = outcome[c]
            /\ c \in Waiters => /\ attempt'[c] = attempt[c] /\ blips'[c] = blips[c]
                                /\ c \in overdue => c \in overdue'
                                /\ c \in unfinished <=> c \in unfinished'

LEMMA StillTrue ==
  ASSUME ClientInv, Onward, NEW c \in Calls, Still(c)
  PROVE  /\ AnswerIsTrue(c)'
         /\ c \in Waiters => LastAsked(c)' /\ Budget(c)' /\ WaitEnded(c)'
         /\ c \in Cancellers => CancelEnded(c)'
<1>0. TypeOK /\ GatewayInv
  BY DEF ClientInv
<1>1. AnswerIsTrue(c)'
  BY <1>0, TruthLasts DEF ClientInv, AnswerIsTrue, Still
<1>2. c \in Waiters => LastAsked(c)' /\ Budget(c)'
  BY DEF ClientInv, LastAsked, Budget, Onward, Still
<1>3. c \in Waiters => WaitEnded(c)'
  BY <1>0, TruthLasts DEF ClientInv, WaitEnded, Still
<1>4. c \in Cancellers => CancelEnded(c)'
  BY <1>0, TruthLasts DEF ClientInv, CancelEnded, Still
<1> QED
  BY <1>1, <1>2, <1>3, <1>4

LEMMA StoriesStay ==
  ASSUME ClientInv, Onward, UNCHANGED stories
  PROVE  StoriesAreTrue'
BY TruthLasts DEF ClientInv, StoriesAreTrue

(* A step of one call leaves every other call as it was.                    *)
LEMMA OneCallMoves ==
  ASSUME ClientInv, [Next]_vars, Onward, TypeOK', GatewayInv', StoriesAreTrue',
         NEW c \in Calls,
         \A d \in Calls \ {c} : Still(d),
         AnswerIsTrue(c)',
         c \in Waiters => LastAsked(c)' /\ Budget(c)' /\ WaitEnded(c)',
         c \in Cancellers => CancelEnded(c)'
  PROVE  ClientInv'
BY StillTrue DEF ClientInv, Calls

LEMMA ClientInit == Init => ClientInv
<1> SUFFICES ASSUME Init
             PROVE  ClientInv
  OBVIOUS
<1> USE DEF Init
<1>1. TypeOK
  <2>1. expired \in BOOLEAN /\ lost \in BOOLEAN /\ stored \in Unfinished
    BY DEF Unfinished
  <2>2. {expired, lost} \subseteq BOOLEAN /\ restarts \in 0 .. MaxRestarts
    BY <2>1, ConstantsAssumption
  <2>3. attempt \in [Waiters -> 0 .. Retries] /\ blips \in [Waiters -> 0 .. Retries + 1]
    BY ConstantsAssumption
  <2>4. state \in [Calls -> State] /\ reply \in [Calls -> Reply] /\ outcome \in [Calls -> Outcome]
    BY DEF State, Reply, Outcome
  <2> QED
    BY <2>1, <2>2, <2>3, <2>4 DEF TypeOK
<1>2. GatewayInv /\ StoriesAreTrue
  BY DEF GatewayInv, StoriesAreTrue
<1>3. \A c \in Calls : AnswerIsTrue(c)
  BY DEF AnswerIsTrue
<1>4. \A w \in Waiters : LastAsked(w) /\ Budget(w) /\ WaitEnded(w)
  BY ConstantsAssumption DEF LastAsked, Budget, WaitEnded, Calls
<1>5. \A c \in Cancellers : CancelEnded(c)
  BY DEF CancelEnded, Calls
<1> QED
  BY <1>1, <1>2, <1>3, <1>4, <1>5 DEF ClientInv

LEMMA ClientStep ==
  ASSUME ClientInv, [Next]_vars
  PROVE  ClientInv'
<1> USE DEF ClientInv
<1>1. GatewayInv' /\ Onward
  BY GatewayGoesOn
<1>0. /\ ResultStands => ResultStands'
      /\ FailureStands => FailureStands'
      /\ ExpiryStands => ExpiryStands'
      /\ RefusalStands => RefusalStands'
      /\ stored = "cancelled" => stored' = "cancelled"
      /\ stored \in Ended => stored' \in Ended
      /\ lost => lost'
  BY <1>1, TruthLasts
<1>2. ASSUME UNCHANGED <<state, attempt, reply, outcome, history>>, TypeOK',
             \A w \in Waiters : w \in overdue => w \in overdue'
      PROVE  ClientInv'
  <2>1. \A c \in Calls : Still(c)
    BY <1>2 DEF Still, history
  <2>2. StoriesAreTrue'
    BY <1>1, <1>2, StoriesStay DEF history
  <2> QED
    BY <1>1, <1>2, <2>1, <2>2, StillTrue DEF Calls
<1>3. CASE Gateway
  <2>1. UNCHANGED <<store, clients, history>>
    BY <1>3 DEF Gateway, Progress, Expire, Restart, CancelWrites
  <2>2. TypeOK'
    <3>1. {expired', lost'} \subseteq BOOLEAN
      BY <1>3 DEF Gateway, Progress, Expire, Restart, CancelWrites, TypeOK
    <3>2. stored' \in Unfinished \cup Ended /\ restarts' \in 0 .. MaxRestarts
      BY <1>3, ConstantsAssumption DEF Gateway, Progress, Expire, Restart, CancelWrites, TypeOK, Unfinished, Ended
    <3>3. cancelling' \in {"none"} \cup Unfinished /\ overtaken' \in {"none", "ready", "error"}
      BY <1>3 DEF Gateway, Progress, Expire, Restart, CancelWrites, TypeOK, Ended
    <3> QED
      BY <2>1, <3>1, <3>2, <3>3 DEF TypeOK, clients, history
  <2> QED
    BY <1>2, <2>1, <2>2 DEF clients
<1>4. CASE \E w \in Waiters : Deadline(w)
  <2>1. TypeOK'
    BY <1>4 DEF Deadline, TypeOK, gateway, history
  <2> QED
    BY <1>2, <1>4, <2>1 DEF Deadline
<1>5. CASE UNCHANGED vars
  <2>1. TypeOK'
    BY <1>5 DEF vars, gateway, clients, history, TypeOK
  <2> QED
    BY <1>2, <1>5, <2>1 DEF vars, clients
<1>6. ASSUME NEW c \in Calls,
             Disturb(c) \/ (c \in Waiters /\ GetJob(c)) \/ CancelAnswers(c) \/ CancelFinds(c)
      PROVE  ClientInv'
  <2>1. PICK r \in Reply : Answer(c, r) /\ UNCHANGED gateway
    BY <1>6 DEF Disturb, GetJob, CancelAnswers, CancelFinds, Reply, Displayed, TypeOK, Unfinished, Ended
  <2>2. TypeOK'
    BY <2>1 DEF Answer, TypeOK, State, history, gateway
  <2>3. AnswerIsTrue(c)'
    <3>1. CASE Disturb(c)
      BY <3>1 DEF Disturb, Answer, AnswerIsTrue, TypeOK
    <3>2. CASE GetJob(c)
      BY <3>2 DEF GetJob, Answer, AnswerIsTrue, gateway, TypeOK, Displayed, Unfinished, Ended,
         ResultStands, FailureStands, ExpiryStands
    <3>3. CASE CancelAnswers(c)
      BY <3>3 DEF CancelAnswers, Answer, AnswerIsTrue, gateway, TypeOK
    <3>4. CASE CancelFinds(c)
      BY <3>4 DEF CancelFinds, Cancellable, Answer, AnswerIsTrue, gateway, TypeOK, Displayed, Unfinished,
         Ended, GatewayInv, RefusalStands
    <3> QED
      BY <1>6, <3>1, <3>2, <3>3, <3>4
  <2>4. \A d \in Calls \ {c} : Still(d)
    BY <2>1 DEF Answer, Still, history, TypeOK
  <2>5. ASSUME c \in Waiters
        PROVE  LastAsked(c)' /\ Budget(c)' /\ WaitEnded(c)'
    <3>1. state[c] = "asking" /\ state'[c] = "answered" /\ outcome'[c] = outcome[c]
          /\ UNCHANGED <<attempt, overdue, history>>
      BY <2>1 DEF Answer, TypeOK
    <3>2. LastAsked(c)'
      <4>1. reply'[c] \in Unfinished => Displayed \in Unfinished
        BY <1>6, <2>5 DEF Disturb, GetJob, CancelAnswers, CancelFinds, Answer, TypeOK, Displayed, Unfinished
      <4> QED
        BY <2>5, <3>1, <4>1 DEF LastAsked, history
    <3>3. Budget(c)' /\ WaitEnded(c)'
      BY <2>5, <3>1 DEF Budget, WaitEnded, history
    <3> QED
      BY <3>2, <3>3
  <2>6. c \in Cancellers => CancelEnded(c)'
    BY <1>1, <2>1, TruthLasts DEF Answer, CancelEnded, TypeOK
  <2>7. StoriesAreTrue'
    BY <1>1, <2>1, StoriesStay DEF Answer, history
  <2> QED
    BY <1>1, <2>2, <2>3, <2>4, <2>5, <2>6, <2>7, OneCallMoves
<1>11. ASSUME NEW c \in Cancellers, CancelBegins(c)
       PROVE  ClientInv'
  <2>1. UNCHANGED <<store, stored, expired, lost, restarts, overtaken, state, attempt, reply, outcome, overdue, history>>
    BY <1>11 DEF CancelBegins
  <2>2. cancelling' \in {"none"} \cup Unfinished /\ joined' \subseteq Cancellers
    BY <1>11 DEF CancelBegins, Cancellable, Displayed, TypeOK, Unfinished, Ended
  <2>3. TypeOK'
    BY <2>1, <2>2 DEF TypeOK, history
  <2> QED
    BY <1>2, <2>1, <2>3
<1>7. ASSUME NEW w \in Waiters, Poll(w) \/ Retry(w)
      PROVE  ClientInv'
  <2>1. PICK n : Send(w, n) /\ blips[w] = n
                  /\ (n = 0 \/ (n = attempt[w] + 1 /\ attempt[w] < Retries))
    BY <1>7 DEF Poll, Retry, FirstAttempt, Budget
  <2>2. n \in 0 .. Retries /\ overdue' = overdue
    BY <1>7, <2>1, ConstantsAssumption DEF Poll, Retry, TypeOK, Deadlines
  <2>3. TypeOK'
    BY <2>1, <2>2 DEF Send, TypeOK, State, gateway, Calls
  <2>4. state[w] # "done" /\ state'[w] = "asking" /\ attempt'[w] = n /\ w \in Calls
    BY <1>7, <2>1 DEF Poll, Retry, Send, TypeOK, Calls
  <2>5. \A d \in Calls \ {w} : Still(d)
    BY <2>1, <2>2 DEF Send, Still, TypeOK
  <2>6. LastAsked(w)'
    BY <2>1, <2>4 DEF LastAsked, Send, gateway, Displayed
  <2>7. Budget(w)'
    BY <2>1, <2>4 DEF Budget, Send
  <2>8. WaitEnded(w)' /\ AnswerIsTrue(w)'
    BY <1>0, <2>1, <2>4 DEF WaitEnded, AnswerIsTrue, Send
  <2>9. StoriesAreTrue'
    BY <1>1, <2>1, StoriesStay DEF Send
  <2> QED
    BY <1>1, <2>3, <2>4, <2>5, <2>6, <2>7, <2>8, <2>9, ConstantsAssumption, OneCallMoves
<1>8. ASSUME NEW w \in Waiters, Receive(w)
      PROVE  ClientInv'
  <2> DEFINE r == reply[w]
             end == WaitEnd(w, r)
             again == ~Last(w) /\ Blip(r)
  <2>1. /\ state[w] = "answered" /\ outcome[w] = "none" /\ w \in Calls
        /\ w \in Cancellers <=> FALSE
    BY <1>8, ConstantsAssumption DEF Receive, WaitEnded, Calls
  <2>2. r \in Reply /\ blips[w] = attempt[w] /\ attempt[w] \in 0 .. Retries
    BY <2>1 DEF TypeOK, Budget
  <2>3. /\ end \in Outcome \ {"cancelled", "not_cancellable"}
        /\ end = "result" <=> r = "ready"
        /\ end = "failed" <=> r = "error"
        /\ end = "expired" <=> r = "410"
        /\ end = "not_found" <=> r = "404"
        /\ end = "network" <=> r = "lost"
        /\ end = "http" <=> r \in {"unavailable", "broken"}
        /\ end = "timeout" <=> r \in Unfinished /\ w \in overdue
    BY DEF WaitEnd, PollEnd, IsExpired, Outcome, Unfinished
  <2>4. /\ outcome'[w] = IF again THEN "none" ELSE end
        /\ state'[w] = IF again THEN "resting" ELSE IF end = "none" THEN "pausing" ELSE "done"
        /\ blips'[w] = IF Blip(r) THEN attempt[w] + 1 ELSE 0
        /\ reply'[w] = IF state'[w] = "done" THEN r ELSE "none"
        /\ UNCHANGED <<gateway, attempt, overdue, joined, unfinished>>
        /\ stories' = stories \cup ({outcome'[w]} \cap Story)
    BY <1>8, <2>1, <2>2 DEF Receive, TypeOK, Blip, IsTransient
  <2>5. TypeOK'
    <3>1. state' \in [Calls -> State] /\ reply' \in [Calls -> Reply] /\ outcome' \in [Calls -> Outcome]
      BY <1>8, <2>1, <2>3 DEF Receive, TypeOK, State, Reply, Outcome
    <3>2. blips' \in [Waiters -> 0 .. Retries + 1]
      BY <1>8, <2>2, ConstantsAssumption DEF Receive, TypeOK
    <3> QED
      BY <2>4, <3>1, <3>2 DEF TypeOK, gateway
  <2>6. \A d \in Calls \ {w} : Still(d)
    BY <1>8 DEF Receive, Still, TypeOK
  <2>7. AnswerIsTrue(w)'
    BY <1>0, <2>1, <2>4 DEF AnswerIsTrue
  <2>8. LastAsked(w)' /\ Budget(w)'
    <3>1. state'[w] \notin {"asking", "answered", "idle"}
      BY <2>4
    <3>2. state'[w] = "resting" => again
      BY <2>4
    <3>3. state'[w] = "pausing" => ~Blip(r)
      BY <2>3, <2>4 DEF Blip, IsTransient
    <3>4. again => blips'[w] = attempt'[w] + 1 /\ attempt'[w] < Retries
      BY <2>2, <2>4, ConstantsAssumption DEF Last
    <3> QED
      BY <2>4, <3>1, <3>2, <3>3, <3>4 DEF LastAsked, Budget
  <2>9. WaitEnded(w)'
    <3>1. r \in Unfinished => w \in unfinished
      BY <2>1 DEF LastAsked
    <3>2. ~again /\ Blip(r) => blips'[w] = Retries + 1
      BY <2>4 DEF Last
    <3>3. state'[w] # "done" => outcome'[w] = "none"
      BY <2>4
    <3>4. CASE again
      BY <2>4, <3>3, <3>4 DEF WaitEnded
    <3>5. CASE ~again /\ end # "none"
      <4>1. outcome'[w] = end /\ reply'[w] = r
        BY <2>4, <3>5
      <4> QED
        BY <1>0, <2>1, <2>3, <2>4, <3>1, <3>2, <3>3, <4>1 DEF WaitEnded, AnswerIsTrue, Blip, IsTransient
    <3>6. CASE ~again /\ end = "none"
      BY <2>4, <3>3, <3>6 DEF WaitEnded
    <3> QED
      BY <3>4, <3>5, <3>6
  <2>10. StoriesAreTrue'
    BY <1>0, <2>1, <2>3, <2>4 DEF StoriesAreTrue, AnswerIsTrue, Story
  <2> QED
    BY <1>1, <2>1, <2>5, <2>6, <2>7, <2>8, <2>9, <2>10, OneCallMoves
<1>9. ASSUME NEW c \in Calls, CallAgain(c)
      PROVE  ClientInv'
  <2>1. TypeOK'
    BY <1>9, ConstantsAssumption DEF CallAgain, TypeOK, State, Reply, Outcome, gateway
  <2>2. \A d \in Calls \ {c} : Still(d)
    BY <1>9 DEF CallAgain, Still, TypeOK
  <2>3. state'[c] = "idle" /\ reply'[c] = "none" /\ outcome'[c] = "none"
    BY <1>9 DEF CallAgain, TypeOK
  <2>4. AnswerIsTrue(c)' /\ CancelEnded(c)'
    BY <2>3 DEF AnswerIsTrue, CancelEnded
  <2>5. c \in Waiters => LastAsked(c)' /\ Budget(c)' /\ WaitEnded(c)'
    BY <1>9, <2>3 DEF CallAgain, LastAsked, Budget, WaitEnded
  <2>6. StoriesAreTrue'
    BY <1>1, <1>9, StoriesStay DEF CallAgain
  <2> QED
    BY <1>1, <2>1, <2>2, <2>4, <2>5, <2>6, OneCallMoves
<1>10. ASSUME NEW c \in Cancellers, AskCancel(c) \/ ReceiveCancel(c)
       PROVE  ClientInv'
  <2>1. c \in Calls /\ c \notin Waiters
    BY <1>10, ConstantsAssumption DEF Calls
  <2>2. /\ CancelEnd(reply[c]) \in Outcome
        /\ CancelEnd(reply[c]) = "cancelled" => reply[c] = "200"
        /\ CancelEnd(reply[c]) = "not_cancellable" => reply[c] = "409"
        /\ CancelEnd(reply[c]) = "not_found" => reply[c] = "404"
        /\ CancelEnd(reply[c]) \notin {"result", "failed"}
    BY DEF CancelEnd, Outcome
  <2>3. TypeOK'
    BY <1>10, <2>1, <2>2 DEF AskCancel, ReceiveCancel, TypeOK, State, gateway, history
  <2>4. \A d \in Calls \ {c} : Still(d)
    BY <1>10 DEF AskCancel, ReceiveCancel, Still, TypeOK, history
  <2>5. AnswerIsTrue(c)'
    BY <1>0, <1>10, <2>1 DEF AskCancel, ReceiveCancel, AnswerIsTrue
  <2>6. CancelEnded(c)'
    <3>1. AnswerIsTrue(c)
      BY <2>1
    <3> QED
      BY <1>0, <1>10, <2>1, <2>2, <3>1 DEF AskCancel, ReceiveCancel, CancelEnded, AnswerIsTrue, TypeOK,
         RefusalStands
  <2>7. StoriesAreTrue'
    <3>1. AnswerIsTrue(c)
      BY <2>1
    <3> QED
      BY <1>0, <1>10, <2>2, <3>1 DEF AskCancel, ReceiveCancel, StoriesAreTrue, AnswerIsTrue, history, Story
  <2> QED
    BY <1>1, <2>1, <2>3, <2>4, <2>5, <2>6, <2>7, OneCallMoves
<1> QED
  BY <1>3, <1>4, <1>5, <1>6, <1>7, <1>8, <1>9, <1>10, <1>11 DEF Next, Wait, Request, CancelJob

(* What a caller holds, an answer read or a request on its way, was true of *)
(* the job when it was given: the invariant behind the four properties below.*)
THEOREM ClientInvKept == Spec => []ClientInv
BY ClientInit, ClientStep, PTL DEF Spec

(* What a wait() reports is what became of the job.                         *)
THEOREM OutcomeTrue == Spec => []OutcomeIsTrue
<1>1. ClientInv => OutcomeIsTrue
  BY DEF ClientInv, WaitEnded, OutcomeIsTrue, ResultStands, FailureStands, ExpiryStands
<1> QED
  BY <1>1, ClientInvKept, PTL

(* wait() times out only when its time is up and the job was unfinished     *)
(* when it last asked.                                                      *)
THEOREM TimeoutTrue == Spec => []NoFalseTimeout
<1>1. ClientInv => NoFalseTimeout
  BY DEF ClientInv, WaitEnded, NoFalseTimeout
<1> QED
  BY <1>1, ClientInvKept, PTL

(* A wait() fails of a blip only after a whole poll's worth of them in a    *)
(* row, whatever the budget of retries.                                     *)
THEOREM BlipsTrue == Spec => []BlipsTolerated
<1>1. ClientInv => BlipsTolerated
  BY DEF ClientInv, WaitEnded, BlipsTolerated, IsTransient
<1> QED
  BY <1>1, ClientInvKept, PTL

(* No two callers, however many, are told contradicting stories.            *)
THEOREM CallersAgreed == Spec => []CallersAgree
<1>1. ClientInv => CallersAgree
  BY DEF ClientInv, StoriesAreTrue, CallersAgree, ResultStands, FailureStands, RefusalStands
<1> QED
  BY <1>1, ClientInvKept, PTL

-----------------------------------------------------------------------------
(* The commands.                                                            *)

(* Every step of the commands is a step of the client's calls, or none.     *)
LEMMA CommandStepIsClients ==
  ASSUME CommandNext
  PROVE  Next \/ UNCHANGED vars
<1>1. ASSUME Start \/ Post \/ Parse
      PROVE  UNCHANGED vars
  BY <1>1 DEF Start, Post, Parse
<1>2. ASSUME SubmitWaits
      PROVE  Next
  BY <1>2, SubmitterAssumption DEF SubmitWaits, Next
<1>3. ASSUME Meanwhile
      PROVE  Next
  BY <1>3 DEF Meanwhile, Next
<1>4. ASSUME NEW w \in Waiters, OtherWaits(w)
      PROVE  Next
  BY <1>4 DEF OtherWaits, Next
<1>5. ASSUME NEW c \in Cancellers, CancelRuns(c)
      PROVE  Next
  BY <1>5 DEF CancelRuns, Next
<1>6. ASSUME NEW c \in Calls, RunAgain(c)
      PROVE  Next
  BY <1>6 DEF RunAgain, Next
<1> QED
  BY <1>1, <1>2, <1>3, <1>4, <1>5, <1>6 DEF CommandNext

(* The commands use the client as any caller may: they implement it, so     *)
(* every property of ClientWait holds of the calls they make.               *)
THEOREM CommandImplementsClient == CommandSpec => Spec
<1>1. CommandInit => Init
  BY DEF CommandInit
<1>2. [CommandNext]_commandVars => [Next]_vars
  BY CommandStepIsClients DEF commandVars
<1> QED
  BY <1>1, <1>2, PTL DEF CommandSpec, Spec

(* What the shell has seen, and where `submit` is.                          *)
SubmitInv ==
  /\ phase # "over" => exit[Submitter] = "none"
  /\ phase = "posted" => answer # "none"
  /\ answer = "refused" => ~created
  /\ answer = "accepted" => created
  /\ phase = "waiting" => answer = "accepted"

(* "Accepted" is all `submit` ever waits on, and all it says of a job.      *)
SubmitExitIsTrue ==
  /\ exit[Submitter] = "0" => created /\ ResultStands
  /\ exit[Submitter] = "rejected" => answer \in {"refused", "misled"}
  /\ exit[Submitter] = "failed" => FailureStands \/ ExpiryStands
  /\ exit[Submitter] = "still_running" => created /\ answer = "accepted"

CancelExitIsTrue(c) ==
  /\ exit[c] = "0" => stored = "cancelled"
  /\ exit[c] = "failed" => stored \in Ended \/ lost

CommandInv ==
  /\ CommandTypeOK
  /\ SubmitInv
  /\ SubmitExitIsTrue
  /\ \A c \in Cancellers : CancelExitIsTrue(c)

(* What an exit says stays true while the job goes on.                      *)
LEMMA ExitsStayTrue ==
  ASSUME ClientInv, CommandInv, Onward
  PROVE  /\ UNCHANGED <<created, answer>> /\ exit'[Submitter] = exit[Submitter] => SubmitExitIsTrue'
         /\ \A c \in Cancellers : exit'[c] = exit[c] => CancelExitIsTrue(c)'
BY TruthLasts DEF ClientInv, CommandInv, SubmitExitIsTrue, CancelExitIsTrue

LEMMA CommandInitial == CommandInit => ClientInv /\ CommandInv
<1> SUFFICES ASSUME CommandInit
             PROVE  ClientInv /\ CommandInv
  OBVIOUS
<1>1. ClientInv /\ TypeOK
  BY ClientInit DEF CommandInit, ClientInv
<1>2. exit \in [Commands -> Exit]
  BY DEF CommandInit, Exit
<1>3. \A c \in Commands : exit[c] = "none"
  BY DEF CommandInit
<1> QED
  BY <1>1, <1>2, <1>3 DEF CommandInit, CommandInv, CommandTypeOK, SubmitInv, SubmitExitIsTrue,
     CancelExitIsTrue, Commands, Phase, Submission

LEMMA CommandStep ==
  ASSUME ClientInv, CommandInv, [CommandNext]_commandVars
  PROVE  ClientInv' /\ CommandInv'
<1>0. /\ created \in BOOLEAN /\ phase \in Phase /\ answer \in Submission /\ exit \in [Commands -> Exit]
      /\ SubmitInv /\ SubmitExitIsTrue
      /\ \A c \in Cancellers : CancelExitIsTrue(c)
  BY DEF CommandInv, CommandTypeOK
<1> USE <1>0 DEF command
<1>1. [Next]_vars
  BY CommandStepIsClients DEF commandVars
<1>2. ClientInv' /\ TypeOK' /\ Onward
  BY <1>1, ClientStep, GatewayGoesOn DEF ClientInv
<1> SUFFICES CommandInv'
  BY <1>2
<1>3. /\ Submitter \in Commands /\ Submitter \in Waiters
      /\ \A c \in Cancellers : c # Submitter /\ c \in Commands
  BY SubmitterAssumption, ConstantsAssumption DEF Commands
<1>4. ASSUME UNCHANGED command
      PROVE  CommandInv'
  BY <1>2, <1>4, ExitsStayTrue DEF SubmitInv, CommandInv, CommandTypeOK
<1>5. ASSUME exit' \in [Commands -> Exit], \A c \in Cancellers : exit'[c] = exit[c],
             created' \in BOOLEAN, phase' \in Phase, answer' \in Submission, SubmitInv',
             SubmitExitIsTrue'
      PROVE  CommandInv'
  BY <1>2, <1>5, ExitsStayTrue DEF CommandInv, CommandTypeOK
<1>6. CASE Start
  <2>1. /\ UNCHANGED <<created, answer>> /\ phase' \in {"posting", "over"} /\ phase = "start"
        /\ exit' = exit \/ (phase' = "over" /\ exit' = [exit EXCEPT ![Submitter] = "usage"])
    BY <1>6 DEF Start
  <2>2. exit' \in [Commands -> Exit] /\ \A c \in Cancellers : exit'[c] = exit[c]
    BY <1>3, <2>1 DEF Exit
  <2>3. exit'[Submitter] \in {exit[Submitter], "usage"}
    BY <1>3, <2>1
  <2>4. SubmitInv'
    BY <2>1, <2>3 DEF SubmitInv
  <2>5. SubmitExitIsTrue'
    BY <1>2, <2>1, <2>3, ExitsStayTrue DEF SubmitExitIsTrue
  <2> QED
    BY <1>5, <2>1, <2>2, <2>4, <2>5 DEF Phase
<1>7. CASE Post
  <2>1. UNCHANGED <<vars, exit>> /\ phase' = "posted" /\ phase = "posting"
    BY <1>7 DEF Post
  <2>2. created' \in BOOLEAN /\ answer' \in Submission /\ SubmitInv'
    BY <1>7 DEF Post, SubmitInv, Submission
  <2>3. SubmitExitIsTrue'
    BY <2>1 DEF SubmitInv, SubmitExitIsTrue
  <2> QED
    BY <1>5, <2>1, <2>2, <2>3 DEF Phase
<1>8. CASE Parse
  <2>1. UNCHANGED <<created, answer>> /\ phase = "posted"
    BY <1>8 DEF Parse
  <2>2. SubmitEnd(answer) \in {"none", "unreachable", "rejected"}
    BY DEF SubmitEnd
  <2>3. exit' \in [Commands -> Exit] /\ exit'[Submitter] = SubmitEnd(answer)
        /\ \A c \in Cancellers : exit'[c] = exit[c]
    BY <1>3, <1>8, <2>2 DEF Parse, Exit
  <2>4. SubmitEnd(answer) = "rejected" => answer \in {"refused", "misled"}
    BY <2>1 DEF SubmitEnd, SubmitInv, Submission
  <2>5. SubmitExitIsTrue'
    BY <2>1, <2>2, <2>3, <2>4 DEF SubmitExitIsTrue
  <2>6. phase' \in Phase /\ (phase' = "waiting" => answer = "accepted")
    BY <1>8 DEF Parse, SubmitEnd, Phase, Submission
  <2>7. SubmitInv'
    BY <1>8, <2>1, <2>6 DEF SubmitInv, Parse
  <2> QED
    BY <1>5, <2>1, <2>3, <2>5, <2>6, <2>7
<1>9. CASE SubmitWaits
  <2>1. UNCHANGED <<created, answer>> /\ phase = "waiting" /\ Wait(Submitter)
    BY <1>9 DEF SubmitWaits
  <2>2. CASE state'[Submitter] # "done"
    BY <1>4, <1>9, <2>1, <2>2 DEF SubmitWaits
  <2>3. CASE state'[Submitter] = "done"
    <3> DEFINE e == outcome'[Submitter]
    <3>1. phase' = "over" /\ exit' = [exit EXCEPT ![Submitter] = WaitExit(e)]
      BY <1>9, <2>3 DEF SubmitWaits
    <3>2. /\ WaitExit(e) \in {"0", "failed", "still_running", "unreachable", "traceback"}
          /\ WaitExit(e) = "0" => e = "result"
          /\ WaitExit(e) = "failed" => e \in {"failed", "expired"}
      BY DEF WaitExit
    <3>3. exit' \in [Commands -> Exit] /\ exit'[Submitter] = WaitExit(e)
          /\ \A c \in Cancellers : exit'[c] = exit[c]
      BY <1>3, <3>1, <3>2 DEF Exit
    <3>4. WaitEnded(Submitter)'
      BY <1>2, <1>3 DEF ClientInv
    <3>5. created /\ answer = "accepted"
      BY <2>1 DEF SubmitInv
    <3>6. SubmitExitIsTrue'
      BY <2>1, <3>2, <3>3, <3>4, <3>5 DEF SubmitExitIsTrue, WaitEnded
    <3> QED
      BY <1>5, <2>1, <3>1, <3>3, <3>5, <3>6 DEF SubmitInv, Phase
  <2> QED
    BY <2>2, <2>3
<1>10. CASE Meanwhile \/ (\E w \in Waiters : OtherWaits(w))
  BY <1>4, <1>10 DEF Meanwhile, OtherWaits
<1>11. ASSUME NEW c \in Cancellers, CancelRuns(c)
       PROVE  CommandInv'
  <2> DEFINE e == outcome'[c]
  <2>1. UNCHANGED <<created, phase, answer>>
    BY <1>11 DEF CancelRuns
  <2>2. /\ CancelExit(e) \in {"0", "unreachable", "http", "failed"}
        /\ CancelExit(e) = "0" => e = "cancelled"
        /\ CancelExit(e) = "failed" => e \notin {"cancelled", "network", "http"}
    BY DEF CancelExit
  <2>3. CASE exit' = exit
    BY <1>4, <2>1, <2>3
  <2>4. CASE exit' = [exit EXCEPT ![c] = CancelExit(e)] /\ ReceiveCancel(c)
    <3>1. exit' \in [Commands -> Exit] /\ exit'[Submitter] = exit[Submitter] /\ exit'[c] = CancelExit(e)
          /\ \A d \in Cancellers \ {c} : exit'[d] = exit[d]
      BY <1>3, <2>2, <2>4 DEF Exit
    <3>2. e \in {"network", "not_found", "not_cancellable", "cancelled", "http"}
      BY <2>4 DEF ReceiveCancel, CancelEnd, ClientInv, TypeOK, Calls
    <3>3. CancelEnded(c)'
      BY <1>2 DEF ClientInv
    <3>4. CancelExitIsTrue(c)'
      BY <2>2, <3>1, <3>2, <3>3 DEF CancelEnded, CancelExitIsTrue
    <3> QED
      BY <1>2, <2>1, <3>1, <3>4, ExitsStayTrue DEF SubmitInv, CommandInv, CommandTypeOK
  <2> QED
    BY <1>11, <2>3, <2>4 DEF CancelRuns
<1>12. ASSUME NEW c \in Calls, RunAgain(c)
       PROVE  CommandInv'
  <2>1. UNCHANGED <<created, phase, answer>>
    BY <1>12 DEF RunAgain
  <2>2. exit' = [d \in Commands |-> IF d = c THEN "none" ELSE exit[d]]
    BY <1>12 DEF RunAgain
  <2>3. exit' \in [Commands -> Exit] /\ \A d \in Commands : exit'[d] \in {exit[d], "none"}
    BY <2>2 DEF Exit
  <2>4. SubmitExitIsTrue'
    BY <1>2, <1>3, <2>1, <2>3, ExitsStayTrue DEF SubmitExitIsTrue
  <2>5. \A d \in Cancellers : CancelExitIsTrue(d)'
    BY <1>2, <1>3, <2>3, ExitsStayTrue DEF CancelExitIsTrue
  <2> QED
    BY <1>2, <1>3, <2>1, <2>3, <2>4, <2>5 DEF SubmitInv, CommandInv, CommandTypeOK
<1>13. CASE UNCHANGED commandVars
  BY <1>4, <1>13 DEF commandVars
<1> QED
  BY <1>2, <1>6, <1>7, <1>8, <1>9, <1>10, <1>11, <1>12, <1>13 DEF CommandNext

(* What the shell is told is what became of the job, whatever happened to   *)
(* the request and to the wait.                                             *)
THEOREM ExitTrue == CommandSpec => [](CommandTypeOK /\ ExitIsTrue)
<1>1. CommandInv => CommandTypeOK /\ ExitIsTrue
  BY DEF CommandInv, SubmitInv, SubmitExitIsTrue, CancelExitIsTrue, ExitIsTrue, ResultStands, FailureStands,
     ExpiryStands
<1> QED
  BY <1>1, CommandInitial, CommandStep, PTL DEF CommandSpec

=============================================================================
