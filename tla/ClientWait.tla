----------------------------- MODULE ClientWait -----------------------------
(***************************************************************************)
(* Clients of one job: calls of JobHandle.wait(), each a loop of polls     *)
(* that retry blips, and calls of JobHandle.cancel(), over a network that  *)
(* may lose a request or its answer and behind a proxy that may answer for *)
(* the gateway.  The gateway's cancel() claims the job and writes later:   *)
(* over SQLite a write of the job's run that was already on its way lands  *)
(* in between, and can be read there.  The store's calls do not fail, and  *)
(* a job's id is told only after its task's first step.                    *)
(*                                                                         *)
(* A request is three steps: sent, answered (the status is read then), and *)
(* received; everything the code does up to its next await is in the step  *)
(* that receives.  A name X_Variant is X with a plausible fault in it; no  *)
(* action uses one.                                                        *)
(***************************************************************************)
EXTENDS Naturals

CONSTANTS
  Waiters,      \* calls of wait() on handles of the job
  Cancellers,   \* calls of cancel()
  Retries,      \* POLL_RETRY_ATTEMPTS
  Stores,       \* the stores the gateway may run on, out of Store
  MaxRestarts   \* bound: restarts of the gateway

Calls == Waiters \cup Cancellers

Store == {"sqlite", "memory"}

ASSUME ConstantsAssumption ==
  /\ Waiters \cap Cancellers = {}
  /\ {Retries, MaxRestarts} \subseteq Nat
  /\ Stores \subseteq Store

VARIABLES
  store,     \* the gateway's store
  stored,    \* the job's stored status; "cancelled" is ERROR with that error
  expired,   \* past result_expires_at
  lost,      \* the record went with the process
  restarts,
  cancelling,  \* the stored status a cancellation under way claimed the job at
  overtaken,   \* history: the outcome written while a cancellation was under way
  state,     \* [Calls -> State]
  attempt,   \* [Waiters -> 0 .. Retries] poll()'s attempt
  reply,     \* [Calls -> Reply] the last answer on its way
  outcome,   \* [Calls -> Outcome] what the call returned or raised
  overdue,   \* waiters whose deadline has passed
  joined,    \* calls of cancel() that wait for a cancellation to be written
  unfinished,  \* history: waiters whose last request left an unfinished job
  blips,     \* history: [Waiters -> Nat] blips in a row
  stories    \* history: what calls have told of the job, out of Story

gateway == <<store, stored, expired, lost, restarts, cancelling, overtaken>>
history == <<unfinished, blips, stories>>
clients == <<state, attempt, reply, outcome, overdue, joined>>
vars == <<gateway, clients, history>>

Unfinished == {"pending", "processing"}
Ended == {"ready", "error", "cancelled"}

(* idle, asking (request sent), answered, resting (backoff of a retry),     *)
(* pausing (poll_interval), done.                                           *)
State == {"idle", "asking", "answered", "resting", "pausing", "done"}

(* An answer: a body's status, a status code, or "lost" for a               *)
(* TransportError.  "unavailable" is one of TRANSIENT_POLL_STATUS_CODES,    *)
(* "broken" any other status raise_for_status() raises on.                  *)
Reply == Unfinished \cup {"ready", "error", "200", "404", "409", "410",
                          "lost", "unavailable", "broken", "none"}
Outcome == {"none", "result", "failed", "expired", "timeout", "not_found", "network",
            "http", "cancelled", "not_cancellable"}

Story == {"result", "failed", "cancelled", "not_cancellable"}

(* The status get_job and cancel_job find.                                  *)
Displayed ==
  IF lost THEN "unknown"
  ELSE IF expired THEN "expired"
  ELSE IF stored = "cancelled" THEN "error" ELSE stored

Init ==
  /\ store \in Stores
  /\ stored = "pending" /\ expired = FALSE /\ lost = FALSE /\ restarts = 0
  /\ cancelling = "none" /\ overtaken = "none"
  /\ state = [c \in Calls |-> "idle"]
  /\ attempt = [w \in Waiters |-> 0]
  /\ reply = [c \in Calls |-> "none"]
  /\ outcome = [c \in Calls |-> "none"]
  /\ overdue = {} /\ joined = {}
  /\ unfinished = {}
  /\ blips = [w \in Waiters |-> 0]
  /\ stories = {}

-----------------------------------------------------------------------------
(* The gateway.                                                             *)

(* A claimed job's run records nothing more, but over SQLite the write that *)
(* was in its worker thread when the cancellation began still lands.        *)
RunWrites == cancelling = "none" \/ (store = "sqlite" /\ cancelling = stored)

Progress ==
  /\ ~lost /\ RunWrites
  /\ \/ stored = "pending" /\ stored' = "processing"
     \/ stored = "processing" /\ stored' \in {"ready", "error"}
  /\ overtaken' = IF cancelling # "none" /\ stored' \in Ended THEN stored' ELSE overtaken
  /\ UNCHANGED <<store, expired, lost, restarts, cancelling, clients, history>>

Expire ==
  /\ ~lost /\ ~expired /\ stored \in Ended
  /\ expired' = TRUE
  /\ UNCHANGED <<store, stored, lost, restarts, cancelling, overtaken, clients, history>>

(* The next process fails what the last one left unfinished, or has never   *)
(* heard of the job.  Nobody answers a call that waited for the last one.   *)
Restart ==
  /\ restarts < MaxRestarts
  /\ restarts' = restarts + 1
  /\ stored' = IF store = "sqlite" /\ stored \in Unfinished THEN "error" ELSE stored
  /\ lost' = (store = "memory")
  /\ cancelling' = "none"
  /\ UNCHANGED <<store, expired, overtaken, clients, history>>

Answer(c, r) ==
  /\ state[c] = "asking"
  /\ state' = [state EXCEPT ![c] = "answered"]
  /\ reply' = [reply EXCEPT ![c] = r]
  /\ joined' = joined \ {c}
  /\ UNCHANGED <<attempt, outcome, overdue, history>>

GetJob(w) ==
  /\ Answer(w, CASE Displayed = "unknown" -> "404"
                 [] Displayed = "expired" -> "410"
                 [] OTHER -> Displayed)
  /\ UNCHANGED gateway

Cancellable_ReadyToo == Displayed \in Unfinished \cup {"ready"}

Cancellable == Displayed \in Unfinished

(* cancel() claims the job, or joins the call that did, and waits: for the  *)
(* provider to let go, no longer than the grace period, and for the write.  *)
CancelBegins(c) ==
  /\ state[c] = "asking" /\ c \notin joined
  /\ cancelling # "none" \/ Cancellable
  /\ cancelling' = IF cancelling = "none" THEN stored ELSE cancelling
  /\ joined' = joined \cup {c}
  /\ UNCHANGED <<store, stored, expired, lost, restarts, overtaken,
                 state, attempt, reply, outcome, overdue, history>>

(* The write of the cancellation lands, over whatever is there by now.      *)
CancelWrites ==
  /\ cancelling # "none"
  /\ stored' = "cancelled" /\ expired' = FALSE
  /\ cancelling' = "none"
  /\ UNCHANGED <<store, lost, restarts, overtaken, clients, history>>

CancelAnswers(c) ==
  /\ c \in joined /\ stored = "cancelled"
  /\ Answer(c, "200")
  /\ UNCHANGED gateway

(* There is nothing to cancel.  An expired record of the cancellation is    *)
(* still returned while a provider that did not let go keeps it at hand.    *)
CancelFinds(c) ==
  /\ c \notin joined /\ cancelling = "none" /\ ~Cancellable
  /\ \/ lost /\ Answer(c, "404")
     \/ ~lost /\ stored = "cancelled" /\ Answer(c, "200")
     \/ ~lost /\ (stored # "cancelled" \/ expired) /\ Answer(c, "409")
  /\ UNCHANGED gateway

CancelJob(c) == CancelBegins(c) \/ CancelAnswers(c) \/ CancelFinds(c)

(* No answer of the gateway's: the network fails, the proxy answers, or the *)
(* handler raises; also to a call whose cancellation is being, or has been, *)
(* carried out.                                                             *)
Disturb(c) ==
  /\ \E r \in {"lost", "unavailable", "broken"} : Answer(c, r)
  /\ UNCHANGED gateway

-----------------------------------------------------------------------------
(* wait() and poll().                                                       *)

IsTransient(r) == r = "unavailable"

IsExpired(r) == r = "410"

Blip(r) == r = "lost" \/ IsTransient(r)

(* The schedule of backoffs is used up: their length is not modelled.       *)
Last(w) == attempt[w] = Retries

FirstAttempt_KeepsBudget(w) == attempt[w]

(* The attempt a poll begins at: `attempt` is a variable of poll() itself.  *)
FirstAttempt(w) == 0

PollEnd_RaiseFirst(r) ==
  CASE r = "lost" -> "network"
    [] r = "404" -> "not_found"
    [] r \in {"410", "unavailable", "broken"} -> "http"
    [] OTHER -> "none"

(* What poll() raises on r, its last answer; "none": it returns the record. *)
PollEnd(r) ==
  CASE r = "lost" -> "network"
    [] r = "404" -> "not_found"
    [] IsExpired(r) -> "expired"
    [] r \in {"unavailable", "broken"} -> "http"
    [] OTHER -> "none"

WaitEnd_DeadlineFirst(w, r) ==
  CASE PollEnd(r) # "none" -> PollEnd(r)
    [] w \in overdue -> "timeout"
    [] r = "ready" -> "result"
    [] r = "error" -> "failed"
    [] OTHER -> "none"

(* What wait() then returns or raises; "none": the job is unfinished.       *)
WaitEnd(w, r) ==
  CASE PollEnd(r) # "none" -> PollEnd(r)
    [] r = "ready" -> "result"
    [] r = "error" -> "failed"
    [] r \in Unfinished /\ w \in overdue -> "timeout"
    [] OTHER -> "none"

Deadlines_RenewedByPoll(w) == overdue \ {w}

(* A poll begins; deadline was set once, before the loop.                   *)
Deadlines(w) == overdue

Send(w, n) ==
  /\ state' = [state EXCEPT ![w] = "asking"]
  /\ attempt' = [attempt EXCEPT ![w] = n]
  /\ unfinished' = IF Displayed \in Unfinished THEN unfinished \cup {w} ELSE unfinished \ {w}
  /\ UNCHANGED <<gateway, reply, outcome, joined, blips, stories>>

Poll(w) ==
  /\ state[w] \in {"idle", "pausing"}
  /\ Send(w, FirstAttempt(w))
  /\ overdue' = Deadlines(w)

Retry(w) ==
  /\ state[w] = "resting"
  /\ Send(w, attempt[w] + 1)
  /\ UNCHANGED overdue

Receive(w) ==
  LET r == reply[w]
      end == WaitEnd(w, r)
      again == ~Last(w) /\ Blip(r)
  IN  /\ state[w] = "answered"
      /\ state' = [state EXCEPT ![w] = IF again THEN "resting"
                                       ELSE IF end = "none" THEN "pausing" ELSE "done"]
      /\ outcome' = IF again THEN outcome ELSE [outcome EXCEPT ![w] = end]
      /\ blips' = [blips EXCEPT ![w] = IF r \in {"lost", "unavailable"} THEN @ + 1 ELSE 0]
      /\ reply' = IF state'[w] = "done" THEN reply ELSE [reply EXCEPT ![w] = "none"]
      /\ stories' = stories \cup ({outcome'[w]} \cap Story)
      /\ UNCHANGED <<gateway, attempt, overdue, joined, unfinished>>

(* time.monotonic() reaches the deadline of a wait() under way.             *)
Deadline(w) ==
  /\ state[w] \notin {"idle", "done"} /\ w \notin overdue
  /\ overdue' = overdue \cup {w}
  /\ UNCHANGED <<gateway, state, attempt, reply, outcome, joined, history>>

-----------------------------------------------------------------------------
(* cancel(): one request, never retried.                                    *)

AskCancel(c) ==
  /\ state[c] = "idle"
  /\ state' = [state EXCEPT ![c] = "asking"]
  /\ UNCHANGED <<gateway, attempt, reply, outcome, overdue, joined, history>>

CancelEnd_ConflictIsDone(r) ==
  CASE r = "lost" -> "network"
    [] r = "404" -> "not_found"
    [] r \in {"200", "409"} -> "cancelled"
    [] OTHER -> "http"

(* What cancel() raises, or "cancelled": it returns the record.             *)
CancelEnd(r) ==
  CASE r = "lost" -> "network"
    [] r = "404" -> "not_found"
    [] r = "409" -> "not_cancellable"
    [] r = "200" -> "cancelled"
    [] OTHER -> "http"

ReceiveCancel(c) ==
  /\ state[c] = "answered"
  /\ state' = [state EXCEPT ![c] = "done"]
  /\ outcome' = [outcome EXCEPT ![c] = CancelEnd(reply[c])]
  /\ stories' = stories \cup ({CancelEnd(reply[c])} \cap Story)
  /\ UNCHANGED <<gateway, attempt, reply, overdue, joined, unfinished, blips>>

(* The same caller calls again: it wait()s once more, or cancels twice.     *)
CallAgain(c) ==
  /\ state[c] = "done"
  /\ state' = [state EXCEPT ![c] = "idle"]
  /\ outcome' = [outcome EXCEPT ![c] = "none"]
  /\ reply' = [reply EXCEPT ![c] = "none"]
  /\ overdue' = overdue \ {c}
  /\ unfinished' = unfinished \ {c}
  /\ blips' = [w \in Waiters |-> IF w = c THEN 0 ELSE blips[w]]
  /\ attempt' = [w \in Waiters |-> IF w = c THEN 0 ELSE attempt[w]]
  /\ UNCHANGED <<gateway, joined, stories>>

-----------------------------------------------------------------------------
Wait(w) == Poll(w) \/ Retry(w) \/ Receive(w)

Request(c) == Disturb(c) \/ (c \in Waiters /\ GetJob(c)) \/ (c \in Cancellers /\ CancelJob(c))

Gateway == Progress \/ Expire \/ Restart \/ CancelWrites

Next ==
  \/ Gateway
  \/ \E c \in Calls : Request(c) \/ CallAgain(c)
  \/ \E w \in Waiters : Wait(w) \/ Deadline(w)
  \/ \E c \in Cancellers : AskCancel(c) \/ ReceiveCancel(c)

Spec == Init /\ [][Next]_vars

(* The event loop runs what is ready, its timers fire and time passes; an   *)
(* HTTP request ends, with an answer or with the client's own timeout.      *)
(* Nothing is assumed of the gateway: it may never finish the job.          *)
Fairness == \A w \in Waiters : WF_vars(Wait(w)) /\ WF_vars(Deadline(w)) /\ WF_vars(Request(w))

FairSpec == Spec /\ Fairness

-----------------------------------------------------------------------------
TypeOK ==
  /\ store \in Stores
  /\ stored \in Unfinished \cup Ended
  /\ {expired, lost} \subseteq BOOLEAN
  /\ restarts \in 0 .. MaxRestarts
  /\ cancelling \in {"none"} \cup Unfinished
  /\ overtaken \in {"none", "ready", "error"}
  /\ state \in [Calls -> State]
  /\ attempt \in [Waiters -> 0 .. Retries]
  /\ reply \in [Calls -> Reply]
  /\ outcome \in [Calls -> Outcome]
  /\ overdue \subseteq Waiters
  /\ joined \subseteq Cancellers
  /\ unfinished \subseteq Waiters
  /\ blips \in [Waiters -> 0 .. Retries + 1]
  /\ stories \subseteq Story

(* A cancellation wrote over the result that its run had recorded while the *)
(* cancellation was under way, and that could be read until then.           *)
Overwritten == store = "sqlite" /\ overtaken = "ready" /\ stored = "cancelled"

(* What a wait() reports is what became of the job: a result is that of a   *)
(* job that is ready, or that a cancellation under way over SQLite, and     *)
(* nothing else, has replaced since; "expired" and "not found" are told     *)
(* apart from each other and from a gateway in trouble.                     *)
OutcomeIsTrue == \A w \in Waiters :
  /\ outcome[w] = "result" => stored = "ready" \/ Overwritten
  /\ outcome[w] = "failed" => stored \in {"error", "cancelled"}
  /\ outcome[w] = "expired" => expired \/ (overtaken # "none" /\ stored = "cancelled")
  /\ outcome[w] = "not_found" => lost
  /\ outcome[w] = "http" => reply[w] \in {"unavailable", "broken"}

(* wait() raises TimeoutError only when its time is up and the job was      *)
(* still unfinished when it last asked: a result that is there is returned, *)
(* however late the answer comes.                                           *)
NoFalseTimeout == \A w \in Waiters :
  outcome[w] = "timeout" => w \in overdue /\ w \in unfinished

(* A blip fails a wait() only if it is the last of a whole poll's worth of  *)
(* them in a row: every poll has a fresh budget of retries.                 *)
BlipsTolerated == \A w \in Waiters :
  (outcome[w] = "network" \/ (outcome[w] = "http" /\ IsTransient(reply[w])))
    => blips[w] = Retries + 1

(* Callers get contradicting stories of one job, a result here and there a  *)
(* failure or a cancelled record, only if the result was recorded while the *)
(* cancellation was under way, over SQLite; never in memory, and never if   *)
(* the cancel() came later.  A cancel() is refused on a cancelled job only  *)
(* when the cancelled record has expired.                                   *)
CallersAgree ==
  /\ "result" \in stories /\ {"failed", "cancelled"} \cap stories # {} => Overwritten
  /\ {"cancelled", "not_cancellable"} \subseteq stories => expired

(* Every wait() returns or raises, also when the job never finishes and     *)
(* when the gateway never answers again.                                    *)
WaitReturns == \A w \in Waiters : (state[w] = "asking") ~> (state[w] = "done")

=============================================================================
