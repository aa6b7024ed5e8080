------------------------------ MODULE HttpSubmit ------------------------------
(***************************************************************************)
(* POST /v1/{capability}: the submit handler in front of                   *)
(* JobManager.submit().  It checks a request in a fixed order, reads its   *)
(* body chunk by chunk and has its webhook host resolved in a thread, two  *)
(* awaits between which other requests, store calls and crashes step.      *)
(*                                                                         *)
(* It extends IdempotentSubmit: the calls in Remote are made by a request, *)
(* the others in process.  A request is told apart by what is wrong with   *)
(* it.  A name X_Variant is X with a plausible fault; no action uses one.  *)
(***************************************************************************)
EXTENDS IdempotentSubmit

CONSTANTS
  Remote,        \* calls made by an HTTP request
  Requests,      \* the sets of flaws a request may have
  MaxBody,       \* max_body_bytes, in chunks
  AllowPrivate   \* allow_private_webhooks

(* key: no or another API key;  name: not a capability name;  longkey: an   *)
(* Idempotency-Key of over 255 characters;  oversized: a body of more than  *)
(* MaxBody;  json: not a non-empty JSON object;  url: a webhook_url that is *)
(* not an http(s) URL;  private: one whose host has a non-public address;   *)
(* capability: no provider is registered.                                   *)
Flaw == {"key", "name", "longkey", "oversized", "json", "url", "private", "capability"}

ASSUME HttpAssumption ==
  /\ Remote \subseteq Calls
  /\ Requests \subseteq SUBSET Flaw
  /\ MaxBody \in Nat \ {0}
  /\ AllowPrivate \in BOOLEAN

VARIABLES
  door,      \* [Remote -> Door] where the handler is
  flaws,     \* [Remote -> SUBSET Flaw] of the request being handled
  taken,     \* [Remote -> Nat] chunks of its body held in memory
  status,    \* [Remote -> Nat] the answer's status code, 0: none
  created    \* ajg_jobs_created_total of this process

(* inside: in manager.submit();  gone: no answer, the client went away      *)
(* while its body was read or the process died.                             *)
Door == {"outside", "reading", "resolving", "inside", "answered", "gone"}

doorVars == <<door, flaws, taken, status>>
httpVars == <<vars, doorVars, created>>

HttpInit ==
  /\ Init
  /\ door = [c \in Remote |-> IF call[c] = "idle" THEN "outside" ELSE "gone"]
  /\ flaws = [c \in Remote |-> {}]
  /\ taken = [c \in Remote |-> 0]
  /\ status = [c \in Remote |-> 0]
  /\ created = 0

-----------------------------------------------------------------------------
(* The checks before the body is read, in order; 0: none refuses.           *)
HeadRefusal(f) ==
  CASE "key" \in f -> 401 [] {"name", "longkey"} \cap f # {} -> 422 [] OTHER -> 0

Answer(c, code) ==
  /\ door' = [door EXCEPT ![c] = "answered"]
  /\ status' = [status EXCEPT ![c] = code]
  /\ flaws' = [flaws EXCEPT ![c] = {}]
  /\ taken' = [taken EXCEPT ![c] = 0]

Proceed(c, next) == /\ door' = [door EXCEPT ![c] = next]
                    /\ taken' = [taken EXCEPT ![c] = 0]
                    /\ UNCHANGED status

(* The request arrives.  A Content-Length that is right refuses a long body *)
(* at once; a chunked request has none, and a malformed one is ignored.     *)
Receive(c) ==
  /\ door[c] = "outside"
  /\ \E f \in Requests :
       \/ HeadRefusal(f) # 0 /\ Answer(c, HeadRefusal(f))
       \/ HeadRefusal(f) = 0 /\ "oversized" \in f /\ Answer(c, 413)
       \/ /\ HeadRefusal(f) = 0
          /\ Proceed(c, "reading")
          /\ flaws' = [flaws EXCEPT ![c] = f]
  /\ UNCHANGED <<vars, created>>

(* A chunk arrives: counted, and kept unless the total is over the limit.   *)
Exceeds(n) == n > MaxBody

Chunk(c) ==
  /\ door[c] = "reading"
  /\ taken[c] <= MaxBody
  /\ "oversized" \notin flaws[c] => taken[c] < MaxBody
  /\ IF Exceeds(taken[c] + 1)
       THEN Answer(c, 413)
       ELSE /\ taken' = [taken EXCEPT ![c] = @ + 1]
            /\ UNCHANGED <<door, flaws, status>>
  /\ UNCHANGED <<vars, created>>

(* The client goes away: ClientDisconnect.                                  *)
Disconnect(c) ==
  /\ door[c] = "reading"
  /\ Proceed(c, "gone")
  /\ flaws' = [flaws EXCEPT ![c] = {}]
  /\ UNCHANGED <<vars, created>>

(* manager.submit() up to its first await; an unknown capability ends it.   *)
Hand(c) ==
  IF "capability" \in flaws[c]
    THEN Answer(c, 404) /\ UNCHANGED vars
    ELSE Arrive(c) /\ Proceed(c, "inside") /\ UNCHANGED flaws

(* The body ends and is parsed.  A webhook_url whose destination matters is *)
(* resolved in a thread; without one the manager is called in this step.    *)
(* Bytes that are no text, and a URL urlsplit() raises on, are a 500.       *)
BodyEnds(c) ==
  /\ door[c] = "reading"
  /\ "oversized" \in flaws[c] => taken[c] > MaxBody
  /\ \/ /\ {"json", "url"} \cap flaws[c] # {}
        /\ \E code \in {422, 500} : Answer(c, code)
        /\ UNCHANGED vars
     \/ /\ {"json", "url"} \cap flaws[c] = {}
        /\ \/ ~AllowPrivate /\ Proceed(c, "resolving") /\ UNCHANGED <<vars, flaws>>
           \/ (AllowPrivate \/ "private" \notin flaws[c]) /\ Hand(c)
  /\ UNCHANGED created

(* The resolver answers.  One non-public address refuses the request, and   *)
(* so does a name that did not resolve.                                     *)
Refuses_FailsOpen(c, answered) == answered /\ "private" \in flaws[c]

Refuses(c, answered) == ~answered \/ "private" \in flaws[c]

Resolved(c) ==
  /\ door[c] = "resolving"
  /\ \E answered \in BOOLEAN :
       IF Refuses(c, answered) THEN Answer(c, 422) /\ UNCHANGED vars ELSE Hand(c)
  /\ UNCHANGED created

-----------------------------------------------------------------------------
(* What the handler makes of manager.submit()'s return or exception.        *)
StatusOf_ReuseIsARetry(c) == IF call'[c] = "failed" THEN 500 ELSE 202

StatusOf(c) == CASE call'[c] = "failed" -> 500
                 [] reply'[c] = "refused" -> 422
                 [] OTHER -> 202

(* _new_record counts the job, before the first store call that keeps it.   *)
Counted_EachSubmit(c) == call[c] = "recalling" /\ call'[c] # "recalling"

Counted(c) == call[c] # "remembering" /\ call'[c] = "remembering"

Inner(c) ==
  /\ CallStep(c) \/ Raises(c)
  /\ created' = IF Counted(c) THEN created + 1 ELSE created
  /\ IF c \in Remote /\ call'[c] \in Over
       THEN Answer(c, StatusOf(c))
       ELSE UNCHANGED doorVars

Die ==
  /\ Crash
  /\ door' = [c \in Remote |-> IF door[c] \in {"reading", "resolving", "inside"}
                                 THEN "gone" ELSE door[c]]
  /\ flaws' = [c \in Remote |-> {}]
  /\ taken' = [c \in Remote |-> 0]
  /\ created' = 0
  /\ UNCHANGED status

Handler(c) ==
  Receive(c) \/ Chunk(c) \/ Disconnect(c) \/ BodyEnds(c) \/ Resolved(c)

InProcess(c) == (Arrive(c) \/ Abort(c)) /\ UNCHANGED <<doorVars, created>>

HttpNext ==
  \/ \E c \in Remote : Handler(c)
  \/ \E c \in Calls \ Remote : InProcess(c)
  \/ \E c \in Calls : Inner(c)
  \/ Die

HttpSpec == HttpInit /\ [][HttpNext]_httpVars

(* The store answers and the loop resumes whoever is ready.  Nothing makes  *)
(* a client send its body.                                                  *)
FairHttpSpec == HttpSpec /\ \A c \in Calls : WF_httpVars(Inner(c) /\ ~Raises(c))

-----------------------------------------------------------------------------
(* Every variable of the handler has its type.                              *)
HttpTypeOK ==
  /\ door \in [Remote -> Door]
  /\ flaws \in [Remote -> SUBSET Flaw]
  /\ taken \in [Remote -> 0 .. MaxBody]
  /\ status \in [Remote -> {0, 202, 401, 404, 413, 422, 500}]
  /\ created \in Nat

(* A request with anything wrong with it never gets into submit(): it takes *)
(* no lock and no key, and leaves no row.  And no request, whatever it says *)
(* of its length, has more than max_body_bytes held for it.                 *)
RefusedLeavesNoTrace == \A c \in Remote :
  /\ flaws[c] \ (IF AllowPrivate THEN {"private"} ELSE {}) # {} => call[c] = "idle"
  /\ taken[c] <= MaxBody

(* The status code says what became of the request: 202 means that a job    *)
(* made from this very request is on record, and any other code that this   *)
(* one made none, whatever other requests with its key are doing.           *)
AnswersAreHonest == \A c \in Remote :
  /\ status[c] = 202 => \E d \in rows : reply[c] = d /\ RequestOf[d] = RequestOf[c]
  /\ status[c] \notin {0, 202} => c \notin rows

(* "One per job actually created": the counter is off only by the store     *)
(* calls that raised after it moved, and by jobs whose rows are on the way. *)
CountsEachJob ==
  LET made == {c \in rows : lockOf[c] # NoCall}
      coming == {c \in Calls : call[c] \in {"remembering", "stamping", "creating"}}
  IN  crashes = 0 => created - Cardinality(made \cup coming) \in 0 .. faults

=============================================================================
