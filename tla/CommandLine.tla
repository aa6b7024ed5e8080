---------------------------- MODULE CommandLine ----------------------------
(***************************************************************************)
(* The commands `submit` and `cancel` over the client of ClientWait: one   *)
(* POST that is never repeated, the wait() on the handle it gives, and the *)
(* exit the shell sees.  The POST may be carried out although its answer   *)
(* is lost, garbled or another server's, so the job may run for a caller   *)
(* that was told it was rejected.                                          *)
(*                                                                         *)
(* Every step is one of ClientWait's or leaves its variables alone.        *)
(***************************************************************************)
EXTENDS ClientWait

CONSTANT Submitter   \* the wait() of the command `submit`

ASSUME SubmitterAssumption == Submitter \in Waiters

Commands == Cancellers \cup {Submitter}

VARIABLES
  created,   \* JobManager.submit made the job
  phase,     \* of `submit`, out of Phase
  answer,    \* to the POST, out of Submission
  exit       \* [Commands -> Exit]

command == <<created, phase, answer, exit>>
commandVars == <<vars, command>>

Phase == {"start", "posting", "posted", "waiting", "over"}

(* "refused": a status >= 400 of the gateway's; "misled": one of a server   *)
(* between, or a success status with a body parse_submission rejects.       *)
Submission == {"none", "accepted", "refused", "misled", "lost"}

(* 0, or the line (or the traceback) that comes with exit status 1.         *)
Exit == {"none", "0", "usage", "unreachable", "rejected", "failed", "still_running",
         "http", "traceback"}

CommandInit ==
  /\ Init
  /\ created = FALSE /\ phase = "start" /\ answer = "none"
  /\ exit = [c \in Commands |-> "none"]

-----------------------------------------------------------------------------
(* `submit`.  Bad params end it before anything is sent.                    *)
Start ==
  /\ phase = "start"
  /\ \/ phase' = "posting" /\ UNCHANGED exit
     \/ phase' = "over" /\ exit' = [exit EXCEPT ![Submitter] = "usage"]
  /\ UNCHANGED <<vars, created, answer>>

(* The POST reaches the gateway, or does not; no header makes it safe to    *)
(* repeat, and nobody repeats it.                                           *)
Post ==
  /\ phase = "posting"
  /\ created' \in BOOLEAN
  /\ answer' \in Submission \ {"none", IF created' THEN "refused" ELSE "accepted"}
  /\ phase' = "posted"
  /\ UNCHANGED <<vars, exit>>

(* client.submit() on the answer; "none": it returns a handle.              *)
SubmitEnd(r) ==
  CASE r = "accepted" -> "none"
    [] r = "lost" -> "unreachable"
    [] OTHER -> "rejected"

Parse ==
  /\ phase = "posted"
  /\ exit' = [exit EXCEPT ![Submitter] = SubmitEnd(answer)]
  /\ phase' = IF SubmitEnd(answer) = "none" THEN "waiting" ELSE "over"
  /\ UNCHANGED <<vars, created, answer>>

(* _submit's handlers: what wait() raises on a 404 or a bad status is none  *)
(* of theirs.                                                               *)
WaitExit(end) ==
  CASE end = "result" -> "0"
    [] end \in {"failed", "expired"} -> "failed"
    [] end = "timeout" -> "still_running"
    [] end = "network" -> "unreachable"
    [] OTHER -> "traceback"

(* A step of the wait() `submit` is in; the command ends with it.           *)
SubmitWaits ==
  /\ phase = "waiting"
  /\ Wait(Submitter)
  /\ IF state'[Submitter] = "done"
     THEN /\ phase' = "over"
          /\ exit' = [exit EXCEPT ![Submitter] = WaitExit(outcome'[Submitter])]
     ELSE UNCHANGED <<phase, exit>>
  /\ UNCHANGED <<created, answer>>

(* Other wait()s on the job, by id; also the submitter's, once the command  *)
(* is over and has told the id.                                             *)
OtherWaits(w) ==
  /\ created /\ (w = Submitter => phase = "over" /\ answer = "accepted")
  /\ Wait(w)
  /\ UNCHANGED command

-----------------------------------------------------------------------------
(* `cancel`.                                                                *)

CancelExit(end) ==
  CASE end = "cancelled" -> "0"
    [] end = "network" -> "unreachable"
    [] end = "http" -> "http"
    [] OTHER -> "failed"

CancelRuns(c) ==
  /\ created
  /\ \/ AskCancel(c) /\ UNCHANGED exit
     \/ /\ ReceiveCancel(c)
        /\ exit' = [exit EXCEPT ![c] = CancelExit(outcome'[c])]
  /\ UNCHANGED <<created, phase, answer>>

(* `cancel` is run again, wait() is called again; `submit` would be another *)
(* job.  The exit that was seen is forgotten.                               *)
RunAgain(c) ==
  /\ c = Submitter => phase = "over"
  /\ CallAgain(c)
  /\ exit' = [d \in Commands |-> IF d = c THEN "none" ELSE exit[d]]
  /\ UNCHANGED <<created, phase, answer>>

(* The gateway, the network, and time.                                      *)
Meanwhile ==
  /\ created
  /\ Gateway \/ (\E c \in Calls : Request(c)) \/ (\E w \in Waiters : Deadline(w))
  /\ UNCHANGED command

CommandNext ==
  \/ Start \/ Post \/ Parse \/ SubmitWaits \/ Meanwhile
  \/ \E w \in Waiters : OtherWaits(w)
  \/ \E c \in Cancellers : CancelRuns(c)
  \/ \E c \in Calls : RunAgain(c)

CommandSpec == CommandInit /\ [][CommandNext]_commandVars

(* As ClientWait's.                                                         *)
CommandFairness ==
  /\ WF_commandVars(SubmitWaits)
  /\ \A w \in Waiters :
       /\ WF_commandVars(OtherWaits(w))
       /\ WF_commandVars(Meanwhile /\ Deadline(w))
       /\ WF_commandVars(Meanwhile /\ Request(w))

FairCommandSpec == CommandSpec /\ CommandFairness

-----------------------------------------------------------------------------
CommandTypeOK ==
  /\ TypeOK
  /\ created \in BOOLEAN /\ phase \in Phase /\ answer \in Submission
  /\ exit \in [Commands -> Exit]

(* What the shell is told is what became of the job.  `submit` exits 0 only *)
(* with the result of a job that is ready, unless a cancellation that was   *)
(* under way already replaces it over SQLite, and `cancel` only if the      *)
(* record is the cancelled one, and exits 1 only if the job has ended or    *)
(* the gateway does not know it; a job said to be rejected runs only if     *)
(* something other than the gateway said so, and one said to be running     *)
(* was submitted.                                                           *)
ExitIsTrue ==
  /\ exit[Submitter] = "0" => created /\ (stored = "ready" \/ Overwritten)
  /\ exit[Submitter] = "rejected" => ~created \/ answer = "misled"
  /\ exit[Submitter] = "failed" => stored \in {"error", "cancelled"} \/ expired
  /\ exit[Submitter] = "still_running" => created /\ answer = "accepted"
  /\ \A c \in Cancellers :
       /\ exit[c] = "0" => stored = "cancelled"
       /\ exit[c] = "failed" => stored \in Ended \/ lost

=============================================================================
