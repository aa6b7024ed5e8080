----------------------------- MODULE ProviderRun -----------------------------
(***************************************************************************)
(* The run phase with its providers opened up: what run() does between its *)
(* awaits in PollinationsImageProvider and LocalMediaProvider, the         *)
(* InstrumentedProvider around every provider and the metrics it keeps     *)
(* under the cancellations and timeouts JobLifecycle sends.                *)
(*                                                                         *)
(* It extends JobLifecycle: provider[j] stays the state of the provider's  *)
(* task, stage[j] says where inside run() it is.  Every other provider,    *)
(* Mock and Echo among them, stays as free as JobLifecycle leaves it.      *)
(* A name X_Variant is X with a plausible fault; no action uses one.       *)
(***************************************************************************)
EXTENDS JobLifecycle

CONSTANTS
  Images,        \* the jobs submitted for generate-image
  Media,         \* the jobs submitted for a media-* capability
  OwnClient,     \* the provider makes its own HTTP client per run
  MaxDownload    \* max_download_bytes, in chunks

ASSUME ImagesAssumption ==
  /\ Images \cup Media \subseteq Jobs /\ Images \cap Media = {}
  /\ OwnClient \in BOOLEAN
  /\ MaxDownload \in Nat \ {0}

VARIABLES
  stage,      \* [Jobs -> Stage]
  buffered,   \* [Jobs -> Nat] chunks of the response held in memory
  body,       \* [Jobs -> Body] what _fetch has come to
  clients,    \* jobs whose own HTTP client is open
  part,       \* jobs whose .part file exists
  final,      \* [Jobs -> File] the file a result's output_path names
  threads,    \* jobs for which a thread runs a toolkit function
  waits,      \* count of ajg_job_queue_wait_seconds
  inFlight,   \* ajg_provider_runs_in_flight
  runs,       \* [Outcome -> Nat] counts of ajg_provider_run_seconds
  late        \* history: jobs whose timer struck after their run had ended

(* created: the task exists, run() has not begun;  requesting: awaits the   *)
(* response's headers;  reading: awaits a chunk;  closing: awaits aclose(); *)
(* saving: the .part file is written, os.replace is the next call;          *)
(* threaded: awaits a thread.                                               *)
Stage == {"none", "created", "working", "requesting", "reading", "closing", "saving",
          "threaded", "over"}
Body == {"none", "image", "other", "failed"}
File == {"none", "whole", "half", "junk"}
Outcome == {"ready", "error", "cancelled"}

metrics == <<waits, inFlight, runs>>
files == <<part, final, threads>>
fetchVars == <<buffered, body, clients>>
runVars == <<stage, fetchVars, files, metrics, late>>
lifecycle == <<stored, webhooks, task, verdict, activeJobs, cancelTargets, cancelling,
               freeSlots, slotWaiters, storeQueue, faults, caller, future, joined, reply>>

RunInit ==
  /\ Init
  /\ stage = [j \in Jobs |-> "none"]
  /\ buffered = [j \in Jobs |-> 0]
  /\ body = [j \in Jobs |-> "none"]
  /\ clients = {} /\ part = {} /\ threads = {}
  /\ final = [j \in Jobs |-> "none"]
  /\ waits = 0 /\ inFlight = 0
  /\ runs = [o \in Outcome |-> 0]
  /\ late = {}

At(j, s) == stage[j] = s /\ LoopFree /\ provider[j] = "running"
Go(j, s) == stage' = [stage EXCEPT ![j] = s]

-----------------------------------------------------------------------------
(* InstrumentedProvider.run: its first step, and the way out, which counts  *)
(* the outcome whether run() returned, raised or was cancelled.             *)
Began == /\ waits' = waits + 1
         /\ inFlight' = inFlight + 1
         /\ UNCHANGED runs

OutcomeOf_ReadyFirst(how) == IF how = "raised" THEN "error" ELSE "ready"

OutcomeOf(how) ==
  CASE how = "result" -> "ready" [] how = "raised" -> "error" [] OTHER -> "cancelled"

Ended(how) ==
  /\ inFlight' = inFlight - 1
  /\ runs' = [runs EXCEPT ![OutcomeOf(how)] = @ + 1]
  /\ UNCHANGED waits

(* run() ends in state `how`.                                               *)
Ends(j, how) ==
  /\ provider' = [provider EXCEPT ![j] = how]
  /\ Go(j, "over")
  /\ Ended(how)
  /\ UNCHANGED lifecycle

(* The provider's task is cancelled before its first step: run() never      *)
(* begins and nothing is counted.                                           *)
NeverBegins(j) ==
  /\ LoopFree /\ stage[j] = "created" /\ provider[j] = "asked"
  /\ provider' = [provider EXCEPT ![j] = "gone"]
  /\ Go(j, "over")
  /\ UNCHANGED <<lifecycle, fetchVars, files, metrics>>

-----------------------------------------------------------------------------
(* run() ends in its first step: params are refused, or the provider is one *)
(* like Echo that awaits nothing.                                           *)
EndsAtOnce(j) ==
  /\ At(j, "created")
  /\ \E how \in {"raised"} \cup (IF j \in Images \cup Media THEN {} ELSE {"result"}) :
       /\ provider' = [provider EXCEPT ![j] = how]
       /\ runs' = [runs EXCEPT ![OutcomeOf(how)] = @ + 1]
  /\ Go(j, "over")
  /\ waits' = waits + 1
  /\ UNCHANGED <<lifecycle, inFlight, fetchVars, files>>

(* Another capability's provider.                                           *)
OtherBegins(j) ==
  /\ j \notin Images \cup Media /\ At(j, "created")
  /\ Go(j, "working")
  /\ Began
  /\ UNCHANGED <<lifecycle, provider, fetchVars, files>>

OtherEnds(j) ==
  /\ stage[j] = "working"
  /\ ProviderEnds(j)
  /\ Go(j, "over")
  /\ Ended(provider'[j])
  /\ UNCHANGED <<fetchVars, files>>

-----------------------------------------------------------------------------
(* LocalMediaProvider.run awaits a thread.  A cancellation ends the await,  *)
(* not the thread: it runs on, although slot and job are done with.         *)
MediaBegins(j) ==
  /\ j \in Media /\ At(j, "created")
  /\ Go(j, "threaded")
  /\ threads' = threads \cup {j}
  /\ Began
  /\ UNCHANGED <<lifecycle, provider, fetchVars, part, final>>

ThreadEnds(j) ==
  /\ j \in threads
  /\ threads' = threads \ {j}
  /\ UNCHANGED <<lifecycle, provider, stage, fetchVars, part, final, metrics>>

MediaEnds(j) ==
  /\ LoopFree /\ stage[j] = "threaded"
  /\ \/ /\ provider[j] = "running" /\ j \notin threads
        /\ \E how \in {"result", "raised"} : Ends(j, how)
     \/ provider[j] = "asked" /\ Ends(j, "gone")
  /\ UNCHANGED <<fetchVars, files>>

-----------------------------------------------------------------------------
(* PollinationsImageProvider.run sends its request.                         *)
ImageBegins(j) ==
  /\ j \in Images /\ At(j, "created")
  /\ Go(j, "requesting")
  /\ clients' = IF OwnClient THEN clients \cup {j} ELSE clients
  /\ Began
  /\ UNCHANGED <<lifecycle, provider, buffered, body, files>>

(* _fetch leaves its inner try: the finally awaits the client's aclose().   *)
Leave(j, b) == /\ Go(j, "closing")
               /\ body' = [body EXCEPT ![j] = b]

(* The headers arrive; a status or content type that is not an image's, a   *)
(* timeout or a transport error is a ProviderError.                         *)
Headers(j) ==
  /\ At(j, "requesting")
  /\ \/ Go(j, "reading") /\ UNCHANGED body
     \/ Leave(j, "failed")
  /\ UNCHANGED <<lifecycle, provider, buffered, clients, files, metrics>>

TooLong(n) == n > MaxDownload

Chunk(j) ==
  /\ At(j, "reading")
  /\ buffered[j] <= MaxDownload
  /\ IF TooLong(buffered[j] + 1)
       THEN Leave(j, "failed") /\ UNCHANGED buffered
       ELSE /\ buffered' = [buffered EXCEPT ![j] = @ + 1]
            /\ UNCHANGED <<stage, body>>
  /\ UNCHANGED <<lifecycle, provider, clients, files, metrics>>

(* The body ends, or the transfer breaks off.  An empty one is an error.    *)
BodyEnds(j) ==
  /\ At(j, "reading")
  /\ \E b \in {"image", "other", "failed"} : Leave(j, IF buffered[j] = 0 THEN "failed" ELSE b)
  /\ UNCHANGED <<lifecycle, provider, buffered, clients, files, metrics>>

(* aclose() returns; the body is judged by its magic bytes, and from here   *)
(* to the return nothing awaits.  Writing the .part file may raise OSError. *)
Accepted(j) == body[j] = "image"

FirstWrite_InPlace(j) == [final EXCEPT ![j] = "half"]

FirstWrite(j) == final

ClientClosed_OnSuccess(j) == IF Accepted(j) THEN clients \ {j} ELSE clients

ClientClosed(j) == clients \ {j}

Fetched(j) ==
  /\ At(j, "closing")
  /\ clients' = ClientClosed(j)
  /\ buffered' = [buffered EXCEPT ![j] = 0]
  /\ \/ /\ Accepted(j)
        /\ part' = part \cup {j}
        /\ final' = FirstWrite(j)
        /\ Go(j, "saving")
        /\ UNCHANGED <<lifecycle, provider, metrics>>
     \/ /\ Accepted(j)
        /\ part' \in {part, part \cup {j}}
        /\ Ends(j, "raised")
        /\ UNCHANGED final
     \/ /\ ~Accepted(j)
        /\ Ends(j, "raised")
        /\ UNCHANGED <<part, final>>
  /\ UNCHANGED <<body, threads>>

Saved(j) ==
  /\ At(j, "saving")
  /\ part' = part \ {j}
  /\ final' = [final EXCEPT ![j] = IF body[j] = "image" THEN "whole" ELSE "junk"]
  /\ Ends(j, "result")
  /\ UNCHANGED <<fetchVars, threads>>

(* CancelledError is thrown into the await run() is suspended in; the       *)
(* finally still closes the client, an await of its own.                    *)
Unwinds(j) ==
  /\ LoopFree /\ provider[j] = "asked"
  /\ buffered' = [buffered EXCEPT ![j] = 0]
  /\ UNCHANGED files
  /\ \/ /\ stage[j] \in {"requesting", "reading"}
        /\ Leave(j, "failed")
        /\ UNCHANGED <<lifecycle, provider, clients, metrics>>
     \/ /\ stage[j] = "closing"
        /\ clients' = clients \ {j}
        /\ Ends(j, "gone")
        /\ UNCHANGED body

StepInRun(j) ==
  \/ NeverBegins(j) \/ EndsAtOnce(j) \/ OtherBegins(j) \/ OtherEnds(j)
  \/ MediaBegins(j) \/ ThreadEnds(j) \/ MediaEnds(j) \/ ImageBegins(j)
  \/ Headers(j) \/ Chunk(j) \/ BodyEnds(j) \/ Fetched(j) \/ Saved(j) \/ Unwinds(j)

(* The manager's own steps; the one that creates a provider's task puts it  *)
(* before its first step.  A cancel() that was ready already may come       *)
(* before that step, the job's timer, armed after it was scheduled, cannot. *)
ManagerStep ==
  /\ \/ \E j \in Jobs : Submit(j) \/ TaskStep(j) \/ (stage[j] # "created" /\ JobTimesOut(j))
     \/ \E c \in Callers : Cancel(c) \/ CallerStep(c)
  /\ stage' = [j \in Jobs |-> IF provider[j] = "none" /\ provider'[j] # "none"
                                THEN "created" ELSE stage[j]]
  /\ late' = late \cup {j \in Jobs : task'[j] = "expired"}
  /\ UNCHANGED <<fetchVars, files, metrics>>

(* Between the two writes of a file nobody else runs; the process may end.  *)
Saving == \E j \in Jobs : stage[j] = "saving"

RunNext ==
  \/ ~Saving /\ ManagerStep
  \/ \E j \in Jobs : (Saving => stage[j] = "saving") /\ StepInRun(j) /\ UNCHANGED late

RunSpec == RunInit /\ [][RunNext]_<<vars, runVars>>

-----------------------------------------------------------------------------
RunTypeOK ==
  /\ stage \in [Jobs -> Stage]
  /\ buffered \in [Jobs -> 0 .. MaxDownload]
  /\ body \in [Jobs -> Body]
  /\ clients \subseteq Jobs /\ part \subseteq Jobs /\ threads \subseteq Media
  /\ final \in [Jobs -> File]
  /\ {waits, inFlight} \subseteq Nat
  /\ runs \in [Outcome -> Nat]
  /\ late \subseteq Jobs

(* At every instant, so also for whoever looks after a crash, an output     *)
(* file is a whole image or is not there; a ready image job has one, and,   *)
(* while the store answers, a job that failed left none ("nothing was       *)
(* written"), unless its timer struck when the image was saved already.     *)
ImagesAreWhole == \A j \in Images :
  /\ final[j] \in {"none", "whole"}
  /\ stored[j] = "ready" => final[j] = "whole"
  /\ faults = 0 /\ stored[j] = "error" /\ j \notin late => final[j] = "none"

(* A job whose run phase is over holds nothing: not a client, not a buffer, *)
(* not a place in the gauge, however it ended; the gauge never exceeds      *)
(* max_concurrent_jobs; and, while the store answers, a thread outlives     *)
(* only a run that was stopped.                                             *)
NothingLeaks ==
  /\ faults = 0 =>
       \A j \in threads \ activeJobs : BeingCancelled(j) \/ stored[j] \in {"error", "cancelled"}
  /\ \A j \in Jobs \ activeJobs : j \notin clients /\ buffered[j] = 0
  /\ inFlight <= Cardinality(activeJobs)
  /\ SlotCap > 0 => inFlight <= SlotCap

(* With every job over and no store call that raised, the run counts tell   *)
(* what the records tell: one "ready" per ready record, one "error" or      *)
(* "cancelled" (a timeout) per failed one; a run that cancel() overtook may *)
(* be counted under any outcome, and a run that had ended when its timer    *)
(* struck is counted as what it came to while its record says error.        *)
Of(s) == Cardinality({j \in Jobs : stored[j] = s})
LateErrors == Cardinality({j \in late : stored[j] = "error"})

CountsMatchRecords ==
  faults = 0 /\ activeJobs = {} /\ (\A j \in Jobs : stored[j] \notin Unfinished) =>
    /\ runs["ready"] \in Of("ready") .. Of("ready") + Of("cancelled") + LateErrors
    /\ runs["error"] + runs["cancelled"] \in
         Of("error") - LateErrors .. Of("error") + Of("cancelled")
    /\ waits = runs["ready"] + runs["error"] + runs["cancelled"]

=============================================================================
