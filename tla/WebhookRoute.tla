----------------------------- MODULE WebhookRoute -----------------------------
(***************************************************************************)
(* What one webhook request is made of: the headers signed as its attempt  *)
(* begins, the wait for a slot, and the guarded client's way to the        *)
(* receiver (resolve, check every address, connect to one that was         *)
(* checked, or use a connection that is still open), while names change    *)
(* their addresses, time passes, and processes with another                *)
(* allow_private_webhooks take over.                                       *)
(*                                                                         *)
(* It extends WebhookDelivery, whose step PostEnds it takes apart.  Each   *)
(* job's URL has a host of its own.  A name X_Variant is X with a          *)
(* plausible fault in it; no action uses one.                              *)
(***************************************************************************)
EXTENDS WebhookDelivery

CONSTANTS
  MayAllow,     \* out of BOOLEAN: the settings of allow_private_webhooks
  Tolerance     \* tolerance_seconds of verify_webhook, in ticks

ASSUME RouteAssumption ==
  /\ MayAllow \subseteq BOOLEAN /\ MayAllow # {}
  /\ Tolerance \in Nat
  /\ Guarded

VARIABLES
  allows,   \* this process's allow_private_webhooks
  hop,      \* [Jobs -> Hop] where the request of a "posting" delivery is
  found,    \* [Jobs -> SUBSET Address] what its host last resolved to
  conn,     \* [Jobs -> Address or "none"] the connection to the receiver
  age,      \* [Jobs -> Nat] ticks since the timestamp of a request that is
            \* still to leave was taken
  waited,   \* history: jobs whose attempt queued for a slot
  fresh     \* jobs whose request began in this tick and is still to leave

Hop == {"none", "resolving", "connecting", "sent"}
Address == {"public", "private"}

path == <<hop, found, conn>>
times == <<age, waited, fresh>>
routeVars == <<vars, allows, path, times>>

RouteInit ==
  /\ Init
  /\ allows \in MayAllow
  /\ hop = [j \in Jobs |-> "none"]
  /\ found = [j \in Jobs |-> {}]
  /\ conn = [j \in Jobs |-> "none"]
  /\ age = [j \in Jobs |-> 0]
  /\ waited = {} /\ fresh = {}

-----------------------------------------------------------------------------
(* Every attempt is signed anew, before it asks for its slot.  (A signature *)
(* of the first attempt might have any age by the second.)                  *)
SignedAge_OncePerDelivery(j) == IF attempt[j] = 1 THEN 0 ELSE Tolerance + 1

SignedAge(j) == 0

(* A request is written to its connection.                                  *)
Leave(j) ==
  /\ hop' = [hop EXCEPT ![j] = "sent"]
  /\ age' = [age EXCEPT ![j] = 0]
  /\ waited' = waited \ {j}
  /\ fresh' = fresh \ {j}

(* client.post() begins, with headers signed a ago: over the connection of  *)
(* an earlier attempt, if the pool still has one, or with a lookup.         *)
Begin(j, a) ==
  \/ conn[j] # "none" /\ Leave(j) /\ UNCHANGED conn
  \/ /\ hop' = [hop EXCEPT ![j] = "resolving"]
     /\ conn' = [conn EXCEPT ![j] = "none"]
     /\ age' = [age EXCEPT ![j] = a]
     /\ fresh' = fresh \cup {j}
     /\ UNCHANGED waited

AttemptBegins(j) ==
  /\ Attempt(j)
  /\ IF delivery'[j] = "posting"
       THEN Begin(j, SignedAge(j))
       ELSE /\ age' = [age EXCEPT ![j] = SignedAge(j)]
            /\ waited' = waited \cup {j}
            /\ UNCHANGED <<hop, conn, fresh>>
  /\ UNCHANGED <<allows, found>>

SlotTaken(j) ==
  /\ TakeSlot(j)
  /\ Begin(j, age[j])
  /\ UNCHANGED <<allows, found>>

(* It ends.                                                                 *)
Ends(j, how) ==
  /\ PostEndsWith(j, how)
  /\ hop' = [hop EXCEPT ![j] = "none"]
  /\ found' = [found EXCEPT ![j] = {}]
  /\ age' = [age EXCEPT ![j] = 0]
  /\ waited' = waited \ {j}
  /\ fresh' = fresh \ {j}
  /\ UNCHANGED allows

(* The host's name is resolved in a thread, and may change at any time.     *)
(* One non-public answer is a refusal for good; no answer fails the attempt. *)
(* A client without the guard takes any address.                            *)
Blocked(addresses) == ~allows /\ "private" \in addresses

Lookup(j) ==
  /\ delivery[j] = "posting" /\ hop[j] = "resolving" /\ j \notin cutOff
  /\ \E addresses \in SUBSET Address :
       CASE addresses = {} -> Ends(j, "rejected") /\ UNCHANGED conn
         [] Blocked(addresses) -> Ends(j, "blocked") /\ UNCHANGED conn
         [] OTHER -> /\ hop' = [hop EXCEPT ![j] = "connecting"]
                     /\ found' = [found EXCEPT ![j] = addresses]
                     /\ UNCHANGED <<vars, allows, conn, times>>

(* The addresses are tried in turn: those that were checked, as literals.   *)
Targets_ResolvedAgain(j) == Address

Targets(j) == found[j]

Connect(j) ==
  /\ delivery[j] = "posting" /\ hop[j] = "connecting" /\ j \notin cutOff
  /\ \/ \E a \in Targets(j) : conn' = [conn EXCEPT ![j] = a]
        /\ Leave(j)
        /\ found' = [found EXCEPT ![j] = {}]
        /\ UNCHANGED <<vars, allows>>
     \/ Ends(j, "rejected") /\ UNCHANGED conn

(* The receiver answers, with a redirect perhaps, which is not followed, or *)
(* the answer is lost.                                                      *)
Response(j) ==
  /\ hop[j] = "sent" /\ j \notin cutOff
  /\ \E how \in {"answered", "lost", "rejected"} : Ends(j, how)
  /\ conn' \in {conn, [conn EXCEPT ![j] = "none"]}

(* The client was closed under the request.                                 *)
Broken(j) == j \in cutOff /\ Ends(j, "rejected") /\ UNCHANGED conn

Request(j) == Lookup(j) \/ Connect(j) \/ Response(j) \/ Broken(j)

-----------------------------------------------------------------------------
(* The rest of the delivery and of the process.                             *)
OtherStep(j) ==
  /\ Submit(j) \/ Finish(j) \/ Expire(j) \/ Announce(j) \/ BackoffEnds(j) \/ OutcomeRecorded(j)
  /\ UNCHANGED <<allows, path, times>>

(* The process is gone, its client and every request with it.               *)
Stopped ==
  /\ Crash \/ Exit \/ SweepRaises
  /\ hop' = [j \in Jobs |-> "none"]
  /\ found' = [j \in Jobs |-> {}]
  /\ conn' = [j \in Jobs |-> "none"]
  /\ age' = [j \in Jobs |-> 0]
  /\ waited' = {} /\ fresh' = {}
  /\ UNCHANGED allows

(* The next one reads its settings before it takes a request, and makes its *)
(* client, guarded or not, by them.                                         *)
Restarted ==
  /\ Start
  /\ allows' \in MayAllow
  /\ UNCHANGED <<path, times>>

(* aclose() closes the client: what was sent may have arrived.              *)
ClientCloses ==
  /\ DrainEnds
  /\ \A j \in Jobs : heard'[j] # heard[j] => hop[j] = "sent"
  /\ conn' = IF OwnsClient THEN [j \in Jobs |-> "none"] ELSE conn
  /\ UNCHANGED <<allows, hop, found, times>>

ProcessStep ==
  \/ (SweepStep \/ Shutdown) /\ UNCHANGED <<allows, path, times>>
  \/ ClientCloses \/ Stopped \/ Restarted

(* Time passes.  WEBHOOK_TIMEOUT_SECONDS, 10, is short beside the 300 of    *)
(* the tolerance: a request leaves, or fails, before the next tick but one. *)
Tick ==
  /\ {j \in Jobs : hop[j] \in {"resolving", "connecting"}} \subseteq fresh
  /\ fresh' = {}
  /\ age' = [j \in Jobs |->
       IF (hop[j] \in {"resolving", "connecting"} \/ j \in waited) /\ age[j] <= Tolerance
         THEN age[j] + 1 ELSE age[j]]
  /\ UNCHANGED <<vars, allows, path, waited>>

RouteStep(j) == AttemptBegins(j) \/ SlotTaken(j) \/ Request(j) \/ OtherStep(j)

RouteNext == ProcessStep \/ Tick \/ \E j \in Jobs : RouteStep(j)

RouteSpec == RouteInit /\ [][RouteNext]_routeVars

(* Timers fire (the request's, the backoff, the drain), the store answers,  *)
(* and whoever operates the gateway starts it again.                        *)
Progress(j) == RouteStep(j) /\ ~(Submit(j) \/ Finish(j) \/ Expire(j))

FairRouteSpec ==
  /\ RouteSpec
  /\ \A j \in Jobs : WF_routeVars(Progress(j))
  /\ WF_routeVars(SweepStep /\ UNCHANGED <<allows, path, times>>)
  /\ WF_routeVars(ClientCloses) /\ WF_routeVars(Exit /\ Stopped) /\ WF_routeVars(Restarted)

-----------------------------------------------------------------------------
(* Every variable of the route has its type.                                *)
RouteTypeOK ==
  /\ allows \in BOOLEAN
  /\ hop \in [Jobs -> Hop]
  /\ found \in [Jobs -> SUBSET Address]
  /\ conn \in [Jobs -> Address \cup {"none"}]
  /\ age \in [Jobs -> 0 .. Tolerance + 1]
  /\ waited \subseteq Jobs /\ fresh \subseteq Jobs

(* A process that does not allow private destinations never has a           *)
(* connection to one, whatever the name resolved to when the job was        *)
(* submitted, resolves to now, or an earlier process allowed.               *)
ConnectsOnlyWhereAllowed == ~allows => \A j \in Jobs : conn[j] # "private"

(* A request leaves with a timestamp its receiver still accepts.            *)
Leaves(j) == hop[j] # "sent" /\ hop'[j] = "sent"

FreshWhenSent == [][\A j \in Jobs : Leaves(j) => age[j] <= Tolerance]_routeVars

(* What does hold: only an attempt that had to queue for its slot leaves    *)
(* with an older one, never a retry because of its backoff.                 *)
StaleOnlyIfQueued ==
  [][\A j \in Jobs : Leaves(j) => age[j] <= Tolerance \/ j \in waited]_routeVars

=============================================================================
