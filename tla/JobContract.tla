---------------------------- MODULE JobContract ----------------------------
(***************************************************************************)
(* What the gateway promises about one job, seen through the store and the *)
(* receiver of its webhook, whatever happens inside the manager:           *)
(*                                                                         *)
(*   - a record is created "pending" and moves forward only;               *)
(*   - the first terminal status is the last one ("its outcome is final"); *)
(*   - that status, and no other, is announced to the webhook, once.       *)
(*                                                                         *)
(* "cancelled" stands for the status ERROR whose error is CANCELLED_ERROR, *)
(* the one error text the manager itself compares (manager.py:753).        *)
(***************************************************************************)
EXTENDS Sequences

CONSTANTS Jobs,       \* job ids
          Hooked      \* the jobs submitted with a webhook_url

VARIABLES stored,     \* status of the job's record, "absent" before create
          webhooks    \* statuses handed to _deliver_webhook, in order

vars == <<stored, webhooks>>

Terminal == {"ready", "error", "cancelled"}
Status == {"absent", "pending", "processing"} \cup Terminal

Init == /\ stored = [j \in Jobs |-> "absent"]
        /\ webhooks = [j \in Jobs |-> << >>]

Create(j) == /\ stored[j] = "absent"
             /\ stored' = [stored EXCEPT ![j] = "pending"]
             /\ UNCHANGED webhooks

Start(j) == /\ stored[j] = "pending"
            /\ stored' = [stored EXCEPT ![j] = "processing"]
            /\ UNCHANGED webhooks

(* A pending job settles only by being cancelled: nothing else can end a   *)
(* job whose provider was never called.                                    *)
Settle(j, s) ==
  /\ stored[j] = "processing" \/ (stored[j] = "pending" /\ s = "cancelled")
  /\ stored' = [stored EXCEPT ![j] = s]
  /\ webhooks' = IF j \in Hooked THEN [webhooks EXCEPT ![j] = <<s>>] ELSE webhooks

Next == \E j \in Jobs : Create(j) \/ Start(j) \/ \E s \in Terminal : Settle(j, s)

Spec == Init /\ [][Next]_vars

=============================================================================
