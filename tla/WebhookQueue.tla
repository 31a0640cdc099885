---------------------------- MODULE WebhookQueue ----------------------------
(***************************************************************************)
(* The webhook queue: rows of webhook_queue, inserted with the event they  *)
(* report in the SQL transaction of the scanner, and the worker that takes *)
(* a batch of due rows, calls the receiver for each and then records the   *)
(* outcome in a statement of its own.                                      *)
(*                                                                         *)
(* A row is named by its event.  next_retry_at is abstracted to the order  *)
(* in which rows come due: `due` lists the rows whose time has come,       *)
(* `waiting` holds those whose back-off has not elapsed.  Payload,         *)
(* signature and the length of the back-off are left out.                  *)
(***************************************************************************)
EXTENDS Naturals, Sequences

CONSTANTS
    Events,       \* wallet events
    Wanted,       \* events whose type passes send_only_event_types
    BatchSize,    \* BATCH_SIZE
    MaxAttempts,  \* MAX_ATTEMPTS
    MaxLost       \* bound: failed updates and killed processes

ASSUME WantedAssumption == Wanted \subseteq Events
ASSUME LimitsAssumption ==
    BatchSize \in Nat \ {0} /\ MaxAttempts \in Nat \ {0} /\ MaxLost \in Nat

VARIABLES
    status,    \* webhook_queue.status ("none": no row)
    attempts,  \* webhook_queue.attempt_count
    due,       \* rows with next_retry_at <= now, in that order
    waiting,   \* rows with next_retry_at > now
    batch,     \* the items the worker has still to treat, as it read them
    pc,        \* where the worker is
    result,    \* the DeliveryResult in hand
    accepted, rejected, posts,  \* the receiver: see WebhookDelivery
    lost       \* outcomes that were not recorded

rows     == <<status, attempts, due, waiting>>
receiver == <<accepted, rejected, posts>>
vars     == <<rows, batch, pc, result, receiver, lost>>

WebhookStatus  == {"pending", "failed", "success", "permanent_failure"}
DeliveryResult == {"Success", "RetryableFailure", "PermanentFailure"}
Active         == {"pending", "failed"}

Init ==
    /\ status   = [e \in Events |-> "none"]
    /\ attempts = [e \in Events |-> 0]
    /\ due      = <<>>
    /\ waiting  = {}
    /\ batch    = <<>>
    /\ pc       = "idle"
    /\ result   = "Success"
    /\ accepted = {}
    /\ rejected = {}
    /\ posts    = [e \in Events |-> 0]
    /\ lost     = 0

-----------------------------------------------------------------------------
(* Faulty variants of definitions below, one per property: bugs of a kind  *)
(* that could be made in this code.  The specification does not use them.  *)

(* The attempt in hand is counted twice.                                   *)
FaultStopEarly(attempt) == attempt + 1 >= MaxAttempts

(* The limit is compared with > instead of >=.                             *)
FaultStopLate(attempt) == attempt > MaxAttempts

(* The attempt count is not written.                                       *)
FaultKeepCount(e, s, n) ==
    /\ status'  = [status EXCEPT ![e] = s]
    /\ due'     = SelectSeq(due, LAMBDA d : d # e)
    /\ waiting' = IF s = "failed" THEN waiting \cup {e} ELSE waiting
    /\ UNCHANGED attempts

(* The next_retry_at of a failed row is never reached.                     *)
FaultNoRetryTime(e, s, n) ==
    /\ status'   = [status EXCEPT ![e] = s]
    /\ attempts' = [attempts EXCEPT ![e] = n]
    /\ due'      = SelectSeq(due, LAMBDA d : d # e)
    /\ UNCHANGED waiting

-----------------------------------------------------------------------------
(* trigger_webhook_with_balance and enqueue_webhook, in the transaction    *)
(* that inserts the event.                                                 *)
Enqueue(e) ==
    /\ e \in Wanted
    /\ status[e] = "none"
    /\ status' = [status EXCEPT ![e] = "pending"]
    /\ due'    = Append(due, e)
    /\ UNCHANGED <<attempts, waiting, batch, pc, result, receiver, lost>>

(* next_retry_at of a failed row is reached.                               *)
BackoffElapses(e) ==
    /\ e \in waiting
    /\ waiting' = waiting \ {e}
    /\ due'     = Append(due, e)
    /\ UNCHANGED <<status, attempts, batch, pc, result, receiver, lost>>

(* The first BATCH_SIZE due rows, with the attempt count read.             *)
fetch_due_webhooks ==
    [k \in 1 .. (IF Len(due) < BatchSize THEN Len(due) ELSE BatchSize) |->
        [id |-> due[k], attempts |-> attempts[due[k]]]]

(* process_batch, at a tick of the interval.                               *)
FetchBatch ==
    /\ pc = "idle"
    /\ due # <<>>
    /\ batch' = fetch_due_webhooks
    /\ pc'    = "send"
    /\ UNCHANGED <<rows, result, receiver, lost>>

(* WebhookSender::send: success, a client error, or anything else: server  *)
(* errors, no connection, an answer lost.  A payload that cannot be signed *)
(* is left out: a key of any length makes an HMAC.                         *)
Send ==
    /\ pc = "send"
    /\ LET e == Head(batch).id IN
       /\ posts' = [posts EXCEPT ![e] = @ + 1]
       /\ \/ /\ result' = "Success"
             /\ accepted' = accepted \cup {e}
             /\ UNCHANGED rejected
          \/ /\ result' = "PermanentFailure"
             /\ rejected' = rejected \cup {e}
             /\ UNCHANGED accepted
          \/ /\ result' = "RetryableFailure"
             /\ UNCHANGED <<accepted, rejected>>
    /\ pc' = "record"
    /\ UNCHANGED <<rows, batch, lost>>

(* The second part of what calculate_backoff returns: stop retrying.       *)
calculate_backoff(attempt) == attempt >= MaxAttempts

(* The status process_item derives for the n-th attempt.                   *)
NewStatus(r, n) ==
    CASE r = "Success"          -> "success"
      [] r = "PermanentFailure" -> "permanent_failure"
      [] OTHER -> IF calculate_backoff(n) THEN "permanent_failure" ELSE "failed"

(* `due` without row e.                                                    *)
Without(s, e) ==
    LET p == CHOOSE k \in DOMAIN s : s[k] = e IN
    IF \E k \in DOMAIN s : s[k] = e
      THEN [k \in 1 .. (Len(s) - 1) |-> IF k < p THEN s[k] ELSE s[k + 1]]
      ELSE s

update_webhook_status(e, s, n) ==
    /\ status'   = [status EXCEPT ![e] = s]
    /\ attempts' = [attempts EXCEPT ![e] = n]
    /\ due'      = Without(due, e)
    /\ waiting'  = IF s = "failed" THEN waiting \cup {e} ELSE waiting

NextItem ==
    /\ batch' = Tail(batch)
    /\ pc'    = IF Len(batch) > 1 THEN "send" ELSE "idle"

(* process_item after the call: the outcome goes to the row by id, with    *)
(* the attempt count that was read.                                        *)
Record ==
    /\ pc = "record"
    /\ LET item == Head(batch)
           n    == item.attempts + 1
       IN update_webhook_status(item.id, NewStatus(result, n), n)
    /\ NextItem
    /\ UNCHANGED <<result, receiver, lost>>

(* The update fails; its error is dropped and the row stays as it is.      *)
RecordFails ==
    /\ pc = "record"
    /\ lost < MaxLost
    /\ lost' = lost + 1
    /\ NextItem
    /\ UNCHANGED <<rows, result, receiver>>

(* The process is killed and started again.                                *)
Crash ==
    /\ pc # "idle"
    /\ lost < MaxLost
    /\ lost' = lost + 1
    /\ pc' = "idle" /\ batch' = <<>>
    /\ UNCHANGED <<rows, result, receiver>>

WorkerStep == FetchBatch \/ Send \/ Record

Next ==
    \/ \E e \in Events : Enqueue(e) \/ BackoffElapses(e)
    \/ WorkerStep \/ RecordFails \/ Crash

Spec == Init /\ [][Next]_vars

(* The worker runs on a timer for as long as the daemon lives, and time    *)
(* passes.  That updates fail and processes die finitely often is the      *)
(* bound MaxLost.                                                          *)
FairSpec == Spec /\ WF_vars(WorkerStep) /\ \A e \in Events : WF_vars(BackoffElapses(e))

-----------------------------------------------------------------------------
(* Properties.                                                             *)

(* Every variable has its type; the status column only holds values of     *)
(* WebhookStatus, which fetch_due_webhooks compares with literals.         *)
TypeOK ==
    /\ status   \in [Events -> WebhookStatus \cup {"none"}]
    /\ attempts \in [Events -> Nat]
    /\ due      \in Seq(Events)
    /\ waiting  \in SUBSET Events
    /\ batch    \in Seq([id : Events, attempts : Nat])
    /\ pc       \in {"idle", "send", "record"}
    /\ result   \in DeliveryResult
    /\ accepted \in SUBSET Events
    /\ rejected \in SUBSET Events
    /\ posts    \in [Events -> Nat]
    /\ lost     \in Nat

InHand(e) == IF pc = "record" /\ Head(batch).id = e THEN 1 ELSE 0

(* attempt_count is the number of calls the receiver has got, apart from   *)
(* those whose outcome was lost and the one in hand: a row read long ago   *)
(* never writes back an old count.                                         *)
CallsAreCounted ==
    \A e \in Events :
        /\ attempts[e] + InHand(e) <= posts[e]
        /\ posts[e] <= attempts[e] + InHand(e) + lost

(* No row gets more than MAX_ATTEMPTS recorded attempts, and one that is   *)
(* still to be retried has fewer.                                          *)
AttemptsAreLimited ==
    \A e \in Events :
        /\ attempts[e] <= MaxAttempts
        /\ status[e] \in Active => attempts[e] < MaxAttempts

Outcome ==
    [e \in Events |-> CASE status[e] = "none"              -> "none"
                        [] status[e] = "success"           -> "delivered"
                        [] status[e] = "permanent_failure" -> "abandoned"
                        [] OTHER                           -> "queued"]

Delivery == INSTANCE WebhookDelivery WITH outcome <- Outcome

(* The queue keeps the promise of WebhookDelivery: a row is closed once,   *)
(* as success only if the receiver has accepted it, as a permanent failure *)
(* only if the receiver has rejected it or been called MAX_ATTEMPTS times, *)
(* and the receiver is not called for a closed row.                        *)
KeepsDeliveryPromise == Delivery!DeliverySpec

(* Every row is closed in the end, however often its receiver fails and    *)
(* however long the queue is.                                              *)
RowsAreClosed ==
    \A e \in Events : status[e] # "none" ~> status[e] \in WebhookStatus \ Active

=============================================================================
