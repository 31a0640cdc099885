------------------------------ MODULE FundLock ------------------------------
(***************************************************************************)
(* How the wallet reserves outputs for a payment.  Three kinds of actor    *)
(* share the tables outputs, pending_transactions and                      *)
(* completed_transactions of one account:                                  *)
(*                                                                         *)
(*  - a call of FundLocker::lock (the lock_funds and                       *)
(*    create_unsigned_transaction endpoints, the CLI, burns), whose client *)
(*    signs and broadcasts by itself;                                      *)
(*  - a TransactionSender, which locks, lets the user sign, and broadcasts;*)
(*  - the TransactionUnlocker task;                                        *)
(*  - the block scanner, as far as it writes the same rows.                *)
(*                                                                         *)
(* Every SQL statement outside a transaction is a step of its own, and so  *)
(* is every SQL transaction.  A pending_transactions row is named by the   *)
(* call that inserted it (a call inserts at most one).  Amounts, fees and  *)
(* confirmation depth are abstracted: a selection is any non-empty set of  *)
(* rows the query of fetch_unspent_outputs may return.  expires_at is the  *)
(* set `overdue` of the rows whose time is up.                             *)
(***************************************************************************)
EXTENDS Naturals

CONSTANTS
    Outputs,   \* rows of the table outputs
    Height,    \* mined_in_block_height of each row
    Heights,   \* heights at which a reorg may start
    Lockers,   \* calls of FundLocker::lock
    Senders,   \* uses of a TransactionSender, one payment each
    Keys,      \* idempotency keys
    KeyOf,     \* the key each call was given (a fresh one if it had none)
    NoReq      \* NULL in outputs.locked_by_request_id

Calls == Lockers \cup Senders

ASSUME HeightsAssumption == Heights \subseteq Nat /\ Height \in [Outputs -> Nat]
ASSUME CallsAssumption   == Lockers \cap Senders = {} /\ NoReq \notin Calls
ASSUME KeysAssumption    == KeyOf \in [Calls -> Keys]

VARIABLES
    status,     \* outputs.status
    lockedBy,   \* outputs.locked_by_request_id
    deleted,    \* rows with deleted_at set
    pending,    \* pending_transactions.status ("none": no row)
    overdue,    \* pending_transactions rows with expires_at < CURRENT_TIMESTAMP
    completed,  \* completed_transactions.status of each sender's transaction
    pc,         \* where each call is
    req,        \* the pending_transactions row a call works with
    sel,        \* the outputs a call holds in memory: the inputs it will spend
    todo,       \* outputs a sender has still to lock in its loop
    expiring,   \* the unlocker's list of expired rows not yet treated
    inflight,   \* transactions on their way to the base node
    mempool,    \* transactions the base node has accepted
    mined,      \* transactions in a block of the current chain
    unlocker,   \* whether the task of the unlocker is alive
    lost        \* requests whose release was lost (history): a call that works
                \* with one died, or its statement that unlocks failed

db   == <<status, lockedBy, deleted, pending, overdue, completed>>
net  == <<inflight, mempool, mined>>
life == <<unlocker, lost>>
vars == <<db, pc, req, sel, todo, expiring, net, life>>

OutputStatus    == {"UNSPENT", "LOCKED", "SPENT"}
PendingStatus   == {"none", "PENDING", "COMPLETED", "EXPIRED", "CANCELLED"}
CompletedStatus == {"none", "completed", "broadcasted", "rejected"}
LockerPC == {"find", "fetch", "select", "commit", "returned", "handed_over",
             "refused", "aborted"}
SenderPC == {"validate", "find", "select", "insert", "lock", "build", "built",
             "complete", "record", "submit", "submitting", "fail_expire",
             "fail_unlock", "done", "failed", "refused", "aborted"}

Init ==
    /\ status    = [o \in Outputs |-> "UNSPENT"]
    /\ lockedBy  = [o \in Outputs |-> NoReq]
    /\ deleted   = {}
    /\ pending   = [c \in Calls |-> "none"]
    /\ overdue   = {}
    /\ completed = [c \in Senders |-> "none"]
    /\ pc        = [c \in Calls |-> IF c \in Senders THEN "validate" ELSE "find"]
    /\ req       = [c \in Calls |-> NoReq]
    /\ sel       = [c \in Calls |-> {}]
    /\ todo      = [c \in Senders |-> {}]
    /\ expiring  = {}
    /\ inflight  = {}
    /\ mempool   = {}
    /\ mined     = {}
    /\ unlocker  = "running"
    /\ lost      = {}

-----------------------------------------------------------------------------
(* Faulty variants of the statements and steps below, one per property:    *)
(* bugs of a kind that could be made in this code.  The specification does *)
(* not use them.                                                           *)

(* The UNIQUE constraint only covers rows that are still PENDING.          *)
FaultKeyTakenPending(c) == \E r \in Calls : KeyOf[r] = KeyOf[c] /\ pending[r] = "PENDING"

(* lock_output without "AND status = 'UNSPENT'".                           *)
FaultLockAnyStatus(S, r) ==
    /\ status'   = [o \in Outputs |-> IF o \in S THEN "LOCKED" ELSE status[o]]
    /\ lockedBy' = [o \in Outputs |-> IF o \in S THEN r ELSE lockedBy[o]]

(* unlock_outputs_for_request without "AND status = 'LOCKED'".             *)
FaultUnlockAnyStatus(r) ==
    /\ status'   = [o \in Outputs |-> IF lockedBy[o] = r THEN "UNSPENT" ELSE status[o]]
    /\ lockedBy' = [o \in Outputs |-> IF lockedBy[o] = r THEN NoReq ELSE lockedBy[o]]

(* unlock_outputs_for_request without "locked_by_request_id = NULL".       *)
FaultUnlockKeepsOwner(r) ==
    /\ status' = [o \in Outputs |-> IF lockedBy[o] = r /\ status[o] = "LOCKED"
                                       THEN "UNSPENT" ELSE status[o]]
    /\ UNCHANGED lockedBy

(* A retry selects inputs anew instead of taking those its row has locked. *)
FaultBuildReselects(c) ==
    /\ pc[c] = "build"
    /\ \E S \in (SUBSET {o \in Outputs \ deleted : status[o] = "UNSPENT"}) \ {{}} :
          sel' = [sel EXCEPT ![c] = IF sel[c] = {} THEN S ELSE sel[c]]
    /\ pc' = [pc EXCEPT ![c] = "built"]
    /\ UNCHANGED <<db, req, todo, expiring, net, life>>

(* fail_and_unlock_pending_transaction returns when its first statement    *)
(* fails.                                                                  *)
FaultStopAtError(c) ==
    /\ pc[c] = "fail_expire"
    /\ \/ pending' = [pending EXCEPT ![req[c]] = "EXPIRED"] /\ pc' = [pc EXCEPT ![c] = "fail_unlock"]
       \/ UNCHANGED pending /\ pc' = [pc EXCEPT ![c] = "failed"]
    /\ UNCHANGED <<status, lockedBy, deleted, overdue, completed, req, sel, todo,
                   expiring, net, life>>

(* The unlocker marks the row but leaves its outputs locked.               *)
FaultExpireKeepsLocks(r) ==
    /\ r \in expiring
    /\ pending'  = [pending EXCEPT ![r] = "EXPIRED"]
    /\ expiring' = expiring \ {r}
    /\ UNCHANGED <<status, lockedBy, deleted, overdue, completed, pc, req, sel,
                   todo, net, life>>

-----------------------------------------------------------------------------
(* Statements on the tables.                                               *)

(* SELECT ... FROM outputs WHERE status = 'UNSPENT' AND deleted_at IS NULL *)
fetch_unspent_outputs == {o \in Outputs \ deleted : status[o] = "UNSPENT"}

(* SELECT ... FROM outputs WHERE locked_by_request_id = r: neither status  *)
(* nor deleted_at is looked at.                                            *)
fetch_outputs_by_lock_request_id(r) == {o \in Outputs : lockedBy[o] = r}

(* The row of pending_transactions with c's key, if its status is st.      *)
RowsWithKey(c, st) == {r \in Calls : KeyOf[r] = KeyOf[c] /\ pending[r] = st}

(* UNIQUE (account_id, idempotency_key) would be violated by an insert.    *)
KeyTaken(c) == \E r \in Calls : KeyOf[r] = KeyOf[c] /\ pending[r] # "none"

(* UPDATE outputs SET status = 'LOCKED' ... WHERE id = o AND status =      *)
(* 'UNSPENT', for every o of S.  A row that is not UNSPENT any more is     *)
(* passed over in silence.                                                 *)
lock_output(S, r) ==
    LET hit == {o \in S : status[o] = "UNSPENT"} IN
    /\ status'   = [o \in Outputs |-> IF o \in hit THEN "LOCKED" ELSE status[o]]
    /\ lockedBy' = [o \in Outputs |-> IF o \in hit THEN r ELSE lockedBy[o]]

(* UPDATE outputs SET status = 'UNSPENT', locked_by_request_id = NULL      *)
(* WHERE locked_by_request_id = r AND status = 'LOCKED'.                   *)
unlock_outputs_for_request(r) ==
    LET hit == {o \in Outputs : lockedBy[o] = r /\ status[o] = "LOCKED"} IN
    /\ status'   = [o \in Outputs |-> IF o \in hit THEN "UNSPENT" ELSE status[o]]
    /\ lockedBy' = [o \in Outputs |-> IF o \in hit THEN NoReq ELSE lockedBy[o]]

(* UPDATE pending_transactions SET status = st WHERE id = r, whatever the  *)
(* status was.                                                             *)
update_pending_transaction_status(r, st) == pending' = [pending EXCEPT ![r] = st]

(* INSERT INTO pending_transactions ... status = 'PENDING'.                *)
create_pending_transaction(c) == pending' = [pending EXCEPT ![c] = "PENDING"]

Goto(c, l) == pc' = [pc EXCEPT ![c] = l]

-----------------------------------------------------------------------------
(* Steps common to FundLocker::lock and TransactionSender.                 *)

(* Looks for a PENDING row with the call's key.  An overdue row counts     *)
(* until the unlocker has been there.                                      *)
FindPending(c) ==
    /\ pc[c] = "find"
    /\ \/ /\ RowsWithKey(c, "PENDING") = {}
          /\ Goto(c, "select")
          /\ UNCHANGED req
       \/ \E r \in RowsWithKey(c, "PENDING") :
             /\ req' = [req EXCEPT ![c] = r]
             /\ Goto(c, IF c \in Lockers THEN "fetch" ELSE "build")
    /\ UNCHANGED <<db, sel, todo, expiring, net, life>>

(* InputSelector::fetch_unspent_outputs, outside any transaction: a set of *)
(* free outputs, or FundsPending / InsufficientFunds.                      *)
SelectInputs(c) ==
    /\ pc[c] = "select"
    /\ \/ \E S \in (SUBSET fetch_unspent_outputs) \ {{}} :
             /\ sel' = [sel EXCEPT ![c] = S]
             /\ Goto(c, IF c \in Lockers THEN "commit" ELSE "insert")
       \/ Goto(c, "refused") /\ UNCHANGED sel
    /\ UNCHANGED <<db, req, todo, expiring, net, life>>

-----------------------------------------------------------------------------
(* FundLocker::lock                                                        *)

(* The second query of the idempotent path: the outputs the row has locked.*)
LockFetchExisting(c) ==
    /\ pc[c] = "fetch"
    /\ sel' = [sel EXCEPT ![c] = fetch_outputs_by_lock_request_id(req[c])]
    /\ Goto(c, "returned")
    /\ UNCHANGED <<db, req, todo, expiring, net, life>>

(* The SQL transaction: insert the row, lock every selected output, commit.*)
(* A key that is taken aborts it with DuplicateEntry.                      *)
LockCommit(c) ==
    /\ pc[c] = "commit"
    /\ \/ /\ KeyTaken(c)
          /\ Goto(c, "refused")
          /\ UNCHANGED <<status, lockedBy, pending, req>>
       \/ /\ ~ KeyTaken(c)
          /\ create_pending_transaction(c)
          /\ lock_output(sel[c], c)
          /\ req' = [req EXCEPT ![c] = c]
          /\ Goto(c, "returned")
    /\ UNCHANGED <<deleted, overdue, completed, sel, todo, expiring, net, life>>

(* The client signs a transaction over the outputs it was given and hands  *)
(* it to a node; the wallet does not see this happen.                      *)
ClientSubmit(c) ==
    /\ c \in Lockers
    /\ pc[c] = "returned"
    /\ sel[c] # {}
    /\ inflight' = inflight \cup {c}
    /\ Goto(c, "handed_over")
    /\ UNCHANGED <<db, req, sel, todo, expiring, mempool, mined, life>>

-----------------------------------------------------------------------------
(* TransactionSender::start_new_transaction                                *)

validate_transaction_creation_request(c) ==
    /\ pc[c] = "validate"
    /\ Goto(c, IF RowsWithKey(c, "COMPLETED") = {} THEN "find" ELSE "refused")
    /\ UNCHANGED <<db, req, sel, todo, expiring, net, life>>

(* create_pending_transaction: each statement commits by itself.           *)
InsertPending(c) ==
    /\ pc[c] = "insert"
    /\ \/ /\ KeyTaken(c)
          /\ Goto(c, "refused")
          /\ UNCHANGED <<pending, req, todo>>
       \/ /\ ~ KeyTaken(c)
          /\ create_pending_transaction(c)
          /\ req'  = [req EXCEPT ![c] = c]
          /\ todo' = [todo EXCEPT ![c] = sel[c]]
          /\ Goto(c, "lock")
    /\ UNCHANGED <<status, lockedBy, deleted, overdue, completed, sel, expiring, net, life>>

LockNext(c) ==
    /\ pc[c] = "lock"
    /\ \E o \in todo[c] :
          /\ lock_output({o}, c)
          /\ todo' = [todo EXCEPT ![c] = @ \ {o}]
          /\ Goto(c, IF todo[c] = {o} THEN "build" ELSE "lock")
    /\ UNCHANGED <<deleted, pending, overdue, completed, req, sel, expiring, net, life>>

(* A sender that found its row takes the outputs from the database; then   *)
(* the unsigned transaction is built, which fails for want of inputs or    *)
(* for reasons of its own.                                                 *)
BuildUnsigned(c) ==
    /\ pc[c] = "build"
    /\ LET inputs == IF sel[c] = {} THEN fetch_outputs_by_lock_request_id(req[c])
                                    ELSE sel[c] IN
       /\ sel' = [sel EXCEPT ![c] = inputs]
       /\ \/ inputs # {} /\ Goto(c, "built")
          \/ Goto(c, "fail_expire")
    /\ UNCHANGED <<db, req, todo, expiring, net, life>>

-----------------------------------------------------------------------------
(* TransactionSender::finalize_transaction_and_broadcast                   *)

(* The expiry test only knows rows that are still PENDING.  On expiry the  *)
(* row is set to EXPIRED here and once more by fail_and_unlock.            *)
check_if_transaction_expired(c) ==
    /\ pc[c] = "built"
    /\ \/ IF pending[req[c]] = "PENDING" /\ req[c] \in overdue
            THEN /\ update_pending_transaction_status(req[c], "EXPIRED")
                 /\ Goto(c, "fail_expire")
            ELSE Goto(c, "complete") /\ UNCHANGED pending
       \/ Goto(c, "fail_expire") /\ UNCHANGED pending   \* SQL error
    /\ UNCHANGED <<status, lockedBy, deleted, overdue, completed, req, sel, todo,
                   expiring, net, life>>

MarkCompleted(c) ==
    /\ pc[c] = "complete"
    /\ \/ update_pending_transaction_status(req[c], "COMPLETED") /\ Goto(c, "record")
       \/ Goto(c, "fail_expire") /\ UNCHANGED pending   \* serialisation or SQL error
    /\ UNCHANGED <<status, lockedBy, deleted, overdue, completed, req, sel, todo,
                   expiring, net, life>>

create_completed_transaction(c) ==
    /\ pc[c] = "record"
    /\ \/ /\ completed' = [completed EXCEPT ![c] = "completed"]
          /\ Goto(c, "submit")
       \/ Goto(c, "fail_expire") /\ UNCHANGED completed   \* SQL error
    /\ UNCHANGED <<status, lockedBy, deleted, pending, overdue, req, sel, todo,
                   expiring, net, life>>

submit_transaction(c) ==
    /\ pc[c] = "submit"
    /\ inflight' = inflight \cup {c}
    /\ Goto(c, "submitting")
    /\ UNCHANGED <<db, req, sel, todo, expiring, mempool, mined, life>>

SubmissionAccepted(c) ==
    /\ pc[c] = "submitting"
    /\ c \in mempool
    /\ completed' = [completed EXCEPT ![c] = "broadcasted"]
    /\ Goto(c, "done")
    /\ UNCHANGED <<status, lockedBy, deleted, pending, overdue, req, sel, todo,
                   expiring, net, life>>

(* The node answers AlreadyMined: nothing is written.                      *)
SubmissionAlreadyMined(c) ==
    /\ pc[c] = "submitting"
    /\ c \in mined
    /\ Goto(c, "done")
    /\ UNCHANGED <<db, req, sel, todo, expiring, net, life>>

SubmissionRejected(c) ==
    /\ pc[c] = "submitting"
    /\ c \in inflight
    /\ inflight'  = inflight \ {c}
    /\ completed' = [completed EXCEPT ![c] = "rejected"]
    /\ Goto(c, "fail_expire")
    /\ UNCHANGED <<status, lockedBy, deleted, pending, overdue, req, sel, todo,
                   expiring, mempool, mined, life>>

(* A timeout or connection error: the node may have the transaction, may   *)
(* still receive it, or may never do so.                                   *)
SubmissionError(c) ==
    /\ pc[c] = "submitting"
    /\ completed' = [completed EXCEPT ![c] = "rejected"]
    /\ Goto(c, "fail_expire")
    /\ UNCHANGED <<status, lockedBy, deleted, pending, overdue, req, sel, todo,
                   expiring, net, life>>

(* Call c will not release what its request, if it has one, has locked.    *)
LosesRelease(c) == lost' = lost \cup ({req[c]} \ {NoReq})

(* fail_and_unlock_pending_transaction: two statements.  An error in the   *)
(* first is logged and the second still runs.                              *)
FailExpire(c) ==
    /\ pc[c] = "fail_expire"
    /\ update_pending_transaction_status(req[c], "EXPIRED") \/ UNCHANGED pending
    /\ Goto(c, "fail_unlock")
    /\ UNCHANGED <<status, lockedBy, deleted, overdue, completed, req, sel, todo,
                   expiring, net, life>>

(* An error here is logged too, and nothing tries again: the call ends all *)
(* the same, with its locks in place.                                      *)
FailUnlock(c) ==
    /\ pc[c] = "fail_unlock"
    /\ \/ unlock_outputs_for_request(req[c]) /\ UNCHANGED lost
       \/ UNCHANGED <<status, lockedBy>> /\ LosesRelease(c)
    /\ Goto(c, "failed")
    /\ UNCHANGED <<deleted, pending, overdue, completed, req, sel, todo, expiring, net,
                   unlocker>>

(* The process dies, or a statement fails where the code returns with `?`  *)
(* before any clean-up.                                                    *)
Abort(c) ==
    /\ pc[c] \notin {"returned", "handed_over", "done", "failed", "refused", "aborted"}
    /\ Goto(c, "aborted")
    /\ LosesRelease(c)
    /\ UNCHANGED <<db, req, sel, todo, expiring, net, unlocker>>

-----------------------------------------------------------------------------
(* TransactionUnlocker::unlock_expired_transactions                        *)

find_expired_pending_transactions == {r \in overdue : pending[r] = "PENDING"}

UnlockerFind ==
    /\ unlocker = "running"
    /\ expiring = {}
    /\ find_expired_pending_transactions # {}
    /\ expiring' = find_expired_pending_transactions
    /\ UNCHANGED <<db, pc, req, sel, todo, net, life>>

(* One SQL transaction per row of the list; the row's status is not read   *)
(* again.                                                                  *)
UnlockerExpire(r) ==
    /\ r \in expiring
    /\ update_pending_transaction_status(r, "EXPIRED")
    /\ unlock_outputs_for_request(r)
    /\ expiring' = expiring \ {r}
    /\ UNCHANGED <<deleted, overdue, completed, pc, req, sel, todo, net, life>>

(* An SQL error ends the pass; the next tick starts over.                  *)
UnlockerAbort ==
    /\ expiring # {}
    /\ expiring' = {}
    /\ UNCHANGED <<db, pc, req, sel, todo, net, life>>

(* A tick that is refused a connection ends the task (`get()?`); nobody    *)
(* starts it again before the daemon is started again.                     *)
UnlockerEnds ==
    /\ unlocker = "running"
    /\ expiring = {}
    /\ unlocker' = "ended"
    /\ UNCHANGED <<db, pc, req, sel, todo, expiring, net, lost>>

DaemonStarts ==
    /\ unlocker = "ended"
    /\ unlocker' = "running"
    /\ UNCHANGED <<db, pc, req, sel, todo, expiring, net, lost>>

LockTimePasses(r) ==
    /\ pending[r] # "none"
    /\ overdue' = overdue \cup {r}
    /\ UNCHANGED <<status, lockedBy, deleted, pending, completed, pc, req, sel,
                   todo, expiring, net, life>>

-----------------------------------------------------------------------------
(* The base node, and the scanner's writes to the same rows.               *)

Conflict(c, d) == c # d /\ sel[c] \cap sel[d] # {}

(* A transaction that spends an output of a mined one is not accepted.     *)
NodeAccepts(c) ==
    /\ c \in inflight
    /\ \A d \in mined : ~ Conflict(c, d)
    /\ inflight' = inflight \ {c}
    /\ mempool'  = mempool \cup {c}
    /\ UNCHANGED <<db, pc, req, sel, todo, expiring, mined, life>>

NodeMines(c) ==
    /\ c \in mempool \ mined
    /\ \A d \in mined : ~ Conflict(c, d)
    /\ mined' = mined \cup {c}
    /\ UNCHANGED <<db, pc, req, sel, todo, expiring, inflight, mempool, life>>

(* process_inputs: every active row the block spends becomes SPENT; the    *)
(* lock columns stay.                                                      *)
process_inputs(c) ==
    /\ c \in mined
    /\ status' = [o \in Outputs |->
                    IF o \in sel[c] \ deleted THEN "SPENT" ELSE status[o]]
    /\ UNCHANGED <<lockedBy, deleted, pending, overdue, completed, pc, req, sel,
                   todo, expiring, net, life>>

(* rollback_from_height: requests that hold (or held) an affected output   *)
(* are CANCELLED, the affected rows are soft deleted.  Spent rows stay     *)
(* SPENT, locked rows stay LOCKED.  The new chain contains any part of the *)
(* transactions the old one did.                                           *)
rollback_from_height(h) ==
    LET affected  == {o \in Outputs \ deleted : Height[o] >= h}
        cancelled == {lockedBy[o] : o \in affected} \ {NoReq} IN
    /\ pending' = [r \in Calls |-> IF r \in cancelled THEN "CANCELLED" ELSE pending[r]]
    /\ deleted' = deleted \cup affected
    /\ mined' \in SUBSET mined
    /\ UNCHANGED <<status, lockedBy, overdue, completed, pc, req, sel, todo,
                   expiring, inflight, mempool, life>>

-----------------------------------------------------------------------------
LockerStep(c) ==
    \/ FindPending(c) \/ SelectInputs(c) \/ LockFetchExisting(c)
    \/ LockCommit(c)  \/ ClientSubmit(c) \/ Abort(c)

SenderStep(c) ==
    \/ validate_transaction_creation_request(c)
    \/ FindPending(c) \/ SelectInputs(c)
    \/ InsertPending(c) \/ LockNext(c) \/ BuildUnsigned(c)
    \/ check_if_transaction_expired(c) \/ MarkCompleted(c)
    \/ create_completed_transaction(c) \/ submit_transaction(c)
    \/ SubmissionAccepted(c) \/ SubmissionAlreadyMined(c)
    \/ SubmissionRejected(c) \/ SubmissionError(c)
    \/ FailExpire(c) \/ FailUnlock(c) \/ Abort(c)

UnlockerStep ==
    \/ UnlockerFind \/ UnlockerAbort \/ UnlockerEnds \/ DaemonStarts
    \/ \E r \in Calls : UnlockerExpire(r)

Environment ==
    \/ \E c \in Calls : LockTimePasses(c) \/ NodeAccepts(c) \/ NodeMines(c) \/ process_inputs(c)
    \/ \E h \in Heights : rollback_from_height(h)

Next ==
    \/ \E c \in Lockers : LockerStep(c)
    \/ \E c \in Senders : SenderStep(c)
    \/ UnlockerStep
    \/ Environment

Spec == Init /\ [][Next]_vars

(* The unlocker, while it lives, ticks every 60 seconds, and SQL errors (a *)
(* busy database) do not hit the same row for ever.  It may end at any     *)
(* tick, and nothing obliges anybody to start the daemon again.            *)
UnlockerFairness ==
    /\ WF_vars(UnlockerFind)
    /\ \A r \in Calls : SF_vars(UnlockerExpire(r))

FairSpec == Spec /\ UnlockerFairness

-----------------------------------------------------------------------------
(* Properties that hold.                                                   *)

(* Every variable has its type: in particular the status columns only hold *)
(* the values of OutputStatus, PendingTransactionStatus and                *)
(* CompletedTransactionStatus.                                             *)
TypeOK ==
    /\ status    \in [Outputs -> OutputStatus]
    /\ lockedBy  \in [Outputs -> Calls \cup {NoReq}]
    /\ deleted   \in SUBSET Outputs
    /\ pending   \in [Calls -> PendingStatus]
    /\ overdue   \in SUBSET Calls
    /\ completed \in [Senders -> CompletedStatus]
    /\ pc        \in [Calls -> LockerPC \cup SenderPC]
    /\ req       \in [Calls -> Calls \cup {NoReq}]
    /\ sel       \in [Calls -> SUBSET Outputs]
    /\ todo      \in [Senders -> SUBSET Outputs]
    /\ expiring  \in SUBSET Calls
    /\ inflight  \in SUBSET Calls
    /\ mempool   \in SUBSET Calls
    /\ mined     \in SUBSET Calls
    /\ unlocker  \in {"running", "ended"}
    /\ lost      \in SUBSET Calls

(* A LOCKED output always names a request that has a row, that selected    *)
(* this very output, and an UNSPENT output names nobody: whatever mix of   *)
(* locking, failing, expiring, spending and reorganising has happened, no  *)
(* lock is orphaned and no free output carries the mark of an old one.     *)
LocksAreOwned ==
    \A o \in Outputs :
        /\ status[o] = "UNSPENT" => lockedBy[o] = NoReq
        /\ status[o] = "LOCKED"  => lockedBy[o] # NoReq
        /\ lockedBy[o] # NoReq   => /\ pending[lockedBy[o]] # "none"
                                    /\ o \in sel[lockedBy[o]]

(* The sender of request r is still between its first lock and the point   *)
(* where it completes the request or gives it up.                          *)
Underway(r) ==
    /\ r \in Senders
    /\ req[r] = r
    /\ pc[r] \in {"lock", "build", "built", "complete"}

(* A sender that works with request r has its clean-up before it.          *)
CleansUp(r) == \E d \in Senders : req[d] = r /\ pc[d] \in {"fail_expire", "fail_unlock"}

(* The unlocker never looks at an EXPIRED request again, so outputs that   *)
(* are still locked for one must have somebody who will release them or    *)
(* complete it: its own sender, still locking beside the unlocker, or the  *)
(* clean-up of a failed sender or retry ("locked UTXOs are also released"  *)
(* of finalize_transaction_and_broadcast).  They are stuck only when a     *)
(* call with that very request died or its unlocking statement failed.     *)
ExpiredLocksHaveAReleaser ==
    \A o \in Outputs :
        status[o] = "LOCKED" /\ pending[lockedBy[o]] = "EXPIRED" =>
            \/ Underway(lockedBy[o])
            \/ CleansUp(lockedBy[o])
            \/ lockedBy[o] \in lost

(* Transactions built under one idempotency key by the call that created   *)
(* the request and by a retry that found it spend a common output, so the  *)
(* chain can only take one of them.                                        *)
RetryConflictsWithOriginal ==
    \A c, d \in Calls :
        /\ c # d /\ KeyOf[c] = KeyOf[d] /\ req[c] = c
        /\ c \in inflight \cup mempool
        /\ d \in inflight \cup mempool
        => Conflict(c, d)

(* A payment whose original transaction is mined is not paid again by a    *)
(* retry with the same key, although the row may have been expired,        *)
(* cancelled, released and found again in between.                         *)
OriginalPaysOnce ==
    \A c, d \in mined : KeyOf[c] = KeyOf[d] /\ req[c] = c => c = d

(* No step turns a SPENT output back into a spendable one: an unlock that  *)
(* comes after the block with the spend leaves the row alone.              *)
SpentIsFinal ==
    [][\A o \in Outputs : status[o] = "SPENT" => status'[o] = "SPENT"]_vars

(* A lock is never taken over by another request, and is only released     *)
(* once its pending_transactions row has left PENDING or by the clean-up   *)
(* of a failed sender that works with this row: until then a retry that    *)
(* finds the row PENDING finds the locks in place.                         *)
LocksAreKept ==
    [][\A o \in Outputs : status[o] = "LOCKED" =>
          \/ status'[o] = "LOCKED" /\ lockedBy'[o] = lockedBy[o]
          \/ status'[o] = "SPENT"
          \/ status'[o] = "UNSPENT" /\
                \/ pending'[lockedBy[o]] # "PENDING"
                \/ \E c \in Senders : req[c] = lockedBy[o] /\ pc[c] = "fail_unlock"]_vars

(* Some active output is locked for request c.                             *)
HoldsLock(c) == \E o \in Outputs \ deleted : lockedBy[o] = c /\ status[o] = "LOCKED"

(* FundLocker calls whose key no TransactionSender uses.                   *)
PlainLockers == {c \in Lockers : \A s \in Senders : KeyOf[s] # KeyOf[c]}

(* The unlocker releases what an overdue lock_funds request holds, however *)
(* its passes are cut short, unless its task ends first or a reorg cancels *)
(* the request: what a CANCELLED request has locked nobody releases.       *)
OverdueLocksAreReleased ==
    \A c \in PlainLockers :
        (pending[c] = "PENDING" /\ c \in overdue)
            ~> (pending[c] = "CANCELLED" \/ ~ HoldsLock(c) \/ unlocker = "ended")

=============================================================================
