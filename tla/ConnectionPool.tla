--------------------------- MODULE ConnectionPool ---------------------------
(***************************************************************************)
(* The r2d2 pool of SQLite connections that the daemon's REST handlers,    *)
(* its background tasks and the library's TransactionSender share          *)
(* (db/mod.rs, api/, tasks/, webhooks/worker.rs, transactions/).           *)
(*                                                                         *)
(* Each caller is written as the sequence of steps it takes as far as the  *)
(* pool can tell: it takes a connection, runs statements or a request to   *)
(* the base node while it holds what it has taken, and drops a connection  *)
(* at the end of the scope that took it.  A caller that takes a connection *)
(* inside such a scope holds and waits.  What makes that safe is that      *)
(* Pool::get gives up after its timeout: every caller's error path drops   *)
(* whatever the caller holds.                                              *)
(***************************************************************************)
EXTENDS Integers, Sequences, FiniteSets

CONSTANTS
    Slots,    \* the calls that may be in progress at once
    Menu,     \* for each slot, where its calls come from
    Items     \* bound: webhooks or proofs a worker finds in one poll

ASSUME SlotsAssumption == IsFiniteSet(Slots)
ASSUME MenuAssumption == Menu \in [Slots -> SUBSET {"api", "library", "workers", "unlocker"}]
ASSUME ItemsAssumption == Items \in Nat

\* Fault: a pool that is smaller than the deepest nesting of scopes.
FaultSmallPool == 3

\* The connections of the pool.
DB_POOL_SIZE == 5

(***************************************************************************)
(* Steps                                                                   *)
(***************************************************************************)

\* op is what the step does to the pool; fails, whether it can end the call
\* with an error; save, what it leaves behind when it succeeds; unlock,
\* whether its failure runs fail_and_unlock_pending_transaction; skip, how
\* many steps of a loop body its failure passes over instead of ending the
\* call.
Step(op, fails) ==
    [op |-> op, fails |-> fails, save |-> "nothing", unlock |-> FALSE, skip |-> 0]

\* pool.get()
Get == Step("get", TRUE)

\* Statements on a connection that is held, a computation, or a request to
\* the base node.
Run == Step("run", TRUE)

Save(what) == [Run EXCEPT !.save = what]

\* The innermost connection goes out of scope.
Drop == Step("drop", FALSE)

OrLog(step) == [step EXCEPT !.fails = FALSE]

OrUnlock(step) == [step EXCEPT !.unlock = TRUE]

OrSkip(step, n) == [step EXCEPT !.skip = n]

(***************************************************************************)
(* Callers with one connection                                             *)
(***************************************************************************)

\* The scope most handlers are: a connection, the account, the answer.
Read == <<Get, Run, Drop>>

api_get_balance == Read

api_get_address == Read

\* The payment id is decoded before the pool is asked.
api_create_address_with_payment_id == <<Run>> \o Read

api_get_scan_status == Read

api_get_events == Read

api_get_completed_transactions == Read

api_get_displayed_transactions == Read

\* Both lookups fall back to the payref history on the same connection.
api_get_completed_transaction_by_payref == Read

api_get_displayed_transactions_by_payref == Read

\* The connection is kept while the base node is asked for the mempool's
\* fees; a failed request is replaced by default fees.
estimate_fees == <<Get, Run, OrLog(Run), Run, Drop>>

api_estimate_fees == estimate_fees

load_transactions == Read

(***************************************************************************)
(* Callers that hold one connection and wait for another                   *)
(***************************************************************************)

\* FundLocker::lock: the funds of a known idempotency key are returned as
\* they are, others are selected and locked in one database transaction.
lock(found) ==
    IF found THEN <<Get, Run, Drop>> ELSE <<Get, Run, Save("lock"), Drop>>

WithAccount(body) == <<Get, Run>> \o body \o <<Drop>>

api_lock_funds(found) == WithAccount(lock(found))

api_create_unsigned_transaction(found) == WithAccount(lock(found) \o <<Run>>)

\* Fault: the records are written on a connection of their own.
FaultPersistOnThird(found) ==
    <<Run>> \o WithAccount(lock(found) \o <<Run, Get, Save("completed"), Drop>>)
        \o <<Save("sent")>>

\* The keys are parsed first; the records are written on the first
\* connection, the node is asked with none, and a third connection is taken
\* to record that it accepted.
api_burn_funds(found) ==
    <<Run>> \o WithAccount(lock(found) \o <<Run, Save("completed")>>)
        \o <<Save("sent"), Get, Run, Drop>>

\* TransactionSender::new
new == <<Get, Run, Drop>>

validate_transaction_creation_request == <<Get, Run, Drop>>

create_utxo_selection == <<Get, Run, Drop>>

create_pending_transaction ==
    <<Get>> \o create_utxo_selection \o <<Save("pending"), Save("lock"), Drop>>

create_or_find_pending_transaction(found) ==
    <<Get, Run>> \o (IF found THEN <<>> ELSE create_pending_transaction) \o <<Drop>>

start_new_transaction(found) ==
    <<Get>> \o validate_transaction_creation_request
        \o create_or_find_pending_transaction(found)
        \o <<OrUnlock(Run), Drop>>

check_if_transaction_expired == <<OrUnlock(Get), OrUnlock(Run), Drop>>

finalize_transaction_and_broadcast ==
    <<Get>> \o check_if_transaction_expired
        \o <<OrUnlock(Save("completed")), OrUnlock(Save("sent")), Run, Drop>>

(***************************************************************************)
(* Background tasks                                                        *)
(***************************************************************************)

\* One tick of TransactionUnlocker::run.  A failed sweep is logged; a failed
\* get leaves the loop, and with it the task.
unlock_expired_transactions == <<[Get EXCEPT !.save = "task"], OrLog(Run), Drop>>

\* The body of a worker's loop over what it found: the request, then a
\* connection of its own for the result.  Nothing in it ends the loop.
Repeat(n, body) == [i \in 1 .. n * Len(body) |-> body[((i - 1) % Len(body)) + 1]]

process_item ==
    <<OrLog(Run), OrSkip(Get, 2), OrSkip(Run, 1), Drop>>

process_batch == <<Get, Run, Drop>> \o Repeat(Items, process_item)

process_single_proof ==
    <<OrSkip(Run, 3), OrSkip(Get, 2), OrSkip(Run, 1), Drop>>

process_pending_proofs == <<Get, Run, Drop>> \o Repeat(Items, process_single_proof)

(***************************************************************************)
(* Calls in progress                                                       *)
(***************************************************************************)

VARIABLES
    idle,     \* connections in the pool
    held,     \* connections of each slot
    todo,     \* the steps each slot has still to take
    saved,    \* what the slot's call has left behind
    result    \* "none", "open" while in progress, then how the call ended

vars == <<idle, held, todo, saved, result>>

\* The endpoints of the daemon.
create_router ==
    {api_get_balance, api_get_address, api_create_address_with_payment_id,
     api_get_scan_status, api_get_events, api_get_completed_transactions,
     api_get_displayed_transactions, api_get_completed_transaction_by_payref,
     api_get_displayed_transactions_by_payref, api_estimate_fees}
    \cup {api_lock_funds(f) : f \in BOOLEAN}
    \cup {api_create_unsigned_transaction(f) : f \in BOOLEAN}
    \cup {api_burn_funds(f) : f \in BOOLEAN}

Library ==
    {load_transactions, new, finalize_transaction_and_broadcast}
    \cup {start_new_transaction(f) : f \in BOOLEAN}

Workers == {process_batch, process_pending_proofs}

Calls(c) ==
    (IF "api" \in Menu[c] THEN create_router ELSE {})
    \cup (IF "library" \in Menu[c] THEN Library ELSE {})
    \cup (IF "workers" \in Menu[c] THEN Workers ELSE {})
    \cup (IF "unlocker" \in Menu[c] THEN {unlock_expired_transactions} ELSE {})

\* connect_and_migrate builds the pool and gives its own connection back.
Init ==
    /\ idle = DB_POOL_SIZE
    /\ held = [c \in Slots |-> 0]
    /\ todo = [c \in Slots |-> <<>>]
    /\ saved = [c \in Slots |-> {}]
    /\ result = [c \in Slots |-> "none"]

Open(c) == result[c] = "open"

AtGet(c) == Open(c) /\ todo[c] # <<>> /\ Head(todo[c]).op = "get"

AtRun(c) == Open(c) /\ todo[c] # <<>> /\ Head(todo[c]).op = "run"

\* A request arrives or a task's interval ticks.  A task that has ended is
\* never started again.
Arrive(c) ==
    /\ ~Open(c) /\ result[c] # "TaskEnded"
    /\ \E call \in Calls(c) : todo' = [todo EXCEPT ![c] = call]
    /\ saved' = [saved EXCEPT ![c] = {}]
    /\ result' = [result EXCEPT ![c] = "open"]
    /\ UNCHANGED <<idle, held>>

\* The call goes on behind its first step.
Advance(c) ==
    /\ todo' = [todo EXCEPT ![c] = Tail(todo[c])]
    /\ UNCHANGED result

\* The call's first step fails and every connection the call holds goes out
\* of scope.  The call ends with the result end unless the step is part of a
\* loop body, which the loop then leaves for the next one.
Abort(c, end) ==
    LET step == Head(todo[c])
    IN  /\ idle' = idle + held[c]
        /\ held' = [held EXCEPT ![c] = 0]
        /\ saved' = [saved EXCEPT ![c] =
                        IF step.unlock THEN @ \ {"lock"} ELSE @]
        /\ IF step.skip > 0
             THEN /\ todo' = [todo EXCEPT ![c] =
                                 SubSeq(@, step.skip + 2, Len(@))]
                  /\ UNCHANGED result
             ELSE /\ todo' = [todo EXCEPT ![c] = <<>>]
                  /\ result' = [result EXCEPT ![c] = end]

Take(c) ==
    /\ AtGet(c) /\ idle > 0
    /\ idle' = idle - 1
    /\ held' = [held EXCEPT ![c] = @ + 1]
    /\ Advance(c)
    /\ UNCHANGED saved

\* Fault: a caller whose get times out asks again.
FaultGetRetries(c) == AtGet(c) /\ idle = 0 /\ UNCHANGED vars

\* connection_timeout has passed without a connection coming back.
Refuse(c) ==
    /\ AtGet(c) /\ idle = 0
    /\ Abort(c, IF Head(todo[c]).save = "task" THEN "TaskEnded" ELSE "refused")

Perform(c) ==
    /\ AtRun(c)
    /\ saved' = [saved EXCEPT ![c] = @ \cup ({Head(todo[c]).save} \ {"nothing"})]
    /\ Advance(c)
    /\ UNCHANGED <<idle, held>>

Fail(c) ==
    /\ AtRun(c) /\ Head(todo[c]).fails
    /\ Abort(c, "failed")

GiveBack(c) ==
    /\ Open(c) /\ todo[c] # <<>> /\ Head(todo[c]).op = "drop"
    /\ idle' = idle + 1
    /\ held' = [held EXCEPT ![c] = @ - 1]
    /\ Advance(c)
    /\ UNCHANGED saved

Answer(c) ==
    /\ Open(c) /\ todo[c] = <<>>
    /\ result' = [result EXCEPT ![c] = "Ok"]
    /\ UNCHANGED <<idle, held, todo, saved>>

\* The steps the runtime takes for a call once it has been made.
Continue(c) ==
    \/ Take(c)
    \/ Refuse(c)
    \/ Perform(c)
    \/ Fail(c)
    \/ GiveBack(c)
    \/ Answer(c)

Next == \E c \in Slots : Arrive(c) \/ Continue(c)

Spec == Init /\ [][Next]_vars

\* Every call is run by the runtime, and every wait of it is bounded: for a
\* connection by the pool's timeout, for the node by the HTTP client's.
FairSpec == Spec /\ \A c \in Slots : WF_vars(Continue(c))

(***************************************************************************)
(* Properties                                                              *)
(***************************************************************************)

\* The pool is large enough for the deepest nesting of scopes
\* (start_new_transaction, four connections): a call that finds the pool
\* empty has another call to wait for, never only itself.
NobodyWaitsForItself ==
    \A c \in Slots : AtGet(c) /\ idle = 0 => \E d \in Slots \ {c} : held[d] > 0

\* A call that is refused a connection halfway has left no output locked and
\* no transaction recorded, unless the transaction had already been accepted
\* by the node.  Whoever repeats the call starts from where it started.
RefusalsLeaveNothingBehind ==
    \A c \in Slots :
        result[c] = "refused" =>
            \/ saved[c] \cap {"lock", "pending", "completed"} = {}
            \/ "sent" \in saved[c]

\* Every request is answered and every tick of a task ends, although callers
\* hold connections while they wait for more and may together have taken all
\* of them: the timeout of the pool breaks the circle.
EveryCallEnds == \A c \in Slots : Open(c) ~> ~Open(c)

=============================================================================
