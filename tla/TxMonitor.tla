------------------------------ MODULE TxMonitor ------------------------------
(***************************************************************************)
(* Outbound transactions of one account after they are signed: the table   *)
(* completed_transactions, as the transaction sender, the transaction      *)
(* monitor and the reorg handler write it, with the events and webhooks    *)
(* the monitor leaves.                                                     *)
(*                                                                         *)
(* The scanner, the reorg handler and the monitor take turns in one task;  *)
(* senders run beside them.  Both update a row by its id, whatever its     *)
(* status has become since they read it.  Every SQL statement here commits *)
(* on its own, except the rollback of a reorg.  A NULL height, hash or     *)
(* payment reference is 0; the payment reference of a transaction is       *)
(* determined by the block it is computed from.                            *)
(***************************************************************************)
EXTENDS BaseNode

CONSTANTS
    Txs,           \* signed transactions
    Required,      \* required_confirmations
    MaxAttempts,   \* MAX_BROADCAST_ATTEMPTS
    Embedded       \* TRUE: an application also calls monitor_if_needed itself

ASSUME OnlyTransactionsAreMined == Items = Txs /\ \A t \in Txs : Needs[t] = {}
ASSUME MonitorConstants ==
    /\ IsFiniteSet(Txs)
    /\ Required \in Nat /\ Embedded \in BOOLEAN
    /\ MaxAttempts \in Nat \ {0}

VARIABLES
    rows,          \* completed_transactions: a function on the ids present
    locked,        \* transactions whose inputs are locked
    history,       \* payref_history: pairs <<id, payref>>
    sender,        \* sender[t]: where the call that sends t is
    tips,          \* scanned blocks, element h is at height h
    flag,          \* has_pending_outbound
    pass,          \* the pass of the monitor: see Pass
    told,          \* told[t]: event type of the last webhook queued for t
    failed,        \* transactions that met a failure: an unanswered or failed
                   \* request, a failed statement, a crash; one each (a bound)
    unreleased,    \* history: transactions whose release was the statement that failed
    untold,        \* history: transactions whose last event or webhook was
    shown          \* pairs <<id, payref>> a reader may have seen (not in the code)

table  == <<rows, locked>>
losses == <<failed, unreleased, untold>>
ghost  == <<losses, shown>>
vars   == <<node, table, history, sender, tips, flag, pass, told, ghost>>

(* The answer of the node to submit_transaction.  Without an answer the    *)
(* transaction may have arrived or not.                                    *)
Answers == {"accepted", "AlreadyMined", "refused", "error"}

(* A pass works through copies of the rows it has read, and is at some     *)
(* step of the first: "ask" the node, "mark" the row with `status`,        *)
(* "unlock" its inputs, insert the "event" and queue its webhook.          *)
Idle == [step |-> "idle", height |-> 0, queue |-> {}, status |-> "Completed",
         found |-> <<0, 0>>, initial |-> 0, terminal |-> 0]

Terminal == {"MinedConfirmed", "Rejected"}

Init ==
    /\ NodeInit
    /\ rows = <<>> /\ locked = {}
    /\ history = {}
    /\ sender = [t \in Txs |-> "new"]
    /\ tips = <<>>
    /\ flag = FALSE
    /\ pass = Idle
    /\ told = [t \in Txs |-> "none"]
    /\ failed = {} /\ unreleased = {} /\ untold = {}
    /\ shown = {}

Monus(a, b) == IF a >= b THEN a - b ELSE 0

(* Writes of a row.  `shown` collects the payment references of confirmed  *)
(* rows no sender is going to overwrite any more.                          *)
Write(r) ==
    /\ rows'  = r
    /\ shown' = shown \cup {<<t, r[t].payref>> : t \in
                  {u \in DOMAIN r : r[u].status = "MinedConfirmed" /\ sender[u] = "done"}}

-----------------------------------------------------------------------------
(* Faulty variants of definitions below.                                   *)

(* A rejected transaction is put back by a reorg as well.                  *)
FaultResetAll(r, h) == {t \in DOMAIN r : r[t].mined >= h \/ r[t].status = "Rejected"}

(* Payment references are saved after the reset has cleared them.          *)
FaultSaveAfterReset(r, h) == {}

(* A rejected transaction keeps its inputs.                                *)
FaultNoUnlock(status) == "event"

(* A webhook is only queued for the final states.                          *)
FaultFinalOnly(status) == IF status \in Terminal THEN status ELSE "none"

-----------------------------------------------------------------------------
(* db/completed_transactions.rs                                            *)

create_completed_transaction ==
    [status |-> "Completed", attempts |-> 0, mined |-> 0, hash |-> 0, payref |-> 0]

mark_completed_transaction_as_broadcasted(row, attempts) ==
    [row EXCEPT !.status = "Broadcast", !.attempts = attempts]

mark_completed_transaction_as_mined_unconfirmed(row, h, b) ==
    [row EXCEPT !.status = "MinedUnconfirmed", !.mined = h, !.hash = b]

mark_completed_transaction_as_confirmed(row, payref) ==
    [row EXCEPT !.status = "MinedConfirmed", !.payref = payref]

mark_completed_transaction_as_rejected(row) == [row EXCEPT !.status = "Rejected"]

get_pending_completed_transactions(r) == {t \in DOMAIN r : r[t].status \notin Terminal}

(* Rows a reorg from height h puts back ...                                *)
MinedFrom(r, h) ==
    {t \in DOMAIN r : r[t].status \in {"MinedUnconfirmed", "MinedConfirmed"} /\ r[t].mined >= h}

(* ... and how.                                                            *)
reset_mined(row) ==
    [row EXCEPT !.status = "Completed", !.attempts = 0, !.mined = 0, !.hash = 0, !.payref = 0]

(* save_completed_transaction_payrefs_before_reorg                         *)
SavedPayrefs(r, h) == {<<t, r[t].payref>> : t \in {u \in MinedFrom(r, h) : r[u].payref # 0}}

(* api_get_completed_transaction_by_payref: the row that has the payment   *)
(* reference, else the row that had it.                                    *)
LookUp(x) ==
    IF x[1] \in DOMAIN rows /\ rows[x[1]].payref = x[2] THEN {x[1]}
    ELSE {y[1] : y \in {z \in history : z = x}}

-----------------------------------------------------------------------------
(* The sender: finalize_transaction_and_broadcast                          *)

Record(t) ==
    /\ sender[t] = "new"
    /\ Write([u \in DOMAIN rows \cup {t} |->
                IF u = t THEN create_completed_transaction ELSE rows[u]])
    /\ locked'  = locked \cup {t}
    /\ sender'  = [sender EXCEPT ![t] = "recorded"]
    /\ UNCHANGED <<node, history, tips, flag, pass, told, losses>>

(* submit_transaction: what the node may answer, and what it keeps.        *)
SubmitTo(t, answer) ==
    \/ answer = "accepted"     /\ ~ OnChain(t) /\ Accept(t)
    \/ answer = "AlreadyMined" /\ OnChain(t)   /\ UNCHANGED node
    \/ answer = "refused"      /\ ~ OnChain(t) /\ t \notin mempool /\ UNCHANGED node
    \/ answer = "error"        /\ (Accept(t) \/ UNCHANGED node)

(* A request without an answer is a failure.                               *)
Answered(t, answer) ==
    IF answer = "error" THEN t \notin failed /\ failed' = failed \cup {t} ELSE UNCHANGED failed

SenderSubmit(t, answer) ==
    /\ sender[t] = "recorded"
    /\ SubmitTo(t, answer)
    /\ Answered(t, answer)
    /\ sender' = [sender EXCEPT ![t] = answer]
    /\ UNCHANGED <<table, history, tips, flag, pass, told, unreleased, untold, shown>>

(* The sender's write once the answer is there.                            *)
SenderMark(t) ==
    /\ sender[t] \in Answers
    /\ Write(CASE sender[t] = "accepted" ->
                    [rows EXCEPT ![t] = mark_completed_transaction_as_broadcasted(@, 1)]
               [] sender[t] \in {"refused", "error"} ->
                    [rows EXCEPT ![t] = mark_completed_transaction_as_rejected(@)]
               [] OTHER -> rows)
    /\ sender' = [sender EXCEPT ![t] =
                    IF sender[t] \in {"refused", "error"} THEN "unlock" ELSE "done"]
    /\ UNCHANGED <<node, locked, history, tips, flag, pass, told, losses>>

(* fail_and_unlock_pending_transaction                                     *)
SenderUnlock(t) ==
    /\ sender[t] = "unlock"
    /\ locked' = locked \ {t}
    /\ sender' = [sender EXCEPT ![t] = "done"]
    /\ UNCHANGED <<node, rows, history, tips, flag, pass, told, ghost>>

(* A statement of the sender fails, or its process ends.  A failed unlock  *)
(* is only logged, and nobody tries again.                                 *)
SenderFails(t) ==
    /\ sender[t] \notin {"new", "done"}
    /\ t \notin failed
    /\ failed' = failed \cup {t}
    /\ unreleased' = IF sender[t] = "unlock" THEN unreleased \cup {t} ELSE unreleased
    /\ sender' = [sender EXCEPT ![t] = "done"]
    /\ UNCHANGED <<node, table, history, tips, flag, pass, told, untold, shown>>

-----------------------------------------------------------------------------
(* The scan cycle                                                          *)

Agreeing == {h \in DOMAIN tips : h <= Tip /\ tips[h] = chain[h]}
reorg_start_height == IF Agreeing = {} THEN 0 ELSE Max(Agreeing) + 1

(* prepare_target: handle_reorgs, then MonitoringState::initialize.        *)
PrepareTarget ==
    /\ pass.step = "idle"
    /\ LET h == reorg_start_height
           r == [t \in DOMAIN rows |->
                   IF t \in MinedFrom(rows, h) THEN reset_mined(rows[t]) ELSE rows[t]]
       IN IF tips # <<>> /\ h <= Len(tips)
            THEN /\ history' = history \cup SavedPayrefs(rows, h)
                 /\ Write(r)
                 /\ tips' = SubSeq(tips, 1, Monus(h, 1))
                 /\ flag' = (get_pending_completed_transactions(r) # {})
            ELSE /\ flag' = (get_pending_completed_transactions(rows) # {})
                 /\ UNCHANGED <<rows, shown, history, tips>>
    /\ UNCHANGED <<node, locked, sender, pass, told, losses>>

(* The items of a pass: copies of the pending rows.                        *)
Queue(ids) == {[tx |-> t, row |-> rows[t]] : t \in ids}

(* terminal_transitions >= initial_count, or nothing to do.                *)
ClearsFlag(p) == p.terminal >= p.initial

(* monitor_if_needed at chain height h, up to the first item.              *)
StartPass(h) ==
    LET ids == get_pending_completed_transactions(rows)
    IN IF ~ flag THEN UNCHANGED <<flag, pass>>
       ELSE /\ flag' = (ids # {})
            /\ pass' = IF ids = {} THEN Idle
                       ELSE [Idle EXCEPT !.step = "ask", !.height = h, !.queue = Queue(ids),
                                         !.initial = Cardinality(ids)]

(* The guard in front of the monitor, the pruning of tips and the progress *)
(* report in unified_scan_loop.                                            *)
MonitorDue(last, next) == last >= next

(* A batch of the scan loop: blocks up to `last` are processed, the target *)
(* is moved on, and then the guard is evaluated.                           *)
ScanBatch(last) ==
    /\ pass.step = "idle"
    /\ last \in Len(tips) + 1 .. Tip
    /\ tips' = tips \o SubSeq(chain, Len(tips) + 1, last)
    /\ LET next_block_to_scan == last + 1
       IN IF MonitorDue(last, next_block_to_scan) THEN StartPass(last) ELSE UNCHANGED <<flag, pass>>
    /\ UNCHANGED <<node, table, history, sender, told, ghost>>

(* An application calls monitor_if_needed with the height it has scanned.  *)
CallMonitor ==
    /\ Embedded
    /\ pass.step = "idle" /\ flag
    /\ StartPass(Len(tips))
    /\ UNCHANGED <<node, table, history, sender, tips, told, ghost>>

-----------------------------------------------------------------------------
(* The pass of the monitor                                                 *)

(* Rows are taken by status (PendingTransactionsByStatus).  The order      *)
(* among rows of one status is that of their creation; here it is any      *)
(* fixed one.                                                              *)
Turn == [Completed |-> 1, Broadcast |-> 2, MinedUnconfirmed |-> 3]

Item ==
    CHOOSE i \in pass.queue : \A j \in pass.queue : Turn[i.row.status] <= Turn[j.row.status]

(* On to the next item, or out of the pass.                                *)
Advance(p) ==
    LET left == p.queue \ {Item}
    IN IF left # {}
         THEN pass' = [p EXCEPT !.queue = left, !.step = "ask", !.found = <<0, 0>>] /\ UNCHANGED flag
         ELSE pass' = Idle /\ flag' = (flag /\ ~ ClearsFlag(p))

Mark(status, found) ==
    pass' = [pass EXCEPT !.step = "mark", !.status = status, !.found = found] /\ UNCHANGED flag

(* What the monitor takes the answer of the node for.                      *)
broadcast_transaction(answer) ==
    IF answer \in {"accepted", "AlreadyMined"} THEN "Broadcast" ELSE "Rejected"

(* rebroadcast_completed_transactions, up to the answer of the node.       *)
Rebroadcast(answer) ==
    /\ pass.step = "ask" /\ Item.row.status = "Completed"
    /\ IF Item.row.attempts >= MaxAttempts
         THEN answer = "refused" /\ UNCHANGED <<node, failed>> /\ Mark("Rejected", <<0, 0>>)
         ELSE /\ SubmitTo(Item.tx, answer)
              /\ Answered(Item.tx, answer)
              /\ Mark(broadcast_transaction(answer), <<0, 0>>)
    /\ UNCHANGED <<table, history, sender, tips, told, unreleased, untold, shown>>

(* Where the node has the kernel: "Mined" with height and hash, in its     *)
(* pool, or nowhere.                                                       *)
transaction_query(t) ==
    IF OnChain(t) THEN [location |-> "Mined", at |-> <<HeightOf(t), chain[HeightOf(t)]>>]
    ELSE [location |-> IF t \in mempool THEN "InMempool" ELSE "NotStored", at |-> <<0, 0>>]

find_kernel_on_chain(t) ==
    LET response == transaction_query(t)
    IN IF response.location = "Mined" THEN {response.at} ELSE {}

(* check_broadcast_for_mining: the chain of the node may be ahead of, or   *)
(* other than, what has been scanned.                                      *)
CheckMined ==
    /\ pass.step = "ask" /\ Item.row.status = "Broadcast"
    /\ \/ \E found \in find_kernel_on_chain(Item.tx) : Mark("MinedUnconfirmed", found)
       \/ find_kernel_on_chain(Item.tx) = {} /\ Advance(pass)
    /\ UNCHANGED <<node, table, history, sender, tips, told, ghost>>

(* check_confirmation_status, with the height the pass was started with.   *)
CheckConfirmed ==
    /\ pass.step = "ask" /\ Item.row.status = "MinedUnconfirmed"
    /\ IF Monus(pass.height, Item.row.mined) >= Required
         THEN Mark("MinedConfirmed", <<0, 0>>) ELSE Advance(pass)
    /\ UNCHANGED <<node, table, history, sender, tips, told, ghost>>

(* The row as the pass leaves it.  The hash of a mined block came with the *)
(* answer of the node, the payment reference from the copy of the row.     *)
Marked(row) ==
    CASE pass.status = "Broadcast" ->
           mark_completed_transaction_as_broadcasted(row, Item.row.attempts + 1)
      [] pass.status = "MinedUnconfirmed" ->
           mark_completed_transaction_as_mined_unconfirmed(row, pass.found[1], pass.found[2])
      [] pass.status = "MinedConfirmed" ->
           mark_completed_transaction_as_confirmed(row, Item.row.hash)
      [] OTHER -> mark_completed_transaction_as_rejected(row)

(* What follows the update of the row.                                     *)
AfterMark(status) == IF status = "Rejected" THEN "unlock" ELSE "event"

MarkRow ==
    /\ pass.step = "mark"
    /\ Write([rows EXCEPT ![Item.tx] = Marked(@)])
    /\ pass' = [pass EXCEPT !.step = AfterMark(pass.status)]
    /\ UNCHANGED <<node, locked, history, sender, tips, flag, told, losses>>

(* unlock_outputs_for_pending_transaction, and the row of the history.     *)
Unlock ==
    /\ pass.step = "unlock"
    /\ locked' = locked \ {Item.tx}
    /\ pass' = [pass EXCEPT !.step = "event"]
    /\ UNCHANGED <<node, rows, history, sender, tips, flag, told, ghost>>

(* The type of the event for a status.                                     *)
EventType(status) == status

(* persist_event: the event, then the webhook of its type.  A failure      *)
(* between the two statements leaves an event nobody is told of.           *)
PersistEvent ==
    /\ pass.step = "event"
    /\ told' = [told EXCEPT ![Item.tx] = EventType(pass.status)]
    /\ untold' = untold \ {Item.tx}
    /\ Advance([pass EXCEPT !.terminal = @ + (IF pass.status \in Terminal THEN 1 ELSE 0)])
    /\ UNCHANGED <<node, table, history, sender, tips, failed, unreleased, shown>>

(* A statement or a query of the pass fails, or the process ends: the rest *)
(* of the pass is dropped, and run is started again.                       *)
PassFails ==
    /\ pass.step # "idle"
    /\ Item.tx \notin failed
    /\ failed' = failed \cup {Item.tx}
    /\ unreleased' = IF pass.step = "unlock" THEN unreleased \cup {Item.tx} ELSE unreleased
    /\ untold' = IF pass.step = "event" THEN untold \cup {Item.tx} ELSE untold
    /\ pass' = Idle
    /\ flag' = FALSE
    /\ UNCHANGED <<node, table, history, sender, tips, told, shown>>

-----------------------------------------------------------------------------
NodeStep ==
    /\ \/ \E body \in Bodies(Tip, mempool) : Mine(body)
       \/ \E h \in 0 .. Tip - 1 : \E body \in Bodies(h, mempool) : Reorganise(h, body)
    /\ UNCHANGED <<table, history, sender, tips, flag, pass, told, ghost>>

PassStep ==
    \/ \E answer \in Answers : Rebroadcast(answer)
    \/ CheckMined
    \/ CheckConfirmed
    \/ MarkRow
    \/ Unlock
    \/ PersistEvent

SenderStep(t) ==
    \/ Record(t)
    \/ \E answer \in Answers : SenderSubmit(t, answer)
    \/ SenderMark(t)
    \/ SenderUnlock(t)

Next ==
    \/ NodeStep
    \/ \E t \in Txs : SenderStep(t) \/ SenderFails(t)
    \/ PrepareTarget
    \/ \E last \in 1 .. MaxHeight : ScanBatch(last)
    \/ CallMonitor
    \/ PassStep
    \/ PassFails

Spec == Init /\ [][Next]_vars

(* Every cycle of the daemon prepares the target and scans what there is;  *)
(* calls that were started go on.  Nobody owes a call of monitor_if_needed *)
(* beside the scan loop, and the node owes nothing.                        *)
Fairness ==
    /\ SF_vars(PrepareTarget)
    /\ SF_vars(\E last \in 1 .. MaxHeight : ScanBatch(last))
    /\ WF_vars(PassStep)
    /\ \A t \in Txs : WF_vars(SenderStep(t))

FairSpec == Spec /\ Fairness

-----------------------------------------------------------------------------
(* Properties                                                              *)

(* A rejected transaction gives its inputs back: the writer of the status, *)
(* sender or monitor, is about to, or the very statement that does so has  *)
(* failed.  That costs the inputs for good: no other part of the wallet    *)
(* releases them.  Whatever else failed before, an unanswered submission   *)
(* above all, the inputs come back.                                        *)
RejectedIsReleased ==
    \A t \in DOMAIN rows : rows[t].status = "Rejected" /\ t \in locked =>
        \/ sender[t] = "unlock"
        \/ pass.step = "unlock" /\ Item.tx = t
        \/ t \in unreleased

(* Whoever follows the webhooks knows that a transaction is mined, and     *)
(* that it is confirmed: the monitor is about to tell, or of the three     *)
(* statements that update the row, insert the event and queue the webhook  *)
(* the second or the third has failed, the last time it was to be told.    *)
WebhooksFollowMining ==
    \A t \in DOMAIN rows :
        rows[t].status \in {"MinedUnconfirmed", "MinedConfirmed"} /\ told[t] # rows[t].status
            => t \in untold \/ (pass.step = "event" /\ Item.tx = t)

(* The payment reference of a confirmed transaction leads to it for ever,  *)
(* through reorgs that clear it and blocks that give it another.           *)
PayrefsResolve == \A x \in shown : x[1] \in LookUp(x)

(* The diagram of monitor.rs.                                              *)
Diagram ==
    {<<"Completed", "Broadcast">>, <<"Completed", "Rejected">>, <<"Broadcast", "Rejected">>,
     <<"Broadcast", "MinedUnconfirmed">>, <<"MinedUnconfirmed", "MinedConfirmed">>}

(* The pass holds a copy of t that no longer is what the table has.        *)
Stale(t) == \E i \in pass.queue : i.tx = t /\ i.row # rows[t]

(* A row leaves the diagram only by a reorg that puts a mined row back, or *)
(* when sender and monitor have the same transaction in hand: the sender   *)
(* has not returned, or the monitor writes from a copy the sender has      *)
(* overtaken.                                                              *)
FollowsDiagram ==
    [][\A t \in DOMAIN rows :
         \/ rows'[t].status = rows[t].status
         \/ <<rows[t].status, rows'[t].status>> \in Diagram
         \/ tips' # tips /\ rows[t].mined # 0 /\ rows'[t].status = "Completed"
         \/ sender[t] # "done"
         \/ Stale(t)]_vars

(* Mined, and as deep as the wallet wants it, seen from its own record     *)
(* too.                                                                    *)
Deep(t) ==
    /\ t \in DOMAIN rows
    /\ OnChain(t)
    /\ Tip >= HeightOf(t) + Required
    /\ Tip >= rows[t].mined + Required

(* A transaction that is deep in the chain, and stays there, is reported   *)
(* confirmed or rejected in the end ("tracking outbound transactions       *)
(* through their lifecycle from broadcast to final confirmation").  The    *)
(* scan loop does not keep this promise of monitor.rs.                     *)
DeepTransactionsAreSettled ==
    \A t \in Txs : Deep(t) ~> (~ Deep(t) \/ rows[t].status \in Terminal)
=============================================================================
