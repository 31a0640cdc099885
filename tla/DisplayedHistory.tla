-------------------------- MODULE DisplayedHistory --------------------------
(***************************************************************************)
(* The transaction history of one account: the table                       *)
(* displayed_transactions, as the sender, the block processor, the monitor *)
(* and the reorg handler write it and the API reads it, and the table      *)
(* payref_history.                                                         *)
(*                                                                         *)
(* Who writes a row decides its id.  A row the sender adds for a           *)
(* transaction it has just submitted has the random id of the transaction; *)
(* a row the block processor adds has an id derived from an output hash.   *)
(* Here the id is the transaction or the output itself.                    *)
(*                                                                         *)
(* A row keeps its block height twice: in the column block_height (col),   *)
(* which the SQL conditions use, and inside the JSON record (height),      *)
(* which readers see.  A payment reference is the pair of the block hash   *)
(* and the sent output (here: its transaction) it is computed from.        *)
(* Amounts only matter where search_inputs adds them up.  One SQL          *)
(* transaction is one step.                                                *)
(***************************************************************************)
EXTENDS BaseNode, InputMatching, TLC

CONSTANTS
    Receipts,    \* outputs paid to the wallet by others (or coinbases)
    Sent,        \* transactions this wallet's sender submits
    Foreign,     \* transactions made elsewhere with the same keys
    Spends,      \* Spends[t]: wallet outputs a transaction spends
    Change,      \* Change[t]: its change output, as a set of at most one
    Value,       \* Value[o]: value of a wallet output
    Paid,        \* Paid[t]: amount sent plus fee
    Required     \* required_confirmations

Txs     == Sent \cup Foreign
Outputs == Receipts \cup UNION {Change[t] : t \in Txs}

(* Wallet outputs stand for themselves; no transaction is an output.       *)
ASSUME DistinctItems == Txs \cap Outputs = {} /\ Sent \cap Foreign = {}

(* Transactions spend wallet outputs.  A change output has one creator and *)
(* is not a payment; a transaction has at most one.                        *)
ASSUME SpendsAssumption == Spends \in [Txs -> SUBSET Outputs]
ASSUME ChangeAssumption ==
    \A t \in Txs : /\ Change[t] \cap Receipts = {}
                   /\ \A c, d \in Change[t] : c = d
                   /\ \A u \in Txs \ {t} : Change[t] \cap Change[u] = {}
ASSUME AmountsAssumption == Value \in [Outputs -> Nat] /\ Paid \in [Txs -> Nat]
ASSUME OutputsFinite     == IsFiniteSet(Outputs)
ASSUME RequiredAssumption == Required \in Nat

VARIABLES
    tips,        \* scanned blocks, element h is at height h
    rows,        \* displayed_transactions: a function on the ids present to records
                 \* of status, col (the column block_height), height and conf (as
                 \* in the JSON), ins, outs and payref (empty or one reference)
    payrefs,     \* payref_history: pairs <<id, payref>>
    sender,      \* sender[t]: "new", "submitted" or "done"
    shown        \* payrefs a row had while it was right about its block (not in the code)

vars == <<node, tips, rows, payrefs, sender, shown>>

Init ==
    /\ NodeInit
    /\ tips    = <<>>
    /\ rows    = <<>>
    /\ payrefs = {}
    /\ sender  = [t \in Sent |-> "new"]
    /\ shown   = {}

Monus(a, b) == IF a >= b THEN a - b ELSE 0

(* Pairs of ids and payrefs in a set of rows.                              *)
PayrefsOf(r, ids) == UNION {{<<i, p>> : p \in r[i].payref} : i \in ids}

(* The column and the record of a row name the same height.                *)
InStep(r, i) == r[i].col = r[i].height

(* A row of an output that tells of its being spent, and no longer of the  *)
(* transaction that created it.                                            *)
Replaced(r, i) == i \in Outputs /\ r[i].outs = {}

(* Wallet outputs a block creates, and the ones an account has rows of.    *)
Created(body) == (Receipts \cap body) \cup UNION {Change[t] : t \in Txs \cap body}
Stored(seq)   == UNION {Created(bodies[seq[k]]) : k \in DOMAIN seq}

(* A row is right about its block: its heights agree, and it is a row of   *)
(* the sender or its output is created in the scanned block of that        *)
(* height.                                                                 *)
Right(r, seq, i) ==
    /\ InStep(r, i)
    /\ i \in Sent \/ (r[i].height \in DOMAIN seq /\ i \in Created(bodies[seq[r[i].height]]))

(* New contents of the table, and of the scanned blocks.                   *)
Write(r, seq) ==
    /\ rows'  = r
    /\ tips'  = seq
    /\ shown' = {x \in shown : ~ Replaced(r, x[1])}
                \cup PayrefsOf(r, {i \in DOMAIN r : Right(r, seq, i)})

-----------------------------------------------------------------------------
(* Faulty variants of definitions below.                                   *)

(* The rollback spares the first block that was replaced.                  *)
FaultSpareFirst(r, h) ==
    {i \in DOMAIN r : r[i].col > h /\ r[i].status # "Reorganized"}

(* The inputs found for a change output are listed a second time on their  *)
(* own.                                                                    *)
FaultKeepUsedInputs(spent, paidBy) == spent

(* Payrefs are only saved for rows that the rollback of a higher block     *)
(* would save.                                                             *)
FaultSaveAbove(r, h) == PayrefsOf(r, {i \in DOMAIN r : r[i].col > h})

(* Change outputs that no inputs were found for are not shown.             *)
FaultMatchedOnly(paidBy, b, h) == <<>>

-----------------------------------------------------------------------------
(* The sender                                                              *)

(* finalize_transaction_and_broadcast up to the node's answer.  An answer  *)
(* that is neither "accepted" nor AlreadyMined ends without a row.         *)
Submit(t) ==
    /\ sender[t] = "new"
    /\ \/ /\ Acceptable(t)
          /\ Accept(t)
          /\ sender' = [sender EXCEPT ![t] = "submitted"]
       \/ /\ UNCHANGED node
          /\ sender' = [sender EXCEPT ![t] = IF OnChain(t) THEN "submitted" ELSE "done"]
    /\ UNCHANGED <<tips, rows, payrefs, shown>>

(* build_pending_displayed_transaction: no block yet, so the payment       *)
(* reference is computed from the zero hash.  `carried` is what the        *)
(* request selected itself: nothing, if it found the pending transaction   *)
(* of an earlier request with the same key.                                *)
PendingRow(t, carried) ==
    [status |-> "Pending", col |-> 0, height |-> 0, conf |-> 0,
     ins |-> carried, outs |-> Change[t], payref |-> {<<0, t>>}]

(* insert_displayed_transaction for each row of `new`, by id: INSERT ...   *)
(* ON CONFLICT(id) DO UPDATE.  The update leaves block_height as it is.    *)
insert_displayed_transaction(r, new) ==
    [i \in DOMAIN r \cup DOMAIN new |->
        IF i \notin DOMAIN new THEN r[i]
        ELSE IF i \in DOMAIN r THEN [new[i] EXCEPT !.col = r[i].col]
        ELSE new[i]]

InsertPending(t) ==
    /\ sender[t] = "submitted"
    /\ \E carried \in {Spends[t], {}} :
          Write(insert_displayed_transaction(rows, [i \in {t} |-> PendingRow(t, carried)]), tips)
    /\ sender' = [sender EXCEPT ![t] = "done"]
    /\ UNCHANGED <<node, payrefs>>

(* The process ends between the node's answer and the insert.              *)
Crash(t) ==
    /\ sender[t] = "submitted"
    /\ sender' = [sender EXCEPT ![t] = "done"]
    /\ UNCHANGED <<node, tips, rows, payrefs, shown>>

-----------------------------------------------------------------------------
(* The block processor                                                     *)

(* Known wallet outputs the block spends.                                  *)
Spent(body, known) == UNION {Spends[t] : t \in Txs \cap body} \cap known

(* calculate_status_and_confirmations for a block that is the tip.         *)
StatusAtTip == IF 0 >= Required THEN "Confirmed" ELSE "Unconfirmed"

get_displayed_transactions_from_height(r, h) == {i \in DOMAIN r : r[i].col >= h}
get_displayed_transactions_by_status(r, s)   == {i \in DOMAIN r : r[i].status = s}

(* The rows a block is compared with: those at its height or above, then   *)
(* the pending ones.                                                       *)
current_display_transactions(r, h) ==
    get_displayed_transactions_from_height(r, h)
        \cup get_displayed_transactions_by_status(r, "Pending")

(* The first row of the list that satisfies a condition: the list is       *)
(* sorted by column and time, the pending rows (column 0) come last.       *)
(* `first` decides between a row of the sender and one of the scanner with *)
(* the same column.                                                        *)
FirstMatch(r, ids, first) ==
    LET top  == {i \in ids : \A j \in ids : r[j].col <= r[i].col}
        pref == {i \in top : (i \in Sent) = (first = "sender")}
    IN CHOOSE i \in top : pref = {} \/ i \in pref

(* A row whose transaction was found in block h.  The block hash and the   *)
(* payment references stay what they were.                                 *)
MinedRow(row, h) ==
    [row EXCEPT !.status = StatusAtTip, !.height = h, !.conf = 0]

update_displayed_transaction_mined(row) == [row EXCEPT !.col = row.height]

(* DisplayedTransactionBuilder, for a block at height h.                   *)
NewRow(ins, outs, payref, h) ==
    [status |-> StatusAtTip, col |-> h, height |-> h, conf |-> 0,
     ins |-> ins, outs |-> outs, payref |-> payref]

(* Coinbases and payments from others: a row each.                         *)
ReceiptRows(received, h) == [o \in received |-> NewRow({}, {o}, {}, h)]

(* The transaction a change output belongs to, and what it cost.           *)
TxOf(c)   == CHOOSE t \in Txs : c \in Change[t]
Target(c) == Paid[TxOf(c)] + Value[c]

(* search_inputs: each change output with the inputs that add up to its    *)
(* target; with no inputs if there are none.                               *)
search_inputs(spent, changes) ==
    LET nums  == [o \in spent |-> Value[o]]
        found == solve_back_track(nums, [c \in changes |-> Target(c)])
    IN [c \in changes |-> IF Total(nums, found[c]) = Target(c) THEN found[c] ELSE {}]

(* Change outputs with the inputs found for them.                          *)
ChangeRows(paidBy, b, h) ==
    [c \in {x \in DOMAIN paidBy : paidBy[x] # {}} |->
        NewRow(paidBy[c], {c}, {<<b, TxOf(c)>>}, h)]

(* handle_unmatched_inputs_outputs: change outputs without inputs, ...     *)
UnmatchedOutputRows(paidBy, b, h) ==
    [c \in {x \in DOMAIN paidBy : paidBy[x] = {}} |->
        NewRow({}, {c}, {<<b, TxOf(c)>>}, h)]

(* ... and the inputs that are left when the ones found are removed, under *)
(* an id derived from the hash of the output that is spent.                *)
UnusedInputs(spent, paidBy) == spent \ UNION {paidBy[c] : c \in DOMAIN paidBy}

InputRows(spent, h) == [i \in spent |-> NewRow({i}, {}, {}, h)]

(* The rows to update, and the new ones in the order they are inserted:    *)
(* payments, change, change without inputs, inputs.                        *)
create_new_updated_display_transactions(r, b, h, known, first) ==
    LET cur      == current_display_transactions(r, h)
        made     == Created(bodies[b])
        spent    == Spent(bodies[b], known)
        With(o)  == {i \in cur : o \in r[i].outs}
        Using(o) == {i \in cur : o \in r[i].ins}
        newMade  == {o \in made  : With(o) = {}}
        newSpent == {o \in spent : Using(o) = {}}
        paidBy   == search_inputs(newSpent, newMade \ Receipts)
    IN [updated |-> {FirstMatch(r, With(o), first)  : o \in made \ newMade} \cup
                    {FirstMatch(r, Using(o), first) : o \in spent \ newSpent},
        new     |-> <<ReceiptRows(newMade \cap Receipts, h),
                      ChangeRows(paidBy, b, h),
                      UnmatchedOutputRows(paidBy, b, h),
                      InputRows(UnusedInputs(newSpent, paidBy), h)>>]

save_and_emit_displayed_transactions(r, b, h, known, first) ==
    LET res   == create_new_updated_display_transactions(r, b, h, known, first)
        mined == [i \in DOMAIN r |->
                    IF i \in res.updated
                      THEN update_displayed_transaction_mined(MinedRow(r[i], h)) ELSE r[i]]
        With(r1, k) == insert_displayed_transaction(r1, res.new[k])
    IN With(With(With(With(mined, 1), 2), 3), 4)

(* process_block for the next height: the scanner does not compare the     *)
(* block with the ones it has.  A block that creates an output the wallet  *)
(* already has a row of is refused, and its SQL transaction undone.        *)
ProcessBlock ==
    LET h == Len(tips) + 1
        b == chain[h]
    IN /\ h <= Tip
       /\ Created(bodies[b]) \cap Stored(tips) = {}
       /\ \E first \in {"sender", "scanner"} :
             Write(save_and_emit_displayed_transactions(rows, b, h, Stored(Append(tips, b)), first),
                   Append(tips, b))
       /\ UNCHANGED <<node, payrefs, sender>>

-----------------------------------------------------------------------------
(* The reorg handler                                                       *)

(* Heights at which the stored tips and the chain agree.                   *)
Agreeing == {h \in DOMAIN tips : h <= Tip /\ tips[h] = chain[h]}

(* The height handle_reorgs rolls back from: 0 if no tip is left.          *)
reorg_start_height == IF Agreeing = {} THEN 0 ELSE Max(Agreeing) + 1

(* save_displayed_transaction_payrefs_before_reorg: what it adds to the    *)
(* table, whatever the status of the row.                                  *)
SavedPayrefs(r, h) == PayrefsOf(r, {i \in DOMAIN r : r[i].col >= h})

save_payref_history(table, pairs) == table \cup pairs

(* Rows mark_displayed_transactions_reorganized_and_return selects.        *)
Reorganized(r, h) == {i \in DOMAIN r : r[i].col >= h /\ r[i].status # "Reorganized"}

(* rollback_from_height, the statements on the history.                    *)
HandleReorg ==
    /\ reorg_start_height <= Len(tips)
    /\ LET h   == reorg_start_height
           hit == Reorganized(rows, h)
       IN /\ payrefs' = save_payref_history(payrefs, SavedPayrefs(rows, h))
          /\ Write([i \in DOMAIN rows |->
                      IF i \in hit THEN [rows[i] EXCEPT !.status = "Reorganized"] ELSE rows[i]],
                   SubSeq(tips, 1, IF h = 0 THEN 0 ELSE h - 1))
    /\ UNCHANGED <<node, sender>>

-----------------------------------------------------------------------------
(* The monitor's writes to the history                                     *)

determine_status_from_confirmations(conf) ==
    IF conf >= Required THEN "Confirmed"
    ELSE IF conf > 0 THEN "Unconfirmed" ELSE "Pending"

get_displayed_transactions_needing_confirmation_update ==
    {i \in DOMAIN rows : rows[i].status \in {"Pending", "Unconfirmed"}}

(* update_displayed_transaction_confirmations: every pending or            *)
(* unconfirmed row, one that was never mined (height 0) included.          *)
UpdateConfirmations ==
    LET Conf(i) == Monus(Len(tips), rows[i].height)
        hit == {i \in get_displayed_transactions_needing_confirmation_update :
                   rows[i].conf # Conf(i)}
    IN /\ hit # {}
       /\ Write([i \in DOMAIN rows |->
                   IF i \in hit
                     THEN [rows[i] EXCEPT !.conf = Conf(i),
                                          !.status = determine_status_from_confirmations(Conf(i))]
                     ELSE rows[i]], tips)
       /\ UNCHANGED <<node, payrefs, sender>>

(* mark_displayed_transaction_rejected, when a broadcast of the monitor is *)
(* refused or gets no answer.                                              *)
MarkRejected(t) ==
    /\ t \in DOMAIN rows
    /\ rows[t].status # "Rejected"
    /\ Write([rows EXCEPT ![t].status = "Rejected"], tips)
    /\ UNCHANGED <<node, payrefs, sender>>

-----------------------------------------------------------------------------
(* What readers get                                                        *)

(* get_displayed_transactions_excluding_reorged                            *)
load_transactions_excluding_reorged == {i \in DOMAIN rows : rows[i].status # "Reorganized"}

(* get_displayed_transactions_by_payref                                    *)
RowsWithPayref(p) == {i \in DOMAIN rows : p \in rows[i].payref}

(* Rows that had it, by payref_history.                                    *)
get_transaction_id_by_historical_payref(p) == {x[1] : x \in {y \in payrefs : y[2] = p}}

(* api_get_displayed_transactions_by_payref: the rows that have it, else   *)
(* the row that had it.                                                    *)
LookUp(p) ==
    IF RowsWithPayref(p) # {} THEN RowsWithPayref(p)
    ELSE get_transaction_id_by_historical_payref(p) \cap DOMAIN rows

-----------------------------------------------------------------------------
(* The node: others pay the wallet and use its keys.                       *)

NodeSteps ==
    \/ \E body \in Bodies(Tip, Receipts \cup Foreign \cup mempool) : Mine(body)
    \/ \E h \in 0 .. Tip - 1 :
         \E body \in Bodies(h, Receipts \cup Foreign \cup mempool) : Reorganise(h, body)

NodeStep == NodeSteps /\ UNCHANGED <<tips, rows, payrefs, sender, shown>>

Next ==
    \/ NodeStep
    \/ ProcessBlock
    \/ HandleReorg
    \/ UpdateConfirmations
    \/ \E t \in Sent : \/ Submit(t)
                       \/ InsertPending(t)
                       \/ Crash(t)
                       \/ MarkRejected(t)

Spec == Init /\ [][Next]_vars

-----------------------------------------------------------------------------
(* Properties                                                              *)

(* A row that claims to be in a block.                                     *)
Live(i) == rows[i].height > 0 /\ rows[i].status \notin {"Reorganized", "Rejected"}

(* A row tells of a payment, or of a transaction of the wallet.            *)
Covers(r, i, item) ==
    IF item \in Receipts THEN item \in r[i].outs
    ELSE Spends[item] \cap r[i].ins # {} \/ Change[item] \cap r[i].outs # {}

(* A mined row of the history, the two heights of which agree, is in a     *)
(* block the wallet has scanned and not rolled back, and that block holds  *)
(* what the row tells of: the reorg handler finds every such row by its    *)
(* column.                                                                 *)
LiveRowsAreOnTips ==
    \A i \in DOMAIN rows : Live(i) /\ InStep(rows, i) =>
        /\ rows[i].height <= Len(tips)
        /\ \E item \in bodies[tips[rows[i].height]] : Covers(rows, i, item)

(* A payment reference a row has had while it was right about its block    *)
(* finds the row, however often the chain was reorganised since.           *)
PayrefsResolve == \A x \in shown : x[1] \in LookUp(x[2])

(* The ids under which the scanner adds a row for an item.  A payment and  *)
(* the transaction that spends it without change have the same.            *)
RowIds(item) ==
    IF Created({item}) # {} THEN Created({item}) ELSE Spends[item]

(* What block seq[Len(seq)] does to the wallet.                            *)
Told(seq) ==
    {item \in bodies[Last(seq)] : Created({item}) \cup Spent({item}, Stored(seq)) # {}}

(* Nothing drops out of the history unseen.  When a block is scanned there *)
(* is, for each payment and each transaction in it, a row at its height    *)
(* that is not marked reorganized and tells of it, or told of it when the  *)
(* block came, or has its id.  (A block of another branch may spend an     *)
(* output the wallet has never seen.)  Or its inputs were taken for those  *)
(* of a change output that the block itself spends, whose row the insert   *)
(* of the spend then overwrites.  And no other step, a rollback least of   *)
(* all, marks a row reorganized whose column is not above a block that     *)
(* stays scanned.                                                          *)
HistoryIsKept ==
    [][IF Len(tips') > Len(tips)
         THEN \A item \in Told(tips)' : \E i \in DOMAIN rows' :
                /\ rows'[i].status # "Reorganized"
                /\ rows'[i].height = Len(tips')
                /\ \/ Covers(rows', i, item)
                   \/ i \in DOMAIN rows /\ Covers(rows, i, item)
                   \/ i \in RowIds(item)
                   \/ /\ Created({item}) = {}
                      /\ i \in Created(bodies[Last(tips)])' /\ Replaced(rows', i)
         ELSE \A i \in DOMAIN rows :
                rows[i].status # "Reorganized" /\ rows[i].col <= Len(tips') /\ tips' # <<>> =>
                    rows'[i].status # "Reorganized"]_vars

(* No spend is told twice: a row that a block gives inputs shares none of  *)
(* them with another row it gives inputs, nor with a row the block was     *)
(* compared with.                                                          *)
SpentOnce ==
    [][LET GivenInputs(i) == i \in DOMAIN rows => rows[i].ins # rows'[i].ins
       IN Len(tips') > Len(tips) =>
            \A i, j \in DOMAIN rows' :
                /\ i # j
                /\ GivenInputs(i)
                /\ GivenInputs(j) \/ j \in current_display_transactions(rows, Len(tips'))
                => rows'[i].ins \cap rows'[j].ins = {}]_vars

=============================================================================
