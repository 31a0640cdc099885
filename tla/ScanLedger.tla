----------------------------- MODULE ScanLedger -----------------------------
(***************************************************************************)
(* The block scanner of one account: what it writes to the tables outputs, *)
(* inputs, balance_changes and scanned_tip_blocks, how it detects a reorg  *)
(* of the base node's chain and rolls back, and what balance results.      *)
(*                                                                         *)
(* The base node's chain changes under the scanner: every request to the   *)
(* node is a step of its own and sees the chain of that moment.  Every SQL *)
(* transaction is one step.  A row id is <<coin, n>> for the n-th row of   *)
(* an output (its hash is `coin`), <<coin, n, m>> for the m-th input row   *)
(* of that row; balance changes are numbered per row.  Locks (FundLock),   *)
(* displayed transactions, wallet events and webhooks are left out.        *)
(***************************************************************************)
EXTENDS Naturals, Sequences, FiniteSets, FiniteSetsExt, SequencesExt

CONSTANTS
    Blocks,        \* blocks of every branch; a block stands for its hash
    Height,        \* height of each block
    Outs,          \* wallet outputs created in each block
    Ins,           \* wallet outputs spent in each block
    Value,         \* value of each wallet output
    Chains,        \* chains the base node may have: element i is at height i - 1
    Birthday,      \* height get_height_at_time answers for the account
    Confirmations, \* required_confirmations
    CheckInterval, \* reorg_check_interval
    RescanHeights, \* heights given to the re-scan command
    NoBlock,       \* NULL
    MaxReorgs,     \* bound: reorganisations of the node's chain
    MaxEvents,     \* bound: failed requests, killed processes, re-scans and polls
    MaxBatch,      \* bound: blocks in one answer of the node
    MaxQueue       \* bound: answers fetched and not yet processed

ASSUME BlockConstants ==
    /\ Height \in [Blocks -> Nat]
    /\ Outs \in [Blocks -> SUBSET DOMAIN Value] /\ Ins \in [Blocks -> SUBSET DOMAIN Value]
    /\ Value \in [DOMAIN Value -> Nat]
    /\ NoBlock \notin Blocks
ASSUME ChainConstants ==
    /\ Chains \subseteq Seq(Blocks)
    /\ \A c \in Chains : c # <<>> /\ \A i \in DOMAIN c : Height[c[i]] + 1 = i
    /\ Birthday \in Nat /\ RescanHeights \subseteq Nat /\ MaxBatch \in Nat

(* A block names its predecessor, so chains that meet share their past.    *)
ASSUME SharedHistory ==
    \A c, d \in Chains : \A i \in DOMAIN c \cap DOMAIN d :
        c[i] = d[i] => \A j \in 1 .. i : c[j] = d[j]

(* A block has finitely many outputs, and on a chain an output is spent    *)
(* once at most and not below the block it is mined in: rules of the base  *)
(* node.                                                                   *)
ASSUME OutputsAreFinite == \A b \in Blocks : IsFiniteSet(Outs[b])
ASSUME SpentLast ==
    \A c \in Chains : \A i, j \in DOMAIN c :
        i < j => Ins[c[i]] \cap (Outs[c[j]] \cup Ins[c[j]]) = {}

VARIABLES
    chain,     \* the base node's best chain
    db,        \* the tables: [outputs, inputs, changes, tips]
    pc,        \* where the coordinator is
    why,       \* who asked for the reorg check: "prepare", "batch" or "poll"
    unchecked, \* scanned_tip_blocks still to be compared with the chain
    forked,    \* is_reorg_detected
    next,      \* next_block_to_scan
    since,     \* blocks_since_reorg_check
    cursor,    \* the downloader's request: [header, offset], or NoBlock when it is done
    queue,     \* batches on their way to the coordinator
    raced,     \* history: the node has reorganised in the middle of a scan cycle
    polled,    \* history: a Continuous scan has polled
    behind,    \* history: a poll has stepped back below a block on record
    torn,      \* history: the rollback of a re-scan was cut short
    reorgs, events  \* counters, for the bounds

stream == <<cursor, queue>>
counts == <<raced, polled, behind, torn, reorgs, events>>
vars   == <<chain, db, pc, why, unchecked, forked, next, since, stream, counts>>

Coins == DOMAIN Value

Empty == [outputs |-> {}, inputs |-> {}, changes |-> {}, tips |-> {}]

Init ==
    /\ chain     \in {c \in Chains : \A d \in Chains : Len(c) <= Len(d)}
    /\ db        = Empty
    /\ pc        = "idle"
    /\ why       = "prepare"
    /\ unchecked = {}
    /\ forked    = FALSE
    /\ next      = 0
    /\ since     = 0
    /\ cursor    = NoBlock
    /\ queue     = <<>>
    /\ raced     = FALSE
    /\ polled    = FALSE
    /\ behind    = FALSE
    /\ torn      = FALSE
    /\ reorgs    = 0
    /\ events    = 0

Tip(c)        == Len(c) - 1
At(c, h)      == c[h + 1]
OnChain(c, b) == Height[b] <= Tip(c) /\ At(c, Height[b]) = b

(* What may happen MaxEvents times.                                        *)
Event == events < MaxEvents /\ events' = events + 1

-----------------------------------------------------------------------------
(* Faulty variants of definitions below, one per property: bugs of a kind  *)
(* that could be made in this code.  The specification does not use them.  *)

(* The rollback starts one block too late.                                 *)
FaultKeepFirst(d, h) == [d EXCEPT !.tips = {b \in @ : Height[b] < h + 1}]

(* The rows are soft deleted without a reversal of their credit.           *)
FaultDeleteOutputsOnly(d, h) ==
    [d EXCEPT !.outputs = {[r EXCEPT !.deleted = @ \/ r.height >= h] : r \in @}]

(* The inputs of the rolled back blocks are forgotten.                     *)
FaultKeepInputs(d, h) == d

(* "is_reversed = TRUE" instead of FALSE in the look-up.                   *)
FaultReversedOnly(d, id) ==
    LET live == {x \in d.changes : x.row = id /\ x.of = 0 /\ x.reversed} IN
    IF live = {} THEN 99 ELSE Max({x.n : x \in live}) + 1

(* The download starts one block above next_block_to_scan.                 *)
FaultOpenAbove ==
    /\ pc = "open"
    /\ cursor' = IF next + 1 > Tip(chain) THEN NoBlock
                                          ELSE [header |-> At(chain, next + 1), offset |-> 0]
    /\ pc' = "stream"
    /\ UNCHANGED <<chain, db, why, unchecked, forked, next, since, queue, counts>>

-----------------------------------------------------------------------------
(* Statements on the tables.  `d` is a value of db.                        *)

Active(rows)  == {r \in rows : ~ r.deleted}
OutputId(r)   == <<r.coin, r.n>>
InputId(i)    == <<i.output[1], i.output[2], i.n>>

(* Rows of one kind are numbered from 0 on.                                *)
NextNumber(rows) == IF rows = {} THEN 0 ELSE Max({r.n : r \in rows}) + 1

(* The next balance change of a row.                                       *)
Change(d, id, credit, debit, of) ==
    [row |-> id, n |-> NextNumber({x \in d.changes : x.row = id}),
     credit |-> credit, debit |-> debit, of |-> of, reversed |-> FALSE]

(* `of` is 0 for an original change, else 1 + the number of the change     *)
(* that is reversed; NoOriginal if none was found.                         *)
NoOriginal    == 99
IsReversal(x) == x.of # 0

(* insert_output and its credit, for every wallet output of the block.     *)
process_outputs(d, b) ==
    LET new == {[coin |-> c, n |-> NextNumber({r \in d.outputs : r.coin = c}),
                 height |-> Height[b], block |-> b, status |-> "UNSPENT",
                 confirmed |-> NoBlock, deleted |-> FALSE] : c \in Outs[b]} IN
    [d EXCEPT !.outputs = @ \cup new,
              !.changes = @ \cup {Change(d, OutputId(r), Value[r.coin], 0, 0) : r \in new}]

(* The UNIQUE index on the hashes of active outputs refuses a second row.  *)
insert_output_fails(d, b) == \E r \in Active(d.outputs) : r.coin \in Outs[b]

(* insert_input ("INSERT OR IGNORE", then the id of the active row), its   *)
(* debit and status SPENT, for every active output the block spends.       *)
process_inputs(d, b) ==
    LET spent  == {r \in Active(d.outputs) : r.coin \in Ins[b]}
        InputsOf(r) == {i \in d.inputs : i.output = OutputId(r)}
        new    == {[output |-> OutputId(r), n |-> NextNumber(InputsOf(r)),
                    height |-> Height[b], block |-> b, deleted |-> FALSE] :
                       r \in {s \in spent : Active(InputsOf(s)) = {}}}
        inputs == d.inputs \cup new
        debits == {Change(d, InputId(i), 0, Value[i.output[1]], 0) :
                       i \in {j \in Active(inputs) : \E r \in spent : j.output = OutputId(r)}}
    IN [d EXCEPT !.inputs  = inputs,
                 !.changes = @ \cup debits,
                 !.outputs = {IF r \in spent THEN [r EXCEPT !.status = "SPENT"] ELSE r : r \in @}]

(* INSERT OR IGNORE INTO scanned_tip_blocks.                               *)
record_scanned_block(d, b) == [d EXCEPT !.tips = @ \cup {b}]

(* Active outputs deep enough become confirmed; the UPDATE goes by output  *)
(* hash, so it also hits deleted rows of that output.                      *)
process_confirmations(d, b) ==
    LET min  == IF Height[b] >= Confirmations THEN Height[b] - Confirmations ELSE 0
        ripe == {r.coin : r \in {s \in Active(d.outputs) :
                                    s.height <= min /\ s.confirmed = NoBlock}}
    IN [d EXCEPT !.outputs = {IF r.coin \in ripe THEN [r EXCEPT !.confirmed = b] ELSE r : r \in @}]

process_block(d, b) ==
    process_confirmations(
        record_scanned_block(process_inputs(process_outputs(d, b), b), b), b)

(* Newest change of a row that is neither a reversal nor reversed.         *)
get_balance_change_id(d, id) ==
    LET live == {x \in d.changes : x.row = id /\ ~ IsReversal(x) /\ ~ x.reversed} IN
    IF live = {} THEN NoOriginal ELSE Max({x.n : x \in live}) + 1

(* Reverses the newest change of each row of `ids`: an opposite change     *)
(* that names it (a debit if what was credited is taken back), and the     *)
(* mark is_reversed.                                                       *)
ReverseChanges(d, ids, credited) ==
    LET Undo(id) == Change(d, id, IF credited THEN 0 ELSE Value[id[1]],
                                  IF credited THEN Value[id[1]] ELSE 0,
                                  get_balance_change_id(d, id)) IN
    [d EXCEPT !.changes =
        {IF x.row \in ids /\ x.n + 1 = get_balance_change_id(d, x.row)
           THEN [x EXCEPT !.reversed = TRUE] ELSE x : x \in @}
        \cup {Undo(id) : id \in ids}]

soft_delete_inputs_from_height(d, h) ==
    LET hit == {i \in Active(d.inputs) : i.height >= h}
        e   == ReverseChanges(d, {InputId(i) : i \in hit}, FALSE)
    IN [e EXCEPT !.inputs = {IF i \in hit THEN [i EXCEPT !.deleted = TRUE] ELSE i : i \in @}]

soft_delete_outputs_from_height(d, h) ==
    LET hit == {r \in Active(d.outputs) : r.height >= h}
        e   == ReverseChanges(d, {OutputId(r) : r \in hit}, TRUE)
    IN [e EXCEPT !.outputs = {IF r \in hit THEN [r EXCEPT !.deleted = TRUE] ELSE r : r \in @}]

delete_scanned_tip_blocks_from_height(d, h) ==
    [d EXCEPT !.tips = {b \in @ : Height[b] < h}]

rollback_from_height(d, h) ==
    delete_scanned_tip_blocks_from_height(
        soft_delete_outputs_from_height(soft_delete_inputs_from_height(d, h), h), h)

(* The same without a SQL transaction, stopped after one of its statements.*)
(* The rows are taken one by one; the change of a row is marked first, then*)
(* its reversal is inserted.                                               *)
ReversalsCutShort(d, ids, credited) ==
    UNION {LET e == ReverseChanges(d, done, credited) IN
           {e} \cup {[e EXCEPT !.changes =
                         {IF x.row = id /\ x.n + 1 = get_balance_change_id(e, id)
                            THEN [x EXCEPT !.reversed = TRUE] ELSE x : x \in @}] : id \in ids \ done}
           : done \in SUBSET ids}

(* All rows of a kind are deleted at once, inputs before outputs, and the  *)
(* blocks on record last.                                                  *)
RollbackCutShort(d, h) ==
    LET e == soft_delete_inputs_from_height(d, h) IN
    ReversalsCutShort(d, {InputId(i) : i \in {j \in Active(d.inputs) : j.height >= h}}, FALSE)
    \cup ReversalsCutShort(e, {OutputId(r) : r \in {q \in Active(e.outputs) : q.height >= h}}, TRUE)
    \cup {soft_delete_outputs_from_height(e, h)}

-----------------------------------------------------------------------------
(* Balances.                                                               *)

ValueOf(rows) == MapThenSumSet(LAMBDA r : Value[r.coin], rows)
Monus(a, b)   == IF a >= b THEN a - b ELSE 0

TotalCredits == MapThenSumSet(LAMBDA x : x.credit, db.changes)
TotalDebits  == MapThenSumSet(LAMBDA x : x.debit, db.changes)

(* get_balance: the total comes from balance_changes, the unconfirmed part *)
(* from outputs (whatever their status); nothing is locked here.           *)
get_balance ==
    LET total       == Monus(TotalCredits, TotalDebits)
        unconfirmed == ValueOf({r \in Active(db.outputs) : r.confirmed = NoBlock})
    IN [total |-> total, unconfirmed |-> unconfirmed, available |-> Monus(total, unconfirmed)]

-----------------------------------------------------------------------------
(* handle_reorgs                                                           *)

BeginCheck(reason) ==
    /\ pc'        = "check"
    /\ why'       = reason
    /\ unchecked' = db.tips
    /\ forked'    = FALSE

(* One header request: the highest stored tip not yet compared.            *)
CheckTip ==
    /\ pc = "check"
    /\ unchecked # {}
    /\ \E b \in unchecked :
          /\ \A u \in unchecked : Height[u] <= Height[b]
          /\ IF OnChain(chain, b)
               THEN /\ pc' = "settle"
                    /\ next' = IF forked \/ why = "prepare" THEN Height[b] + 1 ELSE next
                    /\ UNCHANGED <<unchecked, forked>>
               ELSE /\ forked' = TRUE
                    /\ unchecked' = unchecked \ {b}
                    /\ IF unchecked = {b} THEN pc' = "settle" /\ next' = 0
                                          ELSE UNCHANGED <<pc, next>>
    /\ UNCHANGED <<chain, db, why, since, stream, counts>>

(* Opens a new stream of blocks from height h.                             *)
OpenStream == pc' = "open" /\ cursor' = NoBlock /\ queue' = <<>>

(* The end of handle_reorgs: the rollback transaction if a fork was found. *)
(* prepare_target then starts at the birthday if nothing is left; after a  *)
(* check between two batches the stream simply goes on.                    *)
Settle ==
    /\ pc = "settle"
    /\ db'   = IF forked THEN rollback_from_height(db, next) ELSE db
    /\ next' = IF why = "prepare" /\ next = 0 THEN Birthday ELSE next
    /\ IF why = "batch" THEN pc' = "stream" /\ UNCHANGED stream ELSE OpenStream
    /\ since' = IF why = "prepare" THEN 0 ELSE since
    /\ unchecked' = {} /\ forked' = FALSE
    /\ UNCHANGED <<chain, why, counts>>

-----------------------------------------------------------------------------
(* ScanCoordinator                                                         *)

(* prepare_target: with no stored tip the scan starts at the birthday.     *)
StartCycle ==
    /\ pc = "idle"
    /\ IF db.tips = {}
         THEN /\ OpenStream
              /\ next' = Birthday
              /\ since' = 0
              /\ UNCHANGED <<why, unchecked, forked>>
         ELSE BeginCheck("prepare") /\ UNCHANGED <<next, since, stream>>
    /\ UNCHANGED <<chain, db, counts>>

(* The downloader asks for the tip, then for the header at the first       *)
(* height.  Above the tip the stream is empty.                             *)
OpenDownload ==
    /\ pc = "open"
    /\ cursor' = IF next > Tip(chain) THEN NoBlock
                                      ELSE [header |-> At(chain, next), offset |-> 0]
    /\ pc' = "stream"
    /\ UNCHANGED <<chain, db, why, unchecked, forked, next, since, queue, counts>>

(* sync_utxos_by_block: blocks from the header on, in pages; the next      *)
(* request names the same header and a later page, or a later header, or   *)
(* there is none (tip or end height reached).                              *)
FetchBatch ==
    /\ pc \in {"stream", "check", "settle"}
    /\ cursor # NoBlock
    /\ Len(queue) < MaxQueue
    /\ OnChain(chain, cursor.header)
    /\ LET from == Height[cursor.header] + cursor.offset IN
       IF from > Tip(chain)
         THEN cursor' = NoBlock /\ UNCHANGED queue
         ELSE \E to \in from .. (from + MaxBatch - 1) :
                /\ to <= Tip(chain)
                /\ queue'  = Append(queue, SubSeq(chain, from + 1, to + 1))
                /\ cursor' \in {NoBlock, [cursor EXCEPT !.offset = @ + (to + 1 - from)]} \cup
                               (IF to < Tip(chain)
                                  THEN {[header |-> At(chain, to + 1), offset |-> 0]} ELSE {})
    /\ UNCHANGED <<chain, db, pc, why, unchecked, forked, next, since, counts>>

(* The node does not know the header (any more): the stream ends with an   *)
(* error.  The download task sends it on the result channel itself, while  *)
(* batches reach that channel through the processing task, so the error    *)
(* may overtake batches; they are dropped with the stream.                 *)
FetchRefused ==
    /\ pc = "stream"
    /\ cursor # NoBlock
    /\ ~ OnChain(chain, cursor.header)
    /\ pc' = "idle"
    /\ cursor' = NoBlock /\ queue' = <<>>
    /\ UNCHANGED <<chain, db, why, unchecked, forked, next, since, counts>>

(* One SQL transaction for the blocks of the batch from height `from` on.  *)
process_blocks(d, batch, from) ==
    LET Process(s, b) ==
            IF Height[b] < from THEN s
            ELSE [ok |-> s.ok /\ ~ insert_output_fails(s.d, b), d |-> process_block(s.d, b)]
        done[k \in 0 .. Len(batch)] ==
            IF k = 0 THEN [ok |-> TRUE, d |-> d] ELSE Process(done[k - 1], batch[k])
    IN done[Len(batch)]

(* A batch arrives.  A refused insert undoes the transaction and ends the  *)
(* daemon.  After enough blocks a reorg check follows before the next      *)
(* batch is taken from the stream.                                         *)
ProcessBatch ==
    /\ pc = "stream"
    /\ queue # <<>>
    /\ LET batch == Head(queue)
           res   == process_blocks(db, batch, next)
           seen  == since + Len(batch)
       IN IF ~ res.ok
            THEN /\ pc' = "stopped"
                 /\ cursor' = NoBlock /\ queue' = <<>>
                 /\ UNCHANGED <<db, next, since, why, unchecked, forked>>
            ELSE /\ db'    = res.d
                 /\ next'  = Height[Last(batch)] + 1
                 /\ queue' = Tail(queue)
                 /\ UNCHANGED cursor
                 /\ IF seen >= CheckInterval
                      THEN /\ since' = 0
                           /\ pc' = "check" /\ why' = "batch"
                           /\ unchecked' = res.d.tips /\ forked' = FALSE
                      ELSE /\ since' = seen
                           /\ UNCHANGED <<pc, why, unchecked, forked>>
    /\ UNCHANGED <<chain, counts>>

(* Steps back one block, sleeps and looks for a reorg before it scans      *)
(* again.                                                                  *)
wait_for_next_poll_cycle ==
    /\ next'  = Monus(next, 1)
    /\ polled' = TRUE
    /\ behind' = (behind \/ \E b \in db.tips : Height[b] > Monus(next, 1))
    /\ IF db.tips = {} THEN pc' = "open" /\ UNCHANGED <<why, unchecked, forked>>
                       ELSE BeginCheck("poll")

(* The empty batch that ends the stream.  It takes the same short cut as   *)
(* the error of FetchRefused, so batches may still be on their way and are *)
(* dropped.  A cycle returns; the Continuous mode polls, until it is       *)
(* cancelled.                                                              *)
EndStream ==
    /\ pc = "stream"
    /\ cursor = NoBlock
    /\ queue' = <<>>
    /\ \/ pc' = "idle" /\ UNCHANGED <<why, unchecked, forked, next, polled, behind, events>>
       \/ Event /\ wait_for_next_poll_cycle
    /\ UNCHANGED <<chain, db, since, cursor, raced, torn, reorgs>>

(* A request fails for good: for the tip, the stream closes without an end *)
(* marker and is opened again; in the download the cycle ends and the      *)
(* daemon tries again; in the reorg check the error is fatal.  Or the      *)
(* process is killed.                                                      *)
Fail ==
    /\ pc \in {"open", "stream", "check"}
    /\ Event
    /\ \/ pc' = "stopped"
       \/ pc \in {"open", "stream"} /\ pc' = "idle"
       \/ pc = "open" /\ pc' = "open"
    /\ cursor' = NoBlock /\ queue' = <<>>
    /\ unchecked' = {} /\ forked' = FALSE
    /\ UNCHANGED <<chain, db, why, next, since, raced, polled, behind, torn, reorgs>>

Restart ==
    /\ pc = "stopped"
    /\ pc' = "idle"
    /\ UNCHANGED <<chain, db, why, unchecked, forked, next, since, stream, counts>>

(* The re-scan command, used while no scan is running.  Its rollback is    *)
(* not wrapped in a SQL transaction: when a statement fails, or the process*)
(* is killed, what was written before stays.                               *)
Rescan(h) ==
    /\ pc \in {"idle", "stopped"}
    /\ \/ /\ Event
          /\ db' = rollback_from_height(db, h)
          /\ UNCHANGED torn
       \/ /\ events + 2 <= MaxEvents /\ events' = events + 2 \* the re-scan and its failure
          /\ db' \in RollbackCutShort(db, h) \ {db}
          /\ torn' = TRUE
    /\ pc' = "idle"
    /\ UNCHANGED <<chain, why, unchecked, forked, next, since, stream, raced, polled, behind,
                   reorgs>>

-----------------------------------------------------------------------------
(* The base node.                                                          *)

NodeExtends ==
    /\ chain' \in {c \in Chains : Len(c) > Len(chain) /\ SubSeq(c, 1, Len(chain)) = chain}
    /\ UNCHANGED <<db, pc, why, unchecked, forked, next, since, stream, counts>>

NodeReorgs ==
    /\ reorgs < MaxReorgs
    /\ reorgs' = reorgs + 1
    /\ raced' = (raced \/ pc \notin {"idle", "stopped"})
    /\ chain' \in {c \in Chains : ~ IsPrefix(chain, c) /\ ~ IsPrefix(c, chain)}
    /\ UNCHANGED <<db, pc, why, unchecked, forked, next, since, stream, polled, behind,
                   torn, events>>

ScannerStep ==
    \/ StartCycle \/ CheckTip \/ Settle \/ OpenDownload \/ FetchBatch \/ FetchRefused
    \/ ProcessBatch \/ EndStream

Next ==
    \/ ScannerStep \/ Fail \/ Restart
    \/ \E h \in RescanHeights : Rescan(h)
    \/ NodeExtends \/ NodeReorgs

Spec == Init /\ [][Next]_vars

(* The daemon, unless it has stopped, keeps scanning, and a request that   *)
(* does not fail is answered.  This is weak fairness of ScannerStep, which *)
(* is enabled in every state but "stopped".                                *)
FairSpec ==
    Spec /\ (<>[](pc # "stopped") => []<><<ScannerStep>>_vars)

-----------------------------------------------------------------------------
(* Properties that hold whenever the node reorganises.  Those of the       *)
(* ledger last until the rollback of a re-scan is cut short (torn): half of*)
(* it leaves reversals of rows that are still active, or rows deleted in   *)
(* blocks that stay on record, and the next scan repairs neither.          *)

Live(id) == {x \in db.changes : x.row = id /\ ~ IsReversal(x) /\ ~ x.reversed}

(* The credit side of the ledger follows the outputs table through every   *)
(* rollback, failure, poll and completed re-scan: an active output has     *)
(* exactly one credit that counts, a soft deleted one has none.            *)
CreditsMatchRows ==
    ~ torn =>
      \A r \in db.outputs :
        Cardinality(Live(OutputId(r))) = IF r.deleted THEN 0 ELSE 1

(* A reversal undoes exactly one earlier change of its row, of the same    *)
(* amount, and a change is marked as reversed iff one reversal undoes it.  *)
ReversalsArePaired ==
    ~ torn =>
      \A x \in db.changes :
        /\ IsReversal(x) =>
              \E y \in db.changes : /\ y.row = x.row /\ y.n + 1 = x.of
                                    /\ y.n < x.n /\ y.reversed
                                    /\ y.credit = x.debit /\ y.debit = x.credit
        /\ LET undoing == {y \in db.changes : y.row = x.row /\ y.of = x.n + 1} IN
           Cardinality(undoing) = IF x.reversed THEN 1 ELSE 0

(* An active input spends an active output that was mined no later and is  *)
(* marked SPENT: the two soft deletes of a rollback never split the pair,  *)
(* wherever a re-scan is cut short, since inputs are deleted first.        *)
(* This lasts until a poll follows a stream that delivered nothing: the    *)
(* scan then steps back below blocks it has on record, and a block of      *)
(* another branch can spend an output recorded above it.                   *)
InputsSpendActiveRows ==
    ~ behind =>
      \A i \in Active(db.inputs) :
        \E r \in Active(db.outputs) :
            OutputId(r) = i.output /\ r.status = "SPENT" /\ r.height <= i.height

-----------------------------------------------------------------------------
(* Properties that hold as long as the node reorganises only between scan  *)
(* cycles, and no Continuous scan has polled.  A reorg in the middle of a  *)
(* cycle can leave blocks of the old branch below the new ones, or blocks  *)
(* that are never scanned; a poll processes the last block a second time,  *)
(* debits included.                                                        *)

Quiet == ~ raced /\ ~ polled

Mined(bs) == UNION {Outs[b] : b \in bs}
Spent(bs) == UNION {Ins[b] : b \in bs}

(* The balance is that of the scanned blocks: after any sequence of scans, *)
(* failures, reorgs and re-scans that ran to their end, what was created in*)
(* the blocks on record and not spent in them.                             *)
BalanceMatchesTips ==
    Quiet /\ ~ torn =>
        LET coins == Mined(db.tips) \ Spent(db.tips) IN
        get_balance.total = MapThenSumSet(LAMBDA c : Value[c], coins)

(* The scanned blocks have no gap, so no block below the last one has been *)
(* passed over, nor by a re-scan that is cut short, which deletes blocks   *)
(* last.  scan/mod.rs: "Scanning resumes from the fork point".             *)
TipsAreContiguous ==
    Quiet =>
      \A b \in db.tips : Height[b] > Birthday =>
        \E u \in db.tips : Height[u] + 1 = Height[b]

Synced == db.tips = {At(chain, h) : h \in Birthday .. Tip(chain)}

(* The end marker has overtaken a batch, which is lost for this cycle.     *)
Overtaken == EndStream /\ queue # <<>>

(* The scanner catches up with the node for good once the chain is at rest,*)
(* unless an error has stopped the daemon or the end marker overtakes a    *)
(* batch again and again.                                                  *)
EventuallySynced ==
    <>[][~ Overtaken]_vars => <>[](Synced \/ pc = "stopped" \/ ~ Quiet)

=============================================================================
