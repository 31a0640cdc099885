# Minotari CLI wallet: TLA+ models

Models of the parts of the wallet (`src/minotari`, `src/minotari-scanning`) in
which concurrency, a changing chain and failures meet: how outputs are reserved
for payments and burns, how the scanner keeps outputs, ledger, balance and history
in step with the base node's chain, how transactions are followed to their
confirmation, how webhooks are delivered and how all of these share the database.

| file | contents |
|---|---|
| `FundLock.tla` | reservation of outputs: `FundLocker`, `TransactionSender`, the unlocker task, and the scanner as far as it writes the same rows |
| `FundLockProofs.tla` | its theorems |
| `ScanLedger.tla` | the scanner of one account under reorgs: download, reorg check, rollback, ledger, balance |
| `ScanLedgerProofs.tla` | its theorems |
| `ScanStream.tla` | a scan of several accounts in every mode: coordinator loop, download and processing task, channels, retries |
| `ScanStreamProofs.tla` | its theorems |
| `InputMatching.tla` | the search that pairs spent inputs with change outputs, as operators |
| `DisplayedHistory.tla` | the displayed transactions and payment references of an account; uses `InputMatching` and `BaseNode` |
| `DisplayedHistoryProofs.tla` | theorems about both |
| `TxMonitor.tla` | signed transactions between sender, monitor and reorg handler; uses `BaseNode` |
| `TxMonitorProofs.tla` | its theorems |
| `BurnProof.tla` | burn calls, proof rows, proof files and the worker; uses `BaseNode` |
| `BurnProofProofs.tla` | its theorems |
| `BaseNode.tla` | the base node as these three see it (external): chain, blocks, pool |
| `WebhookDelivery.tla` | what the webhook queue promises of an event |
| `WebhookQueue.tla` | the queue table and the worker; implements `WebhookDelivery` |
| `WebhookQueueProofs.tla` | its theorems |
| `ConnectionPool.tla` | the pool of database connections and everyone who takes from it |
| `ConnectionPoolProofs.tla` | its theorems |
| `MC*.tla`, `*.cfg` | instances for TLC; a cfg is named after the module it instantiates |
| `PROJECT.json` | components, runs, code map, findings, hazards, theorems |

Run a model with `tlc -config FundLock_retry.cfg MCFundLock`, the proofs of a module with
`tlapm FundLockProofs.tla`, and so for each `...Proofs.tla`. Those of
`ScanLedgerProofs`, `ScanStreamProofs` and `DisplayedHistoryProofs` take several minutes.

Operators named `Fault...` are broken variants of the definition that follows them.
Nothing uses them; PROJECT.json says which property notices each when it takes the
place of the original.

## 1. Inventory

The wallet is one process (daemon or CLI command) around one SQLite file. The
tasks share nothing but that file, a pool of five connections and a few
channels, so the database statement, or the SQL transaction, is the unit of
atomicity everywhere.

**Fund locking** (`transactions/fund_locker.rs`, `input_selector.rs`,
`db/outputs.rs`, `db/pending_transactions.rs`). State: `outputs.status`
(UNSPENT, LOCKED, SPENT) and `locked_by_request_id`; a `pending_transactions`
row with an idempotency key, a status and an expiry. Operation: `lock` looks the
key up, selects inputs, then in one SQL transaction inserts the row and locks the
outputs. Selection and locking are apart, and `lock_output` says nothing when it
matches no row. Correct if no lock is orphaned, taken over or kept for ever, and a
retry with the same key gets the same outputs.

**Transaction sender** (`transactions/manager.rs`, `db/completed_transactions.rs`).
State: the pending row, the `completed_transactions` row, the signed transaction
in memory. Operations: `start_new_transaction` (validate, find or create, lock
output by output, build), `finalize_transaction_and_broadcast` (expiry test, mark,
record, submit, interpret the answer) and `fail_and_unlock_pending_transaction`.
No statement is in a SQL transaction. Correct if a payment is made at most once
per key and a failure releases what it held.

**Unlocker** (`tasks/unlocker.rs`). Every 60 seconds, reads the list of expired
rows and treats each in its own SQL transaction. The list is stale by then.

**HTTP block scanner** (`minotari-scanning`, `scanning/http/scanner.rs`). State: the
download position (header hash, page), two channels, a download and a processing
task per stream. Every request sees the node's chain of that moment. Batches go
through the processing task, the end marker and errors of the download do not.

**Scan coordinator** (`scan/coordinator.rs`, `scan_db_handler.rs`,
`scanner_state_manager.rs`). State per account: `next_block_to_scan`; per loop:
`blocks_since_reorg_check`. Operations: prepare (reorg check, start height), loop
over a stream, one SQL transaction per batch, reorg check every N blocks, poll in
the Continuous mode. Correct if no block is passed over or applied twice.

**Block processor** (`scan/block_processor.rs`, `db/inputs.rs`, `db/outputs.rs`).
Outputs with a credit, inputs with a debit, the scanned block, confirmations.

**Reorg handling** (`scan/reorg.rs`, `db/scanned_tip_blocks.rs`). Compares the
stored tips, newest first, with the node's headers; rolls back from the fork: soft
deletes inputs and outputs, reverses their balance changes, cancels pending
transactions, resets completed ones.

**Balance ledger** (`db/balance_changes.rs`, `db/accounts.rs`). An append-only list
of credits, debits and reversals; `get_balance` mixes it with the outputs table.
Correct if the balance is that of the blocks on record.

**Daemon and commands** (`daemon.rs`, `main.rs`). Which scan errors are retried
(intermittent ones) and which end the process; restart; the re-scan command, which
calls the rollback directly.

**Transaction monitor** (`transactions/monitor.rs`). State: completed_transactions
(completed, broadcast, mined unconfirmed, confirmed, rejected) and a flag. It works
on a snapshot between network requests. The coordinator's branch that calls it is
never taken (`scan/coordinator.rs:294`).

**Webhooks** (`webhooks/*`, `db/webhooks.rs`). A queue table, a worker that sends
up to 10 due items every 30 seconds and records the outcome afterwards: at least
once, with ten attempts and back-off.

**Burn proofs** (`transactions/burn/mod.rs`, `api/accounts/burn.rs`,
`tasks/burn_proof_worker.rs`, `db/burn_proofs.rs`). A partial proof is stored before
the burn is submitted; the worker fetches a Merkle proof, writes a file, marks the row.
Correct if no burn is left without a way to claim it, and a key burns once.

**Displayed transactions and payment references**
(`transactions/displayed_transaction_processor/*`, `db/displayed_transactions.rs`,
`db/payref_history.rs`). Entries built per block from the balance changes, matched
with pending ones, marked on a reorg. Correct if what is scanned is shown, once, and
what was rolled back is not; and if a payment reference that was given out keeps
leading to its transaction.

**Connection pool and REST API** (`db/mod.rs`, `api/*`). Five connections shared by
the endpoints, the tasks and the library. Several callers hold one while they ask for
the next, up to four at a time, or keep one during a request to the node.

Command line, key handling, configuration and logging keep no state another
component depends on, and the gRPC scanner is not part of the build; PROJECT.json
lists them with the reason they have no module.

What is hard here: every actor works with rows it read some statements earlier;
clean-ups consist of several autocommitted statements; the chain moves between the
reorg check and the download that relies on it, and between two pages; a stream
survives a rollback made while it was open; a submission may time out and be mined
later; two tables that feed one balance follow different rules. PROJECT.json lists
these hazards one by one with the properties that watch them.

## 2. FundLock

State. `status`, `lockedBy`, `deleted` are columns of outputs; `pending` and
`overdue` the status and elapsed expiry of pending_transactions, a row being named by
the call that inserted it; `completed` the sender's completed_transactions row.
`pc`, `req`, `sel`, `todo` are the local state of a call, `expiring` the unlocker's
list. `inflight`, `mempool`, `mined` are the base node as the wallet sees it.
`unlocker` says whether the unlocker's task is alive. `lost` is a history variable: the
requests for which a call died, or whose unlocking statement failed.

Actions follow the code statement by statement:

| code | actions |
|---|---|
| `FundLocker::lock` | `FindPending`, `LockFetchExisting`, `SelectInputs`, `LockCommit`; `ClientSubmit` for what the caller does with the result |
| `start_new_transaction` | `validate_transaction_creation_request`, `FindPending`, `SelectInputs`, `InsertPending`, `LockNext` (once per output), `BuildUnsigned` |
| `finalize_transaction_and_broadcast` | `check_if_transaction_expired`, `MarkCompleted`, `create_completed_transaction`, `submit_transaction`, `SubmissionAccepted`, `SubmissionAlreadyMined`, `SubmissionRejected`, `SubmissionError` |
| `fail_and_unlock_pending_transaction` | `FailExpire`, `FailUnlock` (each may be lost to a SQL error that is only logged; the call ends as a failure all the same) |
| `TransactionUnlocker` | `UnlockerFind`, `UnlockerExpire`, `UnlockerAbort`; `UnlockerEnds` (a tick that is refused a connection returns from the task, `unlocker.rs:45`), `DaemonStarts` (the only thing that starts it again) |
| scanner | `process_inputs`, `rollback_from_height` |
| a process that dies, an early return with `?` | `Abort` |

Abstractions: an amount is the set of outputs selected for it (any non-empty subset
of what the query returns); time is the moment a row becomes overdue; transactions
are named by the call that made them and conflict when they share an input; the node
accepts a transaction late, or never, and mines no two conflicting ones.

Properties. `LocksAreOwned`, `ExpiredLocksHaveAReleaser`, `RetryConflictsWithOriginal`,
`OriginalPaysOnce` (invariants), `SpentIsFinal`, `LocksAreKept` (action properties),
`OverdueLocksAreReleased` (liveness).

`ExpiredLocksHaveAReleaser` is about the release of a failed payment. An EXPIRED request
is out of the unlocker's sight, so outputs that are still locked for one are stuck unless
somebody else comes by: its own sender, which may still be in its locking loop when the
unlocker has expired the request, or the clean-up of the sender or of a retry. The one
other case is named, not left out: a call with that very request died, or the unlocking
statement of `fail_and_unlock_pending_transaction` failed, which the code logs and never
repeats (`lost`); then the outputs stay locked for good.

Two retries of one key may each get a different
half of what the original still holds; therefore the properties about a key relate
the call that created the request with a retry, and say nothing of two retries.

Fairness (`FairSpec`): the unlocker is a timer task of the daemon, so `UnlockerFind`
is weakly fair while the task lives; SQL errors may cut a pass short any number of times
but not hit the same row for ever, so `UnlockerExpire(r)` is strongly fair. The task may
end at any tick, nothing is assumed of its return, and `OverdueLocksAreReleased` promises
a release only unless it ends. No client is fair. A request a reorg has CANCELLED is
excepted too: nobody ever releases what it has locked.

### Runs

| run | instance | shows |
|---|---|---|
| `fl_retry` | two senders, or a sender and a locker, with one key (`OnePair`); two outputs at different heights | the payment is made once, whatever times out, expires or is rolled back |
| `fl_mixed` | a locker and a sender with keys of their own, fair unlocker | no lock is orphaned, taken over or released early; SPENT is final; overdue locks are released while the unlocker lives |

Two calls are enough for every race of a pair (call and call, call and unlocker, call
and scanner); two outputs at different heights are what a rollback that hits only part
of a selection needs; reorgs are unbounded in number since a row is deleted only once.
The theorems lift these bounds.

### Proofs (`FundLockProofs`)

For any sets of outputs, heights, calls and keys, under the assumptions stated in
`FundLock` (heights are natural numbers, lockers and senders are disjoint, every call has
a key): `TypeCorrect`, `LockOwnership`, `FailureReleases` (`ExpiredLocksHaveAReleaser`),
`RetriesConflict`, `PaysOnce`,
`SpentStaysSpent`, `LocksKept`.

The properties about keys are not inductive: that a retry shares an input with the
original depends on where the retry got its inputs. The invariant `IInv` adds what
each stage of a call has in hand (`Stages`), that a row exists exactly for the call
that inserted it and is the only one of its key (`RowsHaveCreators`,
`OneRowPerKey`: the UNIQUE constraint), that what a retry spends is part of what
the original selected (`RetryInsideOriginal`, which rests on `LocksAreOwned`: a
locked output was selected by the request that holds it), that a transaction on the
network is settled (`SentIsSettled`) and that mined transactions are disjoint
(`MinedDisjoint`). `NextCases` splits the next-state relation; `NextIInv` has one
step per action. The action properties follow from `StatusWriters`, which lists the
steps that write the status column.

Only model-checked: `OverdueLocksAreReleased` (liveness under fairness is outside
the proof system). `TypeOK` is an invariant of no run: the theorem covers it.

## 3. ScanLedger

State. `db` holds the tables outputs, inputs, balance_changes and
scanned_tip_blocks; `chain` is the base node's best chain, a block standing for its
hash; `pc`, `why`, `unchecked`, `forked` the progress of the coordinator and of
`handle_reorgs`; `next`, `since` are `next_block_to_scan` and
`blocks_since_reorg_check`; `cursor`, `queue` the downloader's next request and the
batches on their way. Rows of a table are numbered in the order of their insertion
(`NextNumber`), which tells the rows of an output that was deleted and found again apart.
History variables: `raced` (the node has reorganised in the middle of a scan cycle), `polled`
(a Continuous scan has polled), `behind` (a poll has stepped back below a block on record) and
`torn` (the rollback of a re-scan was cut short).

Actions: `StartCycle` (prepare_target), `CheckTip` (one header request of the reorg
check), `Settle` (rollback and resume height), `OpenDownload`, `FetchBatch`,
`FetchRefused` (the requests of the download task), `ProcessBatch` (one batch, one SQL
transaction, and the reorg check that may follow), `EndStream` (end marker, poll),
`Fail`, `Restart`, `Rescan`; `NodeExtends` and `NodeReorgs` are the environment. The
tables change through operators named after the functions they translate
(`process_outputs`, `process_inputs`, `process_confirmations`,
`soft_delete_inputs_from_height`, ..., `rollback_from_height`, `get_balance`).

The end marker and download errors do not pass through the processing task, so
`EndStream` and `FetchRefused` may happen while batches are queued; those are lost with
the stream. `process_blocks` goes through a batch block by block, as a recursive function of the
number of blocks done, and passes over those below the account's next height.

A scan rolls back inside a SQL transaction, so there the rollback is one step. The re-scan command
(`main.rs:773`) calls `rollback_from_height` on a bare connection: each statement commits by itself.
`Rescan` therefore either runs to its end or leaves one of the states of `RollbackCutShort`: the
rows are taken one by one, the change of a row is marked before its reversal is inserted, all rows of
a kind are then deleted at once, inputs before outputs, the blocks on record last.

Properties. Under any reorg: `ReversalsArePaired` and `CreditsMatchRows` as long as no re-scan was
cut short, and `InputsSpendActiveRows`, also after one that was, until a poll follows a stream that delivered nothing: the scan then steps below blocks it has on
record, and a block of another branch can spend an output recorded above it. (The proof failed
without this condition; TLC confirmed the case.) As long as no reorg fell inside a cycle and no
Continuous scan has polled (`Quiet`): `BalanceMatchesTips` (if no re-scan was cut short),
`TipsAreContiguous` and, for good, `EventuallySynced`, both whether or not one was. The condition is there because the code does not keep them otherwise; section
11 says how. `EventuallySynced` also leaves out runs in which the end marker overtakes a batch in
cycle after cycle.

After a re-scan that was cut short the ledger is not repaired: a reversal that was inserted for a
row that stays takes its value out of the balance, a second re-scan marks and reverses the same
change again, and outputs deleted from blocks that stay on record are not found again, since these
blocks are not scanned again. So no ledger property can be stated of what follows; which properties
still hold is what the run shows of this case.

Fairness (`FairSpec`): unless it has stopped, the daemon keeps scanning and a
request that does not fail is answered.

Run `sl` (about 730,000 states): two branches of length 4 and 5 that part after height 1;
an output below the fork that is spent on both branches at different heights, one that is
mined on both branches at different heights and spent on one, and one that is never spent.
These are the cases the rollback treats differently. Batches of up to two blocks, one queued
batch and a check interval of two put reorg checks between batches; two reorgs allow to
leave a branch and come back, which is what makes an output be inserted, deleted and
inserted again. `MaxReorgs`, `MaxEvents` (failures, kills, re-scans and polls together; a re-scan that is cut short
counts twice, as a re-scan and as a failure),
`MaxBatch` and `MaxQueue` are bounds of the model, not of the code.

### Proofs (`ScanLedgerProofs`)

For any blocks, outputs and chains, and whenever the node reorganises: `TypeCorrect`,
`PairedReversals`, `Credits`, `InputsSpend`, `NoBlockPassedOver`, `BalanceIsRight`, each until a
re-scan is cut short: the invariants are of the form `~torn => ...`, and `torn` never turns false
again (`TornForGood`). Assumed of the
constants: blocks have heights and outputs values (`BlockConstants`), a chain holds one block per
height (`ChainConstants`), a block fixes the chain below it (`SharedHistory`), and, for the balance
only, a block has finitely many outputs (`OutputsAreFinite`) and a chain spends an output once and
not below the block that mines it (`SpentLast`). The last is the base node's consensus rule: the
wallet does not check it, and a node that broke it would be debited twice.

The invariant `IInv` has two halves. `Sound` is about the tables alone, and the lemmas of the first
part show that `process_block` and `rollback_from_height` keep it whatever block and height they
are given: rows are keyed (`OutputsAreKeyed`, `InputsAreKeyed`), a change and what reverses it are
a pair (`Ledger`), every change belongs to a row and has its amount (`ChangesAreOfRows`,
`AmountsAreRight`), an active output has one credit that counts and an active input a debit
(`Credited`, `Debited`). Without the last two a rollback could reverse the wrong change, or none.
The second half is about the scanner, and only `InputsSpendActiveRows` needs it: active outputs lie
in blocks on record (`OnRecord`), batches come in ascending order and none is below `next`
(`StreamIsInOrder`), and no recorded block is above `next` (`RecordIsBelow`). So a block is never
processed below an output that is on record, and the two soft deletes, which select by height,
never separate an input from its output.

`TipsAreContiguous` has an invariant of its own, `QuietInv`: as long as no reorg falls inside a cycle
and nothing has polled, the blocks on record are a gapless part of one chain; while a stream is
followed that is the node's chain and the batches go on exactly where the record ends; a fork that
a check has found is the height where the two chains part (`ForkIsFound`, from `SharedHistory`).
TLC has checked it on the instance of `sl`, with `MaxQueue` 2.

`BalanceMatchesTips` needs the tables to tell of the blocks on record, no more and no less
(`Matches`, in `MatchInv`): the active outputs are those these blocks mine, one row per coin
(`MinedIn`); the active inputs are those they spend, one row per output (`SpentIn`); an active input
has one debit that counts and a deleted one none (`DebitedOnce`). The last does not follow from the
rows: a block that is processed twice debits an input twice, which is what a poll does. So the
invariant also says that in a stream every block on record is below `next` (`NextIsNew`), and a
batch is accepted only if no insert has been refused (`BatchMatches`). The theorem then adds up:
changes that were reversed and the ones that reverse them cancel out (`ReversalsCancel`), what
counts of the credits is the value of the coins mined (`CreditsAre`), what counts of the debits that
of the coins also spent (`DebitsAre`). Each is a one-to-one correspondence and `SumImage`, a sum over
the image of a set; sums over sets are defined by choosing an element at a time, and `SumAdd` shows
that the choice does not matter. TLC has checked `MatchInv` on the instance of `sl` first.

`process_blocks` is a recursive function. That it exists, and that what each block keeps the batch
keeps, is shown with the smallest count of blocks for which it would fail (`RunExists`,
`RunOfBatch`, `BatchProcessed`).

Only model-checked: `EventuallySynced`, and that `InputsSpendActiveRows` and `TipsAreContiguous` also
hold after a re-scan that was cut short. `TypeOK` is only proved.

## 4. ScanStream

The same scanner seen from the other side: several accounts, all modes and every retry,
over a chain that only grows, so that a block is its height.

State. `scanned`, `recorded` are the heights on record and the outputs stored per account;
`next`, `total`, `active`, `conf`, `batch`, `todo`, `mode`, `outcome`, `cancelled` the
coordinator (`active` and `todo` are sets of places in `Targets`, the order in which accounts are
scanned); `dl` and `proc` the two tasks of a stream with the failures of their current
request; `pages`, `results` the two channels.

Actions: the download task (`TipAnswered`, `HeaderAnswered`, `fetch_block_range`,
`SendMarker`, and a failure of each request), the processing task (`ProcessPage`,
`LookupFails`), the coordinator (`handle_pause`, `OpenStream`, `ConnectionTestFails`,
`Receive`, `StreamClosed`, `Apply` for one account in one SQL transaction,
`wait_for_next_poll_cycle`, `check_global_reorgs_fails`) and the program around it
(`Cancel`, `Kill`, `NextRun`). A scanner is built for the accounts that are furthest
behind and stops at the height of the next one. What a key recovers is a set of owners
per height; the index a block carries is the position among the keys of that scanner.

Properties. `NoBlockIsSkipped`, `PartialOvershootIsBounded` (invariants), `RunsEnd`,
`EveryAccountCatchesUp` (liveness; for Full and Partial scans, and again without an end marker that
overtakes a batch for ever). Two do not hold: `OwnOutputsAreStored`, and `PartialScanKeepsLimit`,
the "Scan at most 1000 blocks" of `scan/config.rs`: a scan takes up to a batch and a block more,
and `PartialOvershootIsBounded` says that this is all. How often a request is tried is in the
model, but no property is about it: within a stream it is the comparison `Exhausted`, and outside it
is not uniform. The connection test of a new scanner (`http/scanner.rs:108-118`) is made once
and ends the run when it fails (`ConnectionTestFails`); the run after it goes on from there.

Fairness: both tasks and the coordinator go on, and the daemon's timer, or the user, runs
the scan again. Failures end because `MaxFaults` bounds them: a node that never answers
gives no progress to promise.

Runs. `stream`: birthdays 2 and 0, a chain of height 4 that may grow to 5, pages of two
blocks, so that a page crosses the artificial horizon between the accounts, an end height
and the tip; two failures, kills or cancellations, which is what it takes to use up the
two tries of a request. `stream_keys`: the same accounts, a Full scan, no failure;
violation of `OwnOutputsAreStored`. `stream_limit`: a Partial scan, no failure; violation of
`PartialScanKeepsLimit`.

### Proofs (`ScanStreamProofs`)

For any accounts, birthdays, owners of outputs, batch size, limits and number of failures
(`StreamAssumption`): `TypeCorrect`, `NoGaps` (`NoBlockIsSkipped`), `PartialOvershoot`
(`PartialOvershootIsBounded`).

That no block is skipped depends on everything between the coordinator and the node.
`StreamIsInOrder` therefore speaks of the two channels as one line, results before pages: up to
the first empty message, which ends the stream, the batches are consecutive, the first begins
where every active account waits, and the download goes on where the last ends; while a batch is
applied, accounts already served wait behind it. `PagesAreCapped` says that nothing more than a batch
beyond the end height is requested, and `PartialBudget` that the blocks counted and those still
to come make `max_blocks`: together they give the bound of a Partial scan. `RunsEnd` and
`EveryAccountCatchesUp` are only model-checked, `OwnOutputsAreStored` and `PartialScanKeepsLimit` do
not hold, `TypeOK` is only proved.

## 5. InputMatching and DisplayedHistory

`InputMatching` is `solve_back_track` of the displayed transaction processor: the largest input
that is left is tried next, the smallest target served next, an input is taken if it fits and
skipped if that leads nowhere, a branch is cut when everything left does not reach the target, and
inputs leave the pool when used. Lists the code sorts are sets here, from which the next element is
chosen; recursion is by recursive functions of what is left. `IsSound` and `IsComplete` say what
the search promises. Run `dh` compares it with that on every block of up to four inputs of value 1
to 5 and two targets up to 8, grown beside the history before its first step (`SolutionsAreSound`,
`FoundWhenPossible`).

`DisplayedHistory`. State: `rows` (displayed_transactions), `payrefs` (payref_history), `tips`
(scanned blocks), `sender` (where the call that sends a transaction is) and the history
variable `shown`. A row keeps its height twice, in the column the SQL conditions use and in the
JSON record readers see, since `ON CONFLICT` updates only the second; a row's id is the
transaction's if the sender wrote it and derived from an output if the scanner did. One SQL
transaction is one step.

Actions: `Submit`, `InsertPending`, `Crash` (sender), `ProcessBlock` (block processor: receipts,
pending rows found again, change outputs with the inputs that pay for them, what is left over),
`HandleReorg` (payment references saved, rows marked), `UpdateConfirmations`, `MarkRejected`
(monitor), and the node.

Properties. `LiveRowsAreOnTips` and `PayrefsResolve` (invariants), `HistoryIsKept` and `SpentOnce`
(action properties). `LiveRowsAreOnTips` speaks of rows whose two heights agree, and
`PayrefsResolve` of payment references shown by such rows: where the heights part, the rollback
cannot find the row (section 11). `HistoryIsKept` and `SpentOnce` say what a step does to the
history. As invariants of all reachable states they are false: a row found again at another height
is later missed by a rollback, and two branches may spend the same output. `HistoryIsKept` also
leaves room for rows that a later insert of the same block overwrites, which have the same id
(section 11).

Run `dh`: two payments, a transaction of the sender that spends one and has change, one made
elsewhere that spends the other without; chains of up to three blocks, four blocks in all,
up to two items per block, so that a payment and its spend may share a block, and a
reorganisation may drop, move or reorder them.

### Proofs (`DisplayedHistoryProofs`)

For any transactions, amounts, blocks and reorganisations: `TypeCorrect`,
`LiveRowsAreOnTipsHolds`, `PayrefsResolveHolds`, `HistoryIsKeptHolds`, `SpentOnceHolds`; and for any
inputs and targets `SearchIsSound` and, for targets that are not zero, `SearchIsComplete`. Assumed
of the constants: no transaction is an output (`DistinctItems`), transactions spend outputs of the
wallet (`SpendsAssumption`), a change output has one creator and a transaction at most one
(`ChangeAssumption`), amounts are natural numbers (`AmountsAssumption`), the outputs are finitely many
(`OutputsFinite`).

The search. A sum over a set is a fold, which the module determines by a recursive function on the
subsets of a finite set; `SetRecursion` shows, by a smallest counterexample, that such a function
exists, and from it follow the sums (`TotalAdd`, `TotalSubset`), the search for one target
(`SearchExists`, `SearchIsRight`) and the pass over the targets (`SolveExists`, `SolveIsRight`).
Then a search returns a set that adds up or, if no subset does, nothing; the cut loses nothing
because sums grow with the set.

The history. `SavedAt` says what becomes of every row when a block is written in four inserts: it is
the spend of an output nobody paid for a change output with, else the row of a new output, else
what it was, moved to the block if it was found. The invariant `IInv` adds to the two invariants
`PayrefsAreOwned` (a reference with the zero hash is that of the sender's row of its transaction,
any other that of the one change output of its transaction, so a reference determines its row) and
`ShownIsKept`: what was shown is in payref_history already, or its row still has it and lies in a
scanned block not above the row's column. This is why the reference survives although
`block_height` may be stale: a column may be too high but not too low for a block that is still
there, and the rollback saves by the column. That a block which creates an output on record
is refused is needed here, or a second insert would replace the row. TLC has checked `IInv` on
the instance of `dh`, and in simulations of larger ones with double spends and equal amounts.
`SpentOnce` rests on the search: what `search_inputs` hands out is disjoint and was in no row
the block was compared with. `TypeOK` is only proved.

## 6. BaseNode

The node is not in the repository; the module states what the wallet's code relies on. Blocks are
numbered as they are mined on any branch, so a number is a hash; `Mine` and `Reorganise` change
the best chain, a replaced block returns its items to the pool, a submission is accepted unless
the item is mined or lacks its inputs. Bounds: `MaxHeight`, `MaxBlocks`, `MaxBody`.

## 7. TxMonitor

State. `rows` (completed_transactions), `locked` (inputs), `history` (payref_history), `tips`,
`flag` (has_pending_outbound), `pass` (the rows a pass has copied, the current step and the
answer it works with; the copies are a set, and `Turn` gives the order of the statuses in which
`Item` takes them), `told` (the last webhook), `sender`, and the history variables `failed`
(transactions that have met a failure), `unreleased` (those whose release was the statement that
failed), `untold` (those whose last event or webhook was) and `shown`.

Actions: the sender statement by statement (`Record`, `SenderSubmit`, `SenderMark`, `SenderUnlock`,
`SenderFails`), the scan cycle (`PrepareTarget` with the rollback of a reorg, `ScanBatch` with the
guard `MonitorDue`), and a pass (`StartPass`, `Rebroadcast`, `CheckMined`, `CheckConfirmed`,
`MarkRow`, `Unlock`, `PersistEvent`, `PassFails`). Sender and monitor update a row by id, whatever
its status has become.

The scan loop puts a guard in front of the monitor that is never true. `Embedded` says whether an
application calls the public `monitor_if_needed` itself, whenever it likes; with `FALSE` only the
scan loop would.

Properties: `RejectedIsReleased`, `WebhooksFollowMining`, `PayrefsResolve` (invariants),
`FollowsDiagram` (the diagram of monitor.rs, as an action property, with the two situations in
which the code leaves it), `DeepTransactionsAreSettled` (liveness). Events, row and inputs are
separate statements. A transaction may meet one failure, at any step, and the properties except
exactly the statement they are about: inputs of a rejected transaction stay locked only if their
own release failed (`unreleased`), a webhook is missing only if the event or the webhook was what
failed (`untold`). After any other failure, above all a submission without an answer, both must
still come.

Fairness, for `tm_guard` only: the daemon prepares and scans in every cycle (strong fairness, since a
running pass disables these steps for a while), a pass that was begun and a sender's call go on.
Nothing in the repository calls the monitor periodically outside the dead branch, so no
fairness makes anybody call it, and no passing run claims that a transaction is settled. The node
owes nothing.

Runs. `tm` (about 430,000 states): one transaction, `Required` 1, three heights, four blocks, a
monitor that may be called at any time: enough for mined, orphaned, mined again and confirmed. Rows
meet only in the flag. `tm_guard`: the same with `Embedded` FALSE, the code as it is; violation of
`DeepTransactionsAreSettled`.

### Proofs (`TxMonitorProofs`)

For any finite set of transactions, number of confirmations, of attempts and of blocks, embedded or
not (`MonitorConstants`, and `OnlyTransactionsAreMined`: the node's blocks hold nothing else):
`TypeCorrect`, `ReleasedWhenRejected`, `WebhooksFollow`, `PayrefsKept` and, as an action
property, `DiagramHolds`.

A pass works on copies, so the invariant has to say how far they can be trusted. `RowsAreSound`:
a mined row has its height and block and, once confirmed, its payment reference. `CopiesAreSound`:
a pass has one copy of a row, which is still there; nobody puts the row back meanwhile, and nobody
but the pass confirms it. `StepIsSound`: what the pass is about to write follows from its
copy. `LocksAreOwed` and `WebhooksAreOwed` name, for inputs not yet released and webhooks not yet
queued, the actor whose next step does it. `ShownIsKept`: a payment reference that was shown is
that of a confirmed row, which nobody writes but a reorg, or has been saved.

`DeepTransactionsAreSettled` is only model-checked, and violated; `TypeOK` is only proved.

## 8. BurnProof

State. Per call `key`, `pc`, `spend`; the tables `pending`, `lockedBy`, `proofs`, `rows`; on disk
`files` (the block a proof is about) and `torn` (files cut short); `worker`, the round of the proof
worker.

Actions: a call (`FindLock`, `SelectCoin`, `CommitLock`, `InsertProof`, `FindPendingRow`,
`UpdatePending`, `create_completed_transaction`, `SubmitBurn`, `MarkBroadcast`, `CallEnds`), the
unlocker and the monitor as far as they meet burns (`ExpireRow`, `MonitorRebroadcast`), the worker (`process_pending_proofs`,
`get_kernel_merkle_proof`, `NoMerkleProof`, `write_proof_file`, `WriteFails`, `MarkComplete`,
`MarkFails`, `WorkerKilled`). Two calls with one key build two transactions over the same coin.

Properties: `ProofIsNeverLost`, `CompleteHasFile`, `OneBurnPerKey` (invariants),
`MinedBurnsAreProven` (liveness, under weak fairness of the worker: its interval ticks for ever).

Run `bp` (about 700,000 states): two calls with one key or two, two coins, two blocks, one fault at
any step. The calls are alike, so the run keeps to behaviours in which the first row of `burn_proofs`
is that of the first (`FirstRowIsOfC1`): the others differ in the names of calls and keys only.
TLC's symmetry is not sound for `MinedBurnsAreProven`.

### Proofs (`BurnProofProofs`)

For any calls, keys, coins, blocks and faults (`BurnConstants`; `OnlyBurnsAreMined`: the node's
blocks hold nothing else): `TypeCorrect`, `NeverLost` (`ProofIsNeverLost`), `CompleteFile`
(`CompleteHasFile`), `BurnOnce` (`OneBurnPerKey`).

The invariant adds that the proof row precedes everything that can lead to a submission, and is the
only one of its call (`RowsComeFirst`, `OneRowPerCall`); that what is mined was in the pool and
files hold a block that contains the burn (`ChainIsKnown`, `FilesAreReal`); that a round of the
worker has only rows that are not complete, with the block and the file its next step relies on
(`RoundIsSound`, `CompleteRows`); and that all transactions of a key spend the one coin its request
was made for, even after the lock has expired, and the pool holds no two that conflict
(`OneCoinPerKey`, `SelectedOne`, `PoolIsConsistent`). `MinedBurnsAreProven` is only model-checked;
`TypeOK` is only proved.

## 9. WebhookQueue

State. `status` and `attempts` are columns of webhook_queue, a row being named by its
event. `next_retry_at` is abstracted to an order: `due` lists the rows whose time has come,
earliest first, as fetch_due_webhooks sorts them, and `waiting` holds those still backing
off. `batch` (with the attempt counts it read), `pc` and `result` are the worker;
`accepted`, `rejected`, `posts` record what the receiver has seen.

Actions: `Enqueue` (trigger_webhook_with_balance, in the transaction that inserts the
event), `FetchBatch` (process_batch), `Send` (WebhookSender::send, any of the three
results), `Record` (process_item after the call, with update_webhook_status),
`RecordFails` (the update's error is dropped: only the join error of the blocking task
is looked at), `Crash` (the process dies and is started again; the batch is lost, the
rows stay), `BackoffElapses`. Assumed: one daemon, hence one worker, per database.

`WebhookDelivery` is the promise: an event on record is queued, then closed once, as
delivered only if the receiver has accepted it, as abandoned only if it has rejected it or
been called MAX_ATTEMPTS times, and not sent after that. It says nothing of duplicates,
which a lost update produces. `KeepsDeliveryPromise` is the refinement, with the status
column mapped to the outcome.

Fairness: the worker runs on a timer and time passes. That updates fail and processes die
finitely often is the bound `MaxLost`; `RowsAreClosed` needs it.

Run `wq`: three rows and batches of two, so one row has to wait for its turn behind rows
that fail; three attempts, so a row fails, is retried and is given up; one loss at any point.

### Proofs (`WebhookQueueProofs`)

For any events, batch size, limit and number of losses: `TypeCorrect`, `CallsCounted`,
`AttemptsLimited`, `PromiseKept`. The counts are not inductive on their own, because
`Record` writes what was read when the batch was fetched. The invariant `QInv` adds that the
rest of the batch still agrees with the rows and holds no row twice (`BatchIsFresh`), that
a row that can be fetched is open and stands in one line, once (`LinesHoldOpenRows`), that
the result in hand is what the receiver answered (`ResultIsReal`), and that a row starts at
zero (`NewRowsStartAtZero`). Three lemmas on sequences carry it: `WithoutRow`, `AppendRow`,
`NextItems`. `PromiseKept` shows that every step maps to a step of `WebhookDelivery` or a
stutter; giving up at the limit is allowed there because recorded attempts never exceed
calls (`CallsAreCounted`). `RowsAreClosed` is only model-checked;
`TypeOK` is only proved.

## 10. ConnectionPool

Each caller is the sequence of its steps as the pool sees them: it takes a connection, does
something while it holds what it has, gives the innermost back at the end of a scope. A step says
whether its failure ends the call, skips the rest of a loop body or runs the clean-up of the
sender, and what it leaves behind. All endpoints of the router, the library's sender and history,
both workers and the unlocker are written this way; operators carry the names of the functions.

State: `idle` connections, and per slot `held`, `todo`, `saved`, `result`. Actions: `Arrive`,
`Take`, `Refuse` (the timeout of `Pool::get`), `Perform`, `Fail`, `GiveBack`, `Answer`.

Properties: `NobodyWaitsForItself`, `RefusalsLeaveNothingBehind`, `EveryCallEnds`. Fairness is weak
and per call: a wait for a connection ends by the pool's timeout, one for the node by that of the
HTTP client.

Run `pool`: a slot for a library call or a worker, one for an endpoint or a library call, one for
the unlocker; two items per worker round. Two calls nest up to four scopes each, so five connections
run out in several ways. More slots make the pool empty more often, and the refusal in each step is
reached with these.

### Proofs (`ConnectionPoolProofs`)

For any number of slots, any mix of callers and any number of items per worker round
(`SlotsAssumption`, `MenuAssumption`, `ItemsAssumption`): `PoolConserved` (the idle connections
and those held add up to the size of the pool), `NoSelfDeadlock` (`NobodyWaitsForItself`),
`RefusalsAreHarmless` (`RefusalsLeaveNothingBehind`).

These are facts about the steps a call still has to take, so the invariant marks its sequence of
steps: a number of connections and "clean" or "left" in front of each, such that every step fits
between its marks, and also between its mark and that of the step it skips to when it fails
(`Fits`, `Leads`, `Plan`). Plans can be joined, so the sequences of all endpoints, workers and of
the library are marked part by part, one lemma each. `OnPlan` says that every call is on a plan that
ends with nothing held; no plan goes deeper than four scopes, and the pool has five connections.
`EveryCallEnds` is only model-checked.

## 11. Findings

Violation runs; PROJECT.json quotes the sentence each contradicts.

1. Outputs of an account are dropped when it is scanned without the accounts listed before it
   (`stream_keys`, `scan/block_processor.rs:320`): the index of a key among the accounts of the
   scanner is looked up among all accounts.
2. The scan loop never runs the transaction monitor (`tm_guard`, `scan/coordinator.rs:294`).
3. A Partial scan goes past its limit (`stream_limit`, `scan/coordinator.rs:221`): the inclusive end
   height it asks for is one block too high, and the page that crosses it is taken whole.

The models also contain, without a run of their own, these behaviours of the code. They are the
reason for the conditions in the properties above, or were met while reading.

Fund locking.
- Two concurrent calls may return the same output (`transactions/fund_locker.rs:170`).
- A reorg that cancels a request leaves its other outputs locked for ever (`scan/reorg.rs:148`).
- An expired request passes the sender's expiry test, which looks at PENDING rows only
  (`transactions/manager.rs:579`).

Scanning.
- A reorg between check and download leaves blocks of the old branch under new ones, and is never
  noticed (`scan/reorg.rs:55`).
- After a rollback between two batches the stream goes on and skips blocks (`scan/coordinator.rs:400`).
- The end marker overtakes a batch, so a Full scan may stop short of the tip
  (`scanning/http/scanner.rs:599`).
- A rolled back spend leaves its output SPENT though its value counts as available
  (`db/inputs.rs:164`, `db/accounts.rs:267`); an output spent before it is confirmed is subtracted
  twice from `available` (`db/accounts.rs:303`).
- A poll steps back by one and processes the last block again, its debits included
  (`scan/coordinator.rs:415`); for the same reason two accounts a block apart can take turns for ever.
  A poll after a stream that delivered nothing starts below blocks on record; if the node has
  reorganised, an input may then be recorded below its output, and a rollback to a height between
  them would delete the output and keep the input.
- Full and Partial scans of accounts at different heights report Completed at the artificial horizon
  (`scan/coordinator.rs:255`); `max_timeout_retries` is unused;
  a stream whose tip request failed is reopened without a delay.
- A re-scan whose rollback is cut short leaves reversals of rows that stay active, or deleted rows in
  blocks that stay on record; a second re-scan reverses the first again (`main.rs:776`).
- A reorg check whose requests fail is fatal and stops the daemon.

History.
- `ON CONFLICT` leaves `block_height` as it was, so a row found again on another height is later
  missed by rollbacks, and a row that is not on the canonical chain is shown as mined.
- A payment and the spend of it without change have the same id, and the later one replaces the
  earlier (`processor.rs:509` and `:174`). So have a change output and its spend in the same block:
  if inputs of another transaction without change happened to add up for that output, no row is
  left that tells of them. (The proof of `HistoryIsKept` failed on it; TLC confirmed the case.)
- Pending rows have height 0 and therefore become Confirmed; matched pending rows keep the payment
  reference of the zero hash; a sender that inserts after the block was scanned leaves a second,
  pending row.

Monitor.
- The branch for `MAX_BROADCAST_ATTEMPTS` is dead, Broadcast rows are never rebroadcast, and
  `signal_transaction_broadcast` has no caller.
- A sender that overlaps a pass can revive a Rejected row or put a mined row back to Broadcast.
- A block the monitor records before the wallet has scanned it, and that is orphaned before that,
  is never reset.
- A crash between `mark_completed_transaction_as_rejected` and the unlock leaves the inputs locked.

Burn proofs.
- The proof is fetched without asking for confirmations, so a reorg leaves a complete proof of an
  orphaned block.
- A refused submission leaves a Completed row and a COMPLETED request; two calls with one key leave
  two proof rows, one of which stays `pending_merkle`; after an expired lock the burn goes on without
  a completed row.

Pool.
- The unlocker task ends for good when it is refused a connection (`tasks/unlocker.rs:45`).
- Fee estimation keeps its connection during the request to the node
  (`transactions/fee_estimator.rs:57`).
- A burn is answered with a database error though the node has accepted it
  (`api/accounts/burn.rs:213`).
- A failed `create_unsigned_transaction` leaves the funds locked until they expire.

`delete_webhooks_older_than` has no caller, so webhook_queue only grows; an error of the status
update inside the blocking task is dropped (`webhooks/worker.rs:126`).

## 12. Plan

What moves or counts money comes first.

1. Done: all modules model-checked, and proofs for each of them.
2. An abstract life cycle of a transaction for TxMonitor to refine in place of `FollowsDiagram`.
3. The memo and validator node variants of a payment.
4. `InputsSpendActiveRows` and `TipsAreContiguous` proved through a re-scan that is cut short.

## 13. Not modelled

- The command line, configuration, logging and key handling: parsing, printing and cryptography.
- The gRPC scanner: not part of the build.
- Migrations: they run before anything else.
- What an output decrypts to, fees, amounts and messages: the models decide by sets of owners and,
  where sums matter (`InputMatching`, `ScanLedger`), small values.
- The length of timeouts and back-offs: only that they elapse, and in which order.
- Pruning of scanned tips and progress reports: they sit behind the guard of `scan/coordinator.rs:294`.
- Two wallet processes on one database file.

## 14. Outside the proofs

Liveness under fairness and ENABLED are outside TLAPS: `OverdueLocksAreReleased`,
`EventuallySynced`, `RunsEnd`,
`EveryAccountCatchesUp`, `MinedBurnsAreProven`, `RowsAreClosed` and `EveryCallEnds` stay with TLC, and
so does the refutation of `DeepTransactionsAreSettled`. Induction principles over data cannot be cited, since they take an
operator as a parameter; where a proof needs one it argues with a smallest counterexample. All
safety properties the passing runs check are proved, those of `ScanLedger` until a re-scan is cut short. No module
declares a RECURSIVE operator: where the code recurses the models use functions and the folds of the
community modules.
