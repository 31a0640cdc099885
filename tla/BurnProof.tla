------------------------------ MODULE BurnProof ------------------------------
(***************************************************************************)
(* Burning funds for a claim on the second layer: the burn calls of the    *)
(* REST API and the command line, the table burn_proofs, and the worker of *)
(* the daemon that turns a row into a proof file once the node can prove   *)
(* that the kernel is in a block.                                          *)
(*                                                                         *)
(* A call locks one coin under its idempotency key, builds a transaction   *)
(* of its own over it (fresh keys, so fresh output and kernel), stores the *)
(* partial proof, and only then submits.  Every statement commits by       *)
(* itself except the two of lock and of expiry.  Calls, the worker, the    *)
(* unlocker and the transaction monitor run beside each other, and may be  *)
(* killed at any step.                                                     *)
(***************************************************************************)
EXTENDS BaseNode, TLC

CONSTANTS
    Calls,      \* burn requests; also the transaction each of them builds
    Keys,       \* idempotency keys
    KeyChoices, \* the ways the requests may carry them: functions on Calls
    Coins,      \* outputs of the wallet, each large enough for a burn
    MaxFaults   \* bound: failed statements, requests and writes, and kills

ASSUME OnlyBurnsAreMined == Items = Calls /\ \A c \in Calls : Needs[c] = {}
ASSUME BurnConstants ==
    /\ KeyChoices \subseteq [Calls -> Keys] /\ "none" \notin Keys
    /\ MaxFaults \in Nat

VARIABLES
    key,        \* key[c]: the idempotency key of a call
    pc,         \* where a call is
    spend,      \* spend[c]: coins the transaction of c spends, {} before selection
    pending,    \* pending_transactions: status of the row of a key
    lockedBy,   \* outputs: the row a coin is locked by, or "none"
    proofs,     \* burn_proofs, in order of creation
    rows,       \* completed_transactions: status of the row of a call's transaction
    files,      \* files[c]: the block the proof file of c is about, 0 without a file
    torn,       \* proof files that were cut short
    worker,     \* the round of the worker: proofs to do, step and answer for the oldest
    faults      \* faults so far (not in the code)

calls == <<key, pc, spend>>
table == <<pending, lockedBy, proofs, rows>>
disk  == <<files, torn>>
vars  == <<node, calls, table, disk, worker, faults>>

Resting == [todo |-> {}, step |-> "ask", block |-> 0]

Init ==
    /\ NodeInit
    /\ key \in KeyChoices
    /\ pc       = [c \in Calls |-> "find"]
    /\ spend    = [c \in Calls |-> {}]
    /\ pending  = [k \in Keys |-> "none"]
    /\ lockedBy = [x \in Coins |-> "none"]
    /\ proofs   = <<>>
    /\ rows     = [c \in Calls |-> "none"]
    /\ files    = [c \in Calls |-> 0]
    /\ torn     = {}
    /\ worker   = Resting
    /\ faults   = 0

-----------------------------------------------------------------------------
(* Faulty variants of definitions below.                                   *)

(* The burn is stored after it has been submitted.                         *)
FaultSubmitFirst == "submit"

(* A key that is found again selects coins anew.                           *)
FaultReselect(k) == {x \in Coins : lockedBy[x] = "none"}

(* The row is marked complete before the file is written.                  *)
FaultMarkFirst == "mark"

(* The first proof that is not ready ends the round (`?` in the loop).     *)
FaultStopRound(todo) == {}

-----------------------------------------------------------------------------
(* Statements on the tables.                                               *)

(* find_pending_transaction_by_idempotency_key                             *)
IsPending(k) == pending[k] = "PENDING"

(* The coins the row of key k has locked.                                  *)
LockedFunds(k) == {x \in Coins : lockedBy[x] = k}

unlock_outputs_for_request(k) ==
    lockedBy' = [x \in Coins |-> IF lockedBy[x] = k THEN "none" ELSE lockedBy[x]]

insert_burn_proof(c) ==
    proofs' = Append(proofs, [call |-> c, status |-> "pending_merkle"])

(* Ids of the rows to do.  A round takes them oldest first.                *)
get_pending_burn_proofs ==
    {i \in 1 .. Len(proofs) : proofs[i].status = "pending_merkle"}

BURN_PROOF_STATUS_COMPLETE == "complete"

mark_burn_proof_complete(i) ==
    proofs' = [proofs EXCEPT ![i].status = BURN_PROOF_STATUS_COMPLETE]

-----------------------------------------------------------------------------
(* Control                                                                 *)

Goto(c, l) == pc' = [pc EXCEPT ![c] = l]

Fault == faults < MaxFaults /\ faults' = faults + 1

NoFault == UNCHANGED faults

-----------------------------------------------------------------------------
(* create_burn_tx                                                          *)

(* What follows the lock: keys, output, transaction and ownership proof    *)
(* are built, which touches no shared state, and the records are stored.   *)
Built == "insert"

(* A PENDING row with the key: its coins again.                            *)
FindLock(c) ==
    /\ pc[c] = "find"
    /\ IF ~ IsPending(key[c])
         THEN Goto(c, "select") /\ UNCHANGED spend
         ELSE /\ spend' = [spend EXCEPT ![c] = LockedFunds(key[c])]
              /\ Goto(c, IF LockedFunds(key[c]) = {} THEN "over" ELSE Built)
    /\ NoFault
    /\ UNCHANGED <<node, key, table, disk, worker>>

(* Input selection, outside the SQL transaction that locks.  The coins are *)
(* alike and come in the same order every time.                            *)
SelectCoin(c) ==
    /\ pc[c] = "select"
    /\ LET free == {x \in Coins : lockedBy[x] = "none"} IN
       IF free = {}
         THEN Goto(c, "over") /\ UNCHANGED spend   \* insufficient funds
         ELSE spend' = [spend EXCEPT ![c] = {CHOOSE x \in free : TRUE}] /\ Goto(c, "commit")
    /\ NoFault
    /\ UNCHANGED <<node, key, table, disk, worker>>

(* Insert the row and lock the coin, if it is still free, in one SQL       *)
(* transaction; the key must be new.                                       *)
CommitLock(c) ==
    /\ pc[c] = "commit"
    /\ IF pending[key[c]] # "none"
         THEN Goto(c, "over") /\ UNCHANGED <<pending, lockedBy>>
         ELSE /\ pending'  = [pending EXCEPT ![key[c]] = "PENDING"]
              /\ lockedBy' = [x \in Coins |-> IF x \in spend[c] /\ lockedBy[x] = "none"
                                                THEN key[c] ELSE lockedBy[x]]
              /\ Goto(c, Built)
    /\ NoFault
    /\ UNCHANGED <<node, key, spend, proofs, rows, disk, worker>>

-----------------------------------------------------------------------------
(* persist_burn_records                                                    *)

InsertProof(c) ==
    /\ pc[c] = "insert"
    /\ insert_burn_proof(c)
    /\ Goto(c, "complete")
    /\ NoFault
    /\ UNCHANGED <<node, key, spend, pending, lockedBy, rows, disk, worker>>

(* The PENDING row of the key, if there is one and it can be read.  The    *)
(* steps up to the submission only warn of their errors: without the row,  *)
(* the burn goes on with neither of the next two.                          *)
FindPendingRow(c) ==
    /\ pc[c] = "complete"
    /\ \/ IsPending(key[c]) /\ Goto(c, "update") /\ NoFault
       \/ Goto(c, "submit") /\ IF IsPending(key[c]) THEN Fault ELSE NoFault
    /\ UNCHANGED <<node, key, spend, table, disk, worker>>

(* By the id read before: the row may have expired in between.             *)
UpdatePending(c) ==
    /\ pc[c] = "update"
    /\ \/ pending' = [pending EXCEPT ![key[c]] = "COMPLETED"] /\ NoFault
       \/ UNCHANGED pending /\ Fault
    /\ Goto(c, "record")
    /\ UNCHANGED <<node, key, spend, lockedBy, proofs, rows, disk, worker>>

create_completed_transaction(c) ==
    /\ pc[c] = "record"
    /\ \/ rows' = [rows EXCEPT ![c] = "Completed"] /\ NoFault
       \/ UNCHANGED rows /\ Fault
    /\ Goto(c, "submit")
    /\ UNCHANGED <<node, key, spend, pending, lockedBy, proofs, disk, worker>>

-----------------------------------------------------------------------------
(* api_burn_funds, handle_burn_funds                                       *)

(* The node refuses a transaction that spends what one it knows spends.    *)
Welcome(c) == Acceptable(c) /\ \A d \in mempool \ {c} : spend[c] \cap spend[d] = {}

(* The answer is lost, or negative: the call returns an error and leaves   *)
(* its rows as they are.                                                   *)
SubmitBurn(c) ==
    /\ pc[c] = "submit"
    /\ \/ Welcome(c) /\ Accept(c) /\ Goto(c, "mark") /\ NoFault
       \/ Welcome(c) /\ Accept(c) /\ Goto(c, "over") /\ Fault
       \/ ~ Welcome(c) /\ Goto(c, "over") /\ UNCHANGED node /\ NoFault
    /\ UNCHANGED <<key, spend, table, disk, worker>>

MarkBroadcast(c) ==
    /\ pc[c] = "mark"
    /\ rows' = [rows EXCEPT ![c] = IF @ = "none" THEN @ ELSE "Broadcast"]
    /\ Goto(c, "over")
    /\ NoFault
    /\ UNCHANGED <<node, key, spend, pending, lockedBy, proofs, disk, worker>>

(* The process is killed, or a statement or the build fails: either way    *)
(* the call is over and leaves its rows, and the lock, as they are.        *)
CallEnds(c) ==
    /\ pc[c] # "over"
    /\ Goto(c, "over")
    /\ Fault
    /\ UNCHANGED <<node, key, spend, table, disk, worker>>

-----------------------------------------------------------------------------
(* TransactionUnlocker and TransactionMonitor, as far as burns meet them.  *)

(* The unlocker works from a list it has read before: the row it expires   *)
(* was PENDING then and may be COMPLETED by now.                           *)
ExpireRow(k) ==
    /\ pending[k] \in {"PENDING", "COMPLETED"}
    /\ pending' = [pending EXCEPT ![k] = "EXPIRED"]
    /\ unlock_outputs_for_request(k)
    /\ NoFault
    /\ UNCHANGED <<node, calls, proofs, rows, disk, worker>>

(* broadcast_transaction takes an acceptance or AlreadyMined for success,  *)
(* and any other answer, or none, for a rejection.                         *)
MonitorRebroadcast(c) ==
    /\ rows[c] = "Completed"
    /\ \/ /\ IF OnChain(c) THEN UNCHANGED node ELSE Welcome(c) /\ Accept(c)
          /\ rows' = [rows EXCEPT ![c] = "Broadcast"]
          /\ UNCHANGED <<lockedBy, faults>>
       \/ /\ IF OnChain(c) \/ Welcome(c) THEN Fault ELSE NoFault
          /\ rows' = [rows EXCEPT ![c] = "Rejected"]
          /\ unlock_outputs_for_request(key[c])
          /\ UNCHANGED node
    /\ UNCHANGED <<calls, pending, proofs, disk, worker>>

-----------------------------------------------------------------------------
(* BurnProofWorker                                                         *)

Oldest == Min(worker.todo)

Current == proofs[Oldest].call

Busy(step) == worker.todo # {} /\ worker.step = step

(* Whatever happens to one proof, the round goes on with the next.         *)
RestOfRound(todo) == todo \ {Min(todo)}

GiveUp ==
    /\ worker.todo # {}
    /\ worker' = [Resting EXCEPT !.todo = RestOfRound(worker.todo)]

(* A tick of the interval.                                                 *)
process_pending_proofs ==
    /\ worker.todo = {}
    /\ get_pending_burn_proofs # {}
    /\ worker' = [Resting EXCEPT !.todo = get_pending_burn_proofs]
    /\ NoFault
    /\ UNCHANGED <<node, calls, table, disk>>

Writing == "write"

(* The node knows the kernel: it is in a block of the best chain, how deep *)
(* is not asked.                                                           *)
get_kernel_merkle_proof ==
    /\ Busy("ask")
    /\ OnChain(Current)
    /\ worker' = [worker EXCEPT !.step = Writing, !.block = chain[HeightOf(Current)]]
    /\ NoFault
    /\ UNCHANGED <<node, calls, table, disk>>

(* No answer, no proof, or one that cannot be assembled.                   *)
NoMerkleProof ==
    /\ Busy("ask")
    /\ IF OnChain(Current) THEN Fault ELSE NoFault
    /\ GiveUp
    /\ UNCHANGED <<node, calls, table, disk>>

write_proof_file ==
    /\ Busy("write")
    /\ files' = [files EXCEPT ![Current] = worker.block]
    /\ torn' = torn \ {Current}
    /\ worker' = [worker EXCEPT !.step = "mark"]
    /\ NoFault
    /\ UNCHANGED <<node, calls, table>>

(* The file is truncated first: a failure may leave a part of it.          *)
WriteFails ==
    /\ Busy("write")
    /\ Fault
    /\ GiveUp
    /\ torn' \in {torn, torn \cup {Current}}
    /\ UNCHANGED <<node, calls, table, files>>

MarkComplete ==
    /\ Busy("mark")
    /\ mark_burn_proof_complete(Oldest)
    /\ GiveUp
    /\ NoFault
    /\ UNCHANGED <<node, calls, pending, lockedBy, rows, disk>>

MarkFails ==
    /\ Busy("mark")
    /\ Fault
    /\ GiveUp
    /\ UNCHANGED <<node, calls, table, disk>>

(* The daemon stops and is started again.                                  *)
WorkerKilled ==
    /\ worker.todo # {}
    /\ Fault
    /\ worker' = Resting
    /\ torn' \in {torn} \cup (IF worker.step = "write" THEN {torn \cup {Current}} ELSE {})
    /\ UNCHANGED <<node, calls, table, files>>

-----------------------------------------------------------------------------
(* The node: blocks, reorganisations, and a pool that may forget.  Blocks  *)
(* without a burn on top of the chain change nothing here.                 *)

NodeStep ==
    /\ \/ \E body \in Bodies(Tip, mempool) \ {{}} : Mine(body) /\ NoFault
       \/ \E h \in 0 .. Tip - 1 : \E body \in Bodies(h, mempool) : Reorganise(h, body) /\ NoFault
       \/ \E c \in mempool : /\ ~ OnChain(c) /\ Fault
                             /\ mempool' = mempool \ {c}
                             /\ UNCHANGED <<chain, bodies>>
    /\ UNCHANGED <<calls, table, disk, worker>>

CallStep(c) ==
    \/ FindLock(c) \/ SelectCoin(c) \/ CommitLock(c)
    \/ InsertProof(c) \/ FindPendingRow(c) \/ UpdatePending(c) \/ create_completed_transaction(c)
    \/ SubmitBurn(c) \/ MarkBroadcast(c) \/ CallEnds(c)

WorkerRound ==
    \/ process_pending_proofs \/ get_kernel_merkle_proof \/ NoMerkleProof
    \/ write_proof_file \/ WriteFails \/ MarkComplete \/ MarkFails

Next ==
    \/ \E c \in Calls : CallStep(c) \/ MonitorRebroadcast(c)
    \/ \E k \in Keys : ExpireRow(k)
    \/ WorkerRound \/ WorkerKilled
    \/ NodeStep

Spec == Init /\ [][Next]_vars

(* The interval ticks for ever and a step that is begun ends.              *)
FairSpec == Spec /\ WF_vars(WorkerRound)

-----------------------------------------------------------------------------
(* persist_burn_records is called "before broadcasting the transaction so  *)
(* the proof is never lost": whatever is killed or fails, a burn the node  *)
(* holds, waiting or mined, has its row in burn_proofs.                    *)
ProofIsNeverLost ==
    \A c \in mempool \cup MinedIn(chain, Tip) : \E i \in 1 .. Len(proofs) : proofs[i].call = c

(* A row is only complete when a whole proof file is on disk, about a      *)
(* block that really held the kernel: the order of write_proof_file and    *)
(* mark_burn_proof_complete under failures, kills and reorgs.              *)
CompleteHasFile ==
    \A i \in 1 .. Len(proofs) :
        proofs[i].status = "complete" =>
            LET c == proofs[i].call IN c \notin torn /\ files[c] # 0 /\ c \in bodies[files[c]]

(* "Optional idempotency key to prevent duplicate burn requests": calls    *)
(* that carry one key may build several transactions, but never have two   *)
(* of them mined, also when the lock runs out, the first is rejected or    *)
(* the node forgets it.                                                    *)
OneBurnPerKey ==
    \A c, d \in MinedIn(chain, Tip) : key[c] = key[d] => c = d

(* A burn that stays in the best chain gets its proof file, whatever other *)
(* proofs fail in the same round: the worker goes on after an error and    *)
(* tries again in the next cycle.                                          *)
MinedBurnsAreProven ==
    \A c \in Calls : <>[] OnChain(c) => <>(files[c] # 0 /\ c \notin torn)
=============================================================================
