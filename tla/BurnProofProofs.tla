--------------------------- MODULE BurnProofProofs ---------------------------
(***************************************************************************)
(* Proofs about BurnProof for any number of requests, keys, coins, blocks  *)
(* and faults.                                                             *)
(***************************************************************************)
EXTENDS BurnProof, WellFoundedInduction, TLAPS

-----------------------------------------------------------------------------
(* A set of numbers that is not empty has a smallest member.               *)
LEMMA Smallest ==
    ASSUME NEW T \in SUBSET Nat, T # {}
    PROVE  Min(T) \in T /\ \A y \in T : Min(T) <= y
<1>1. IsWellFoundedOn(OpToRel(<, Nat), Nat)
    BY NatLessThanWellFounded
<1>2. PICK x \in T : \A y \in T : ~ (<<y, x>> \in OpToRel(<, Nat))
    BY <1>1, WFMin
<1>3. \A y \in T : x <= y
    <2>1. ASSUME NEW y \in T PROVE ~ (y < x)
        BY <1>2 DEF OpToRel
    <2> QED BY <2>1
<1> QED BY <1>3 DEF Min

-----------------------------------------------------------------------------
CallSteps == {"find", "select", "commit", "insert", "complete", "update", "record",
              "submit", "mark", "over"}
ProofRows == [call : Calls, status : {"pending_merkle", "complete"}]

TypeOK ==
    /\ key \in [Calls -> Keys]
    /\ pc \in [Calls -> CallSteps]
    /\ spend \in [Calls -> SUBSET Coins]
    /\ pending \in [Keys -> {"none", "PENDING", "COMPLETED", "EXPIRED"}]
    /\ lockedBy \in [Coins -> Keys \cup {"none"}]
    /\ proofs \in Seq(ProofRows)
    /\ rows \in [Calls -> {"none", "Completed", "Broadcast", "Rejected"}]
    /\ files \in [Calls -> Nat]
    /\ torn \subseteq Calls
    /\ worker \in [todo : SUBSET Nat, step : {"ask", "write", "mark"}, block : Nat]
    /\ mempool \subseteq Calls
    /\ bodies \in Seq(SUBSET Calls)
    /\ chain \in Seq(Nat)

-----------------------------------------------------------------------------
(* The inductive invariant.                                                *)

HasRow(c) == \E i \in 1 .. Len(proofs) : proofs[i].call = c

(* A call whose transaction somebody may still hand to the node, or has.   *)
Recorded(c) == \/ pc[c] \in {"complete", "update", "record", "submit", "mark"}
               \/ rows[c] # "none"
               \/ c \in mempool

(* The proof row is written before anything that leads to a submission,    *)
(* and only then.                                                          *)
RowsComeFirst ==
    \A c \in Calls :
        /\ Recorded(c) => HasRow(c)
        /\ pc[c] \in {"find", "select", "commit", "insert"} => ~ HasRow(c)

OneRowPerCall ==
    \A i, j \in 1 .. Len(proofs) : proofs[i].call = proofs[j].call => i = j

(* Blocks are numbered, and what is mined is still in the pool.            *)
ChainIsKnown ==
    \A h \in 1 .. Len(chain) :
        /\ chain[h] \in 1 .. Len(bodies)
        /\ bodies[chain[h]] \subseteq mempool

Held(c, b) == b \in 1 .. Len(bodies) /\ c \in bodies[b]

FilesAreReal == \A c \in Calls : files[c] # 0 => Held(c, files[c])

(* A round only has rows that are not complete, and for the one in hand    *)
(* the block, and later the file, that the next step relies on.            *)
RoundIsSound ==
    /\ \A i \in worker.todo : i \in 1 .. Len(proofs) /\ proofs[i].status = "pending_merkle"
    /\ worker.todo # {} /\ worker.step # "ask" => Held(Current, worker.block)
    /\ worker.todo # {} /\ worker.step = "mark" => Current \notin torn /\ files[Current] # 0

CompleteRows ==
    \A i \in 1 .. Len(proofs) :
        proofs[i].status = "complete" =>
            proofs[i].call \notin torn /\ files[proofs[i].call] # 0

(* Calls that have a transaction.                                          *)
HasTx(c) == pc[c] = "insert" \/ Recorded(c)

(* Whoever spends under a key spends the one coin the row of the key was   *)
(* made for; no row, no lock and no transaction.                           *)
OneCoinPerKey ==
    \A k \in Keys :
        \/ /\ pending[k] = "none"
           /\ LockedFunds(k) = {}
           /\ \A c \in Calls : key[c] = k => ~ HasTx(c)
        \/ /\ pending[k] # "none"
           /\ \E x \in Coins :
                /\ LockedFunds(k) \subseteq {x}
                /\ \A c \in Calls : key[c] = k /\ HasTx(c) => spend[c] = {x}

SelectedOne == \A c \in Calls : pc[c] = "commit" => \E x \in Coins : spend[c] = {x}

PoolIsConsistent == \A c, d \in mempool : c # d => spend[c] \cap spend[d] = {}

IInv ==
    /\ TypeOK
    /\ RowsComeFirst
    /\ OneRowPerCall
    /\ ChainIsKnown
    /\ FilesAreReal
    /\ RoundIsSound
    /\ CompleteRows
    /\ OneCoinPerKey
    /\ SelectedOne
    /\ PoolIsConsistent

-----------------------------------------------------------------------------
(* The row insert_burn_proof adds.                                         *)
LEMMA InsertedRow ==
    ASSUME TypeOK, NEW c \in Calls, insert_burn_proof(c)
    PROVE  /\ proofs' \in Seq(ProofRows)
           /\ Len(proofs) \in Nat /\ Len(proofs') = Len(proofs) + 1
           /\ \A i \in 1 .. Len(proofs) : proofs'[i] = proofs[i]
           /\ proofs'[Len(proofs) + 1].call = c
           /\ proofs'[Len(proofs) + 1].status = "pending_merkle"
BY DEF TypeOK, insert_burn_proof, ProofRows

(* mark_burn_proof_complete changes the status of one row.                 *)
LEMMA MarkedRow ==
    ASSUME TypeOK, NEW i \in 1 .. Len(proofs), mark_burn_proof_complete(i)
    PROVE  /\ proofs' \in Seq(ProofRows)
           /\ Len(proofs) \in Nat /\ Len(proofs') = Len(proofs)
           /\ \A j \in 1 .. Len(proofs) :
                 /\ proofs'[j].call = proofs[j].call
                 /\ j # i => proofs'[j].status = proofs[j].status
<1>1. proofs[i] \in ProofRows /\ Len(proofs) \in Nat
    BY DEF TypeOK
<1> DEFINE row == [proofs[i] EXCEPT !.status = "complete"]
<1>2. row \in ProofRows /\ row.call = proofs[i].call
    BY <1>1 DEF ProofRows
<1>3. proofs' = [proofs EXCEPT ![i] = row]
    BY DEF mark_burn_proof_complete, BURN_PROOF_STATUS_COMPLETE
<1> HIDE DEF row
<1> QED BY <1>1, <1>2, <1>3 DEF TypeOK

(* The call whose proof is in hand.                                        *)
LEMMA InHand ==
    ASSUME TypeOK, RoundIsSound, worker.todo # {}
    PROVE  /\ Oldest \in worker.todo
           /\ Oldest \in 1 .. Len(proofs)
           /\ proofs[Oldest].status = "pending_merkle"
           /\ Current \in Calls
<1>1. worker.todo \in SUBSET Nat
    BY DEF TypeOK
<1>2. Oldest \in worker.todo
    BY <1>1, Smallest DEF Oldest
<1>3. proofs[Oldest] \in ProofRows
    BY <1>2 DEF RoundIsSound, TypeOK
<1> QED BY <1>2, <1>3 DEF RoundIsSound, ProofRows, Current

(* What is on the chain.                                                   *)
LEMMA Mined ==
    ASSUME NEW c
    PROVE  OnChain(c) <=> \E h \in 1 .. Len(chain) : c \in bodies[chain[h]]
BY DEF OnChain, MinedIn, Tip

(* A mined transaction is in the pool: the node forgets no other.          *)
LEMMA MinedIsPooled ==
    ASSUME TypeOK, ChainIsKnown
    PROVE  MinedIn(chain, Tip) \subseteq mempool
BY DEF TypeOK, ChainIsKnown, MinedIn, Tip

-----------------------------------------------------------------------------
(* Type correctness.                                                       *)

(* Steps of the calls leave the node's chain and the worker alone ...      *)
LEMMA TypeOfCalls ==
    ASSUME TypeOK, SelectedOne, NEW c \in Calls, CallStep(c) \/ MonitorRebroadcast(c)
    PROVE  TypeOK'
<1> USE DEF TypeOK, CallSteps
<1>1. CASE FindLock(c)
    <2>1. LockedFunds(key[c]) \in SUBSET Coins
        BY DEF LockedFunds
    <2>2. /\ pc' \in [Calls -> CallSteps] /\ spend' \in [Calls -> SUBSET Coins]
        <3>1. CASE IsPending(key[c])
            <4>1. PICK l \in CallSteps : pc' = [pc EXCEPT ![c] = l]
                BY <1>1, <3>1 DEF FindLock, Goto, Built
            <4>2. spend' = [spend EXCEPT ![c] = LockedFunds(key[c])]
                BY <1>1, <3>1 DEF FindLock
            <4> QED BY <2>1, <4>1, <4>2
        <3>2. CASE ~ IsPending(key[c])
            BY <1>1, <3>2 DEF FindLock, Goto
        <3> QED BY <3>1, <3>2
    <2> QED BY <1>1, <2>2 DEF FindLock, node, table, disk
<1>2. CASE SelectCoin(c)
    <2>1. ASSUME {x \in Coins : lockedBy[x] = "none"} # {}
          PROVE  {CHOOSE x \in {y \in Coins : lockedBy[y] = "none"} : TRUE} \subseteq Coins
        BY <2>1
    <2>2. /\ pc' \in [Calls -> CallSteps] /\ spend' \in [Calls -> SUBSET Coins]
        <3>1. CASE {x \in Coins : lockedBy[x] = "none"} = {}
            BY <1>2, <3>1 DEF SelectCoin, Goto
        <3>2. CASE {x \in Coins : lockedBy[x] = "none"} # {}
            <4>1. pc' = [pc EXCEPT ![c] = "commit"]
                BY <1>2, <3>2 DEF SelectCoin, Goto
            <4>2. spend' = [spend EXCEPT ![c] =
                                {CHOOSE x \in {y \in Coins : lockedBy[y] = "none"} : TRUE}]
                BY <1>2, <3>2 DEF SelectCoin
            <4> QED BY <2>1, <3>2, <4>1, <4>2
        <3> QED BY <3>1, <3>2
    <2> QED BY <1>2, <2>2 DEF SelectCoin, node, table, disk
<1>3. CASE CommitLock(c)
    <2>1. CASE pending[key[c]] # "none"
        BY <1>3, <2>1 DEF CommitLock, Goto, node, disk
    <2>2. CASE pending[key[c]] = "none"
        <3>1. key[c] \in Keys
            OBVIOUS
        <3>2. lockedBy' \in [Coins -> Keys \cup {"none"}]
            BY <1>3, <2>2, <3>1, ZenonT(30) DEF CommitLock
        <3>3. pc' \in [Calls -> CallSteps]
              /\ pending' \in [Keys -> {"none", "PENDING", "COMPLETED", "EXPIRED"}]
            BY <1>3, <2>2, ZenonT(30) DEF CommitLock, Goto, Built
        <3> QED BY <1>3, <3>2, <3>3 DEF CommitLock, node, disk
    <2> QED BY <2>1, <2>2
<1>4. CASE InsertProof(c)
    BY <1>4, InsertedRow DEF InsertProof, Goto, NoFault, node, disk
<1>5. CASE FindPendingRow(c)
    BY <1>5 DEF FindPendingRow, Goto, node, table, disk
<1>10. CASE UpdatePending(c)
    BY <1>10 DEF UpdatePending, Goto, node, disk
<1>11. CASE create_completed_transaction(c)
    BY <1>11 DEF create_completed_transaction, Goto, node, disk
<1>6. CASE SubmitBurn(c)
    BY <1>6 DEF SubmitBurn, Accept, Goto, NoFault, node, table, disk
<1>7. CASE MarkBroadcast(c)
    BY <1>7 DEF MarkBroadcast, Goto, NoFault, node, disk
<1>8. CASE CallEnds(c)
    BY <1>8 DEF CallEnds, Goto, node, table, disk
<1>9. CASE MonitorRebroadcast(c)
    <2>1. mempool' \subseteq Calls /\ chain' = chain /\ bodies' = bodies
        BY <1>9 DEF MonitorRebroadcast, Accept, node
    <2>2. lockedBy' \in [Coins -> Keys \cup {"none"}]
          /\ rows' \in [Calls -> {"none", "Completed", "Broadcast", "Rejected"}]
        BY <1>9, ZenonT(30) DEF MonitorRebroadcast, unlock_outputs_for_request
    <2> QED BY <1>9, <2>1, <2>2 DEF MonitorRebroadcast, calls, disk
<1> QED BY <1>1, <1>2, <1>3, <1>4, <1>5, <1>6, <1>7, <1>8, <1>9, <1>10, <1>11 DEF CallStep

(* ... and those of the worker only touch proofs and files.                *)
LEMMA TypeOfWorker ==
    ASSUME TypeOK, RoundIsSound, ChainIsKnown, WorkerRound \/ WorkerKilled
    PROVE  TypeOK'
<1>1. /\ key' = key /\ pc' = pc /\ spend' = spend /\ pending' = pending
      /\ lockedBy' = lockedBy /\ rows' = rows
      /\ chain' = chain /\ bodies' = bodies /\ mempool' = mempool
    BY DEF WorkerRound, WorkerKilled, process_pending_proofs, get_kernel_merkle_proof,
       NoMerkleProof, write_proof_file, WriteFails, MarkComplete, MarkFails, node, calls, table
<1>2. proofs' \in Seq(ProofRows)
    <2>1. CASE MarkComplete
        <3>1. Oldest \in 1 .. Len(proofs) /\ mark_burn_proof_complete(Oldest)
            BY <2>1, InHand DEF MarkComplete, Busy
        <3> QED BY <3>1, MarkedRow
    <2>2. CASE ~ MarkComplete
        <3>1. proofs' = proofs
            BY <2>2 DEF WorkerRound, WorkerKilled, process_pending_proofs,
               get_kernel_merkle_proof, NoMerkleProof, write_proof_file, WriteFails,
               MarkFails, table
        <3> QED BY <3>1 DEF TypeOK
    <2> QED BY <2>1, <2>2
<1>3. files' \in [Calls -> Nat] /\ torn' \subseteq Calls
    <2>1. worker.todo # {} => Current \in Calls
        BY InHand
    <2>2. CASE write_proof_file
        BY <2>1, <2>2 DEF write_proof_file, Busy, TypeOK
    <2>3. CASE WriteFails
        BY <2>1, <2>3 DEF WriteFails, Busy, TypeOK
    <2>4. CASE WorkerKilled
        BY <2>1, <2>4 DEF WorkerKilled, TypeOK
    <2>5. CASE WorkerRound /\ ~ write_proof_file /\ ~ WriteFails
        BY <2>5 DEF WorkerRound, process_pending_proofs, get_kernel_merkle_proof,
           NoMerkleProof, MarkComplete, MarkFails, disk, TypeOK
    <2> QED BY <2>2, <2>3, <2>4, <2>5
<1>4. worker' \in [todo : SUBSET Nat, step : {"ask", "write", "mark"}, block : Nat]
    <2>1. CASE process_pending_proofs
        BY <2>1 DEF process_pending_proofs, get_pending_burn_proofs, Resting, TypeOK
    <2>2. CASE get_kernel_merkle_proof
        <3>1. PICK h \in 1 .. Len(chain) : Current \in bodies[chain[h]]
            BY <2>2, Mined DEF get_kernel_merkle_proof
        <3>2. HeightOf(Current) \in 1 .. Len(chain)
            BY <3>1 DEF HeightOf, Tip
        <3>3. chain[HeightOf(Current)] \in Nat
            BY <3>2 DEF TypeOK
        <3> QED BY <2>2, <3>3 DEF get_kernel_merkle_proof, Writing, TypeOK
    <2>3. CASE GiveUp
        BY <2>3 DEF GiveUp, Resting, RestOfRound, TypeOK
    <2>4. CASE write_proof_file
        BY <2>4 DEF write_proof_file, TypeOK
    <2>5. CASE WorkerKilled
        BY <2>5 DEF WorkerKilled, Resting
    <2> QED BY <2>1, <2>2, <2>3, <2>4, <2>5 DEF WorkerRound, NoMerkleProof, WriteFails,
            MarkComplete, MarkFails
<1> QED BY <1>1, <1>2, <1>3, <1>4 DEF TypeOK

(* A block more, on top of the first h blocks of the chain.                *)
LEMMA NewBlock ==
    ASSUME TypeOK, ChainIsKnown, NodeStep
    PROVE  /\ bodies' \in Seq(SUBSET Calls) /\ chain' \in Seq(Nat) /\ mempool' \subseteq mempool
           /\ Len(bodies') \in Nat /\ Len(bodies) <= Len(bodies')
           /\ \A b \in 1 .. Len(bodies) : bodies'[b] = bodies[b]
           /\ ChainIsKnown'
<1>1. Len(bodies) \in Nat /\ Len(chain) \in Nat
    BY DEF TypeOK
<1>2. ASSUME NEW h \in 0 .. Len(chain), NEW body \in Bodies(h, mempool),
             bodies' = Append(bodies, body), mempool' = mempool,
             chain' = Append(SubSeq(chain, 1, h), Len(bodies) + 1)
      PROVE  /\ bodies' \in Seq(SUBSET Calls) /\ chain' \in Seq(Nat) /\ mempool' \subseteq mempool
             /\ Len(bodies') \in Nat /\ Len(bodies) <= Len(bodies')
             /\ \A b \in 1 .. Len(bodies) : bodies'[b] = bodies[b]
             /\ ChainIsKnown'
    <2>1. body \subseteq mempool /\ body \in SUBSET Calls
        BY <1>2 DEF Bodies, TypeOK
    <2>2. /\ bodies' \in Seq(SUBSET Calls) /\ Len(bodies') = Len(bodies) + 1
          /\ \A b \in 1 .. Len(bodies) : bodies'[b] = bodies[b]
          /\ bodies'[Len(bodies) + 1] = body
        BY <1>1, <1>2, <2>1 DEF TypeOK
    <2>3. /\ chain' \in Seq(Nat) /\ Len(chain') = h + 1
          /\ \A k \in 1 .. h : chain'[k] = chain[k]
          /\ chain'[h + 1] = Len(bodies) + 1
        <3> DEFINE prefix == SubSeq(chain, 1, h)
        <3>1. prefix \in Seq(Nat) /\ Len(prefix) = h /\ \A k \in 1 .. h : prefix[k] = chain[k]
            BY <1>1 DEF TypeOK
        <3>2. chain' = Append(prefix, Len(bodies) + 1)
            BY <1>2
        <3> HIDE DEF prefix
        <3> QED BY <1>1, <3>1, <3>2
    <2>4. ASSUME NEW k \in 1 .. Len(chain')
          PROVE  chain'[k] \in 1 .. Len(bodies') /\ bodies'[chain'[k]] \subseteq mempool'
        <3>1. CASE k = h + 1
            BY <1>1, <1>2, <2>1, <2>2, <2>3, <3>1
        <3>2. CASE k \in 1 .. h
            <4>1. k \in 1 .. Len(chain) /\ chain'[k] = chain[k]
                BY <1>1, <2>3, <3>2
            <4>2. chain[k] \in 1 .. Len(bodies) /\ bodies[chain[k]] \subseteq mempool
                BY <4>1 DEF ChainIsKnown
            <4> QED BY <1>1, <1>2, <2>2, <4>1, <4>2
        <3> QED BY <2>3, <3>1, <3>2
    <2>5. ChainIsKnown'
        BY <2>4 DEF ChainIsKnown
    <2> QED BY <1>1, <1>2, <2>2, <2>3, <2>5
<1>3. CASE \E body \in Bodies(Tip, mempool) : Mine(body)
    <2>1. PICK body \in Bodies(Tip, mempool) : Mine(body)
        BY <1>3
    <2>2. SubSeq(chain, 1, Len(chain)) = chain
        BY DEF TypeOK
    <2> QED BY <1>1, <1>2, <2>1, <2>2, SMTT(30) DEF Mine, Tip
<1>4. CASE \E h \in 0 .. Tip - 1 : \E body \in Bodies(h, mempool) : Reorganise(h, body)
    <2>1. PICK h \in 0 .. Tip - 1 : \E body \in Bodies(h, mempool) : Reorganise(h, body)
        BY <1>4
    <2>2. PICK body \in Bodies(h, mempool) : Reorganise(h, body)
        BY <2>1
    <2>3. h \in 0 .. Len(chain)
        BY <1>1, <2>1 DEF Tip
    <2> QED BY <1>2, <2>2, <2>3 DEF Reorganise
<1>5. CASE \E c \in mempool : ~ OnChain(c) /\ mempool' = mempool \ {c} /\ UNCHANGED <<chain, bodies>>
    <2>1. PICK c \in mempool : ~ OnChain(c) /\ mempool' = mempool \ {c} /\ UNCHANGED <<chain, bodies>>
        BY <1>5
    <2>2. \A h \in 1 .. Len(chain) : c \notin bodies[chain[h]]
        BY <2>1, Mined
    <2> QED BY <1>1, <2>1, <2>2 DEF TypeOK, ChainIsKnown
<1> QED BY <1>3, <1>4, <1>5 DEF NodeStep

(* Every step keeps the types.                                             *)
LEMMA NextTypeOK ==
    ASSUME IInv, Next
    PROVE  TypeOK'
<1>1. CASE \E c \in Calls : CallStep(c) \/ MonitorRebroadcast(c)
    BY <1>1, TypeOfCalls DEF IInv
<1>2. CASE \E k \in Keys : ExpireRow(k)
    BY <1>2 DEF IInv, TypeOK, ExpireRow, unlock_outputs_for_request, node, calls, disk
<1>3. CASE WorkerRound \/ WorkerKilled
    BY <1>3, TypeOfWorker DEF IInv
<1>4. CASE NodeStep
    <2>1. bodies' \in Seq(SUBSET Calls) /\ chain' \in Seq(Nat) /\ mempool' \subseteq mempool
        BY <1>4, NewBlock DEF IInv
    <2> QED BY <1>4, <2>1 DEF NodeStep, calls, table, disk, IInv, TypeOK
<1> QED BY <1>1, <1>2, <1>3, <1>4 DEF Next

-----------------------------------------------------------------------------
(* The rows of burn_proofs.                                                *)

(* Which calls have a row changes with insert_burn_proof only.             *)
LEMMA RowsKept ==
    ASSUME TypeOK, Len(proofs') = Len(proofs),
           \A i \in 1 .. Len(proofs) : proofs'[i].call = proofs[i].call
    PROVE  /\ \A c : HasRow(c)' <=> HasRow(c)
           /\ OneRowPerCall => OneRowPerCall'
BY DEF HasRow, OneRowPerCall

(* No other step of a call or of the monitor touches the table, and none   *)
(* leads nearer to a submission without the row.                           *)
LEMMA RowsOfCalls ==
    ASSUME IInv, NEW c \in Calls, CallStep(c) \/ MonitorRebroadcast(c)
    PROVE  RowsComeFirst' /\ OneRowPerCall'
<1> USE DEF TypeOK, CallSteps, IInv
<1>1. CASE InsertProof(c)
    <2>1. insert_burn_proof(c) /\ pc[c] = "insert" /\ pc' = [pc EXCEPT ![c] = "complete"]
          /\ rows' = rows /\ mempool' = mempool
        BY <1>1 DEF InsertProof, Goto, node
    <2>2. /\ Len(proofs) \in Nat /\ Len(proofs') = Len(proofs) + 1
          /\ \A i \in 1 .. Len(proofs) : proofs'[i] = proofs[i]
          /\ proofs'[Len(proofs) + 1].call = c
        BY <2>1, InsertedRow
    <2>3. ASSUME NEW d PROVE HasRow(d)' <=> HasRow(d) \/ d = c
        <3>1. HasRow(d)' <=> \E i \in 1 .. Len(proofs) + 1 : proofs'[i].call = d
            BY <2>2 DEF HasRow
        <3>2. \A i : i \in 1 .. Len(proofs) + 1 <=> i \in 1 .. Len(proofs) \/ i = Len(proofs) + 1
            BY <2>2
        <3> QED BY <2>2, <3>1, <3>2 DEF HasRow
    <2>4. RowsComeFirst'
        BY <2>1, <2>3 DEF RowsComeFirst, Recorded
    <2>5. ~ HasRow(c)
        BY <2>1 DEF RowsComeFirst
    <2>6. OneRowPerCall'
        <3> SUFFICES ASSUME NEW i \in 1 .. Len(proofs) + 1, NEW j \in 1 .. Len(proofs) + 1,
                            proofs'[i].call = proofs'[j].call
                     PROVE  i = j
            BY <2>2 DEF OneRowPerCall
        <3>1. \A k \in 1 .. Len(proofs) : proofs'[k].call # c
            BY <2>2, <2>5 DEF HasRow
        <3>2. CASE i \in 1 .. Len(proofs) /\ j \in 1 .. Len(proofs)
            BY <2>2, <3>2 DEF OneRowPerCall
        <3>3. CASE i = Len(proofs) + 1 \/ j = Len(proofs) + 1
            BY <2>2, <3>1, <3>3
        <3> QED BY <2>2, <3>2, <3>3
    <2> QED BY <2>4, <2>6
<1>2. CASE ~ InsertProof(c)
    <2>1. proofs' = proofs
        BY <1>2 DEF CallStep, FindLock, SelectCoin, CommitLock, FindPendingRow,
           UpdatePending, create_completed_transaction, SubmitBurn, MarkBroadcast, CallEnds,
           MonitorRebroadcast, table
    <2>2. (\A d : HasRow(d)' <=> HasRow(d)) /\ OneRowPerCall'
        BY <2>1, RowsKept
    <2>3. CASE FindLock(c)
        <3>1. /\ pc[c] = "find" /\ rows' = rows /\ mempool' = mempool
              /\ \E l \in {"select", "insert", "over"} : pc' = [pc EXCEPT ![c] = l]
            BY <2>3 DEF FindLock, Goto, Built, node, table
        <3> QED BY <2>2, <3>1 DEF RowsComeFirst, Recorded
    <2>4. CASE SelectCoin(c)
        <3>1. /\ pc[c] = "select" /\ rows' = rows /\ mempool' = mempool
              /\ \E l \in {"commit", "over"} : pc' = [pc EXCEPT ![c] = l]
            BY <2>4 DEF SelectCoin, Goto, node, table
        <3> QED BY <2>2, <3>1 DEF RowsComeFirst, Recorded
    <2>5. CASE CommitLock(c)
        <3>1. /\ pc[c] = "commit" /\ rows' = rows /\ mempool' = mempool
              /\ \E l \in {"insert", "over"} : pc' = [pc EXCEPT ![c] = l]
            BY <2>5 DEF CommitLock, Goto, Built, node
        <3> QED BY <2>2, <3>1 DEF RowsComeFirst, Recorded
    <2>6. CASE FindPendingRow(c) \/ UpdatePending(c) \/ create_completed_transaction(c)
        <3>1. /\ pc[c] \in {"complete", "update", "record"} /\ mempool' = mempool
              /\ \E l \in {"update", "record", "submit"} : pc' = [pc EXCEPT ![c] = l]
              /\ rows' = rows \/ rows' = [rows EXCEPT ![c] = "Completed"]
            BY <2>6 DEF FindPendingRow, UpdatePending, create_completed_transaction, Goto,
               node, table
        <3> QED BY <2>2, <3>1 DEF RowsComeFirst, Recorded
    <2>7. CASE SubmitBurn(c)
        <3>1. /\ pc[c] = "submit" /\ rows' = rows /\ mempool' \subseteq mempool \cup {c}
              /\ \E l \in {"mark", "over"} : pc' = [pc EXCEPT ![c] = l]
            BY <2>7 DEF SubmitBurn, Accept, Goto, node, table
        <3> QED BY <2>2, <3>1 DEF RowsComeFirst, Recorded
    <2>8. CASE MarkBroadcast(c)
        <3>1. /\ pc[c] = "mark" /\ mempool' = mempool /\ pc' = [pc EXCEPT ![c] = "over"]
              /\ \A d \in Calls : d # c => rows'[d] = rows[d]
            BY <2>8 DEF MarkBroadcast, Goto, node
        <3> QED BY <2>2, <3>1 DEF RowsComeFirst, Recorded
    <2>9. CASE CallEnds(c)
        BY <2>2, <2>9 DEF CallEnds, Goto, node, table, RowsComeFirst, Recorded
    <2>10. CASE MonitorRebroadcast(c)
        <3>1. /\ rows[c] = "Completed" /\ pc' = pc /\ mempool' \subseteq mempool \cup {c}
              /\ \A d \in Calls : d # c => rows'[d] = rows[d]
            BY <2>10 DEF MonitorRebroadcast, Accept, calls, node
        <3> QED BY <2>2, <3>1 DEF RowsComeFirst, Recorded
    <2> QED BY <1>2, <2>2, <2>3, <2>4, <2>5, <2>6, <2>7, <2>8, <2>9, <2>10 DEF CallStep
<1> QED BY <1>1, <1>2

(* Every step keeps what is said about the rows.                           *)
LEMMA NextRows ==
    ASSUME IInv, Next
    PROVE  RowsComeFirst' /\ OneRowPerCall'
<1>1. CASE \E c \in Calls : CallStep(c) \/ MonitorRebroadcast(c)
    BY <1>1, RowsOfCalls
<1>2. CASE \E k \in Keys : ExpireRow(k)
    BY <1>2, RowsKept DEF ExpireRow, calls, node, IInv, RowsComeFirst, Recorded
<1>3. CASE WorkerRound \/ WorkerKilled
    <2>1. pc' = pc /\ rows' = rows /\ mempool' = mempool
        BY <1>3 DEF WorkerRound, WorkerKilled, process_pending_proofs, get_kernel_merkle_proof,
           NoMerkleProof, write_proof_file, WriteFails, MarkComplete, MarkFails, node, calls, table
    <2>2. Len(proofs') = Len(proofs) /\ \A i \in 1 .. Len(proofs) : proofs'[i].call = proofs[i].call
        <3>1. CASE MarkComplete
            <4>1. Oldest \in 1 .. Len(proofs) /\ mark_burn_proof_complete(Oldest)
                BY <3>1, InHand DEF MarkComplete, Busy, IInv
            <4> QED BY <4>1, MarkedRow DEF IInv
        <3>2. CASE ~ MarkComplete
            BY <1>3, <3>2 DEF WorkerRound, WorkerKilled, process_pending_proofs,
               get_kernel_merkle_proof, NoMerkleProof, write_proof_file, WriteFails,
               MarkFails, table
        <3> QED BY <3>1, <3>2
    <2> QED BY <2>1, <2>2, RowsKept DEF IInv, RowsComeFirst, Recorded
<1>4. CASE NodeStep
    <2>1. mempool' \subseteq mempool
        BY <1>4, NewBlock DEF IInv
    <2>2. pc' = pc /\ rows' = rows /\ proofs' = proofs
        BY <1>4 DEF NodeStep, calls, table
    <2> QED BY <2>1, <2>2, RowsKept DEF IInv, RowsComeFirst, Recorded
<1> QED BY <1>1, <1>2, <1>3, <1>4 DEF Next

-----------------------------------------------------------------------------
(* The proof files and the round of the worker.                            *)

(* What GiveUp leaves of the round.                                        *)
LEMMA RoundAfter ==
    ASSUME TypeOK, RoundIsSound, GiveUp
    PROVE  /\ worker'.todo = worker.todo \ {Oldest}
           /\ worker'.step = "ask"
BY DEF GiveUp, Resting, RestOfRound, Oldest

(* A step of a call, of the unlocker or of the monitor may add a row, and  *)
(* leaves the files, the blocks and the round alone.                       *)
LEMMA FilesBesideWorker ==
    ASSUME IInv, TypeOK', files' = files, torn' = torn, bodies' = bodies, worker' = worker,
           proofs' = proofs \/ \E c \in Calls : insert_burn_proof(c)
    PROVE  FilesAreReal' /\ RoundIsSound' /\ CompleteRows'
<1>1. CASE proofs' = proofs
    BY <1>1 DEF IInv, FilesAreReal, RoundIsSound, CompleteRows, Held, Current, Oldest
<1>2. ASSUME NEW c \in Calls, insert_burn_proof(c)
      PROVE  FilesAreReal' /\ RoundIsSound' /\ CompleteRows'
    <2>1. /\ Len(proofs) \in Nat /\ Len(proofs') = Len(proofs) + 1
          /\ \A i \in 1 .. Len(proofs) : proofs'[i] = proofs[i]
          /\ proofs'[Len(proofs) + 1].status = "pending_merkle"
        BY <1>2, InsertedRow DEF IInv
    <2>2. FilesAreReal'
        BY DEF IInv, FilesAreReal, Held
    <2>3. RoundIsSound'
        <3>1. worker.todo # {} => Oldest \in 1 .. Len(proofs)
            BY InHand DEF IInv
        <3>2. worker.todo # {} => Current' = Current
            BY <2>1, <3>1 DEF Current, Oldest
        <3>3. \A i \in worker.todo : i \in 1 .. Len(proofs') /\ proofs'[i].status = "pending_merkle"
            BY <2>1 DEF IInv, RoundIsSound
        <3> QED BY <3>2, <3>3 DEF IInv, RoundIsSound, Held
    <2>4. CompleteRows'
        <3> SUFFICES ASSUME NEW i \in 1 .. Len(proofs) + 1, proofs'[i].status = "complete"
                     PROVE  proofs'[i].call \notin torn /\ files[proofs'[i].call] # 0
            BY <2>1 DEF CompleteRows
        <3>1. i \in 1 .. Len(proofs)
            BY <2>1
        <3> QED BY <2>1, <3>1 DEF IInv, CompleteRows
    <2> QED BY <2>2, <2>3, <2>4
<1> QED BY <1>1, <1>2

(* A proof file that is cut short belongs to the row in hand, which is not *)
(* complete, and no other row has the same call.                           *)
LEMMA TornIsPending ==
    ASSUME IInv, worker.todo # {}, NEW i \in 1 .. Len(proofs), proofs[i].status = "complete"
    PROVE  proofs[i].call # Current
<1>1. Oldest \in 1 .. Len(proofs) /\ proofs[Oldest].status = "pending_merkle"
    BY InHand DEF IInv
<1> QED BY <1>1 DEF IInv, OneRowPerCall, Current

(* The worker writes the file before it marks the row, and takes the rows  *)
(* in hand one at a time.                                                  *)
LEMMA FilesOfWorker ==
    ASSUME IInv, WorkerRound \/ WorkerKilled
    PROVE  FilesAreReal' /\ RoundIsSound' /\ CompleteRows'
<1>1. bodies' = bodies
    BY DEF WorkerRound, WorkerKilled, process_pending_proofs, get_kernel_merkle_proof,
       NoMerkleProof, write_proof_file, WriteFails, MarkComplete, MarkFails, node
<1>2. CASE process_pending_proofs
    <2>1. /\ files' = files /\ torn' = torn /\ proofs' = proofs
          /\ worker'.todo = get_pending_burn_proofs /\ worker'.step = "ask"
        BY <1>2 DEF process_pending_proofs, Resting, table, disk
    <2>2. RoundIsSound'
        BY <2>1 DEF RoundIsSound, get_pending_burn_proofs
    <2> QED BY <1>1, <2>1, <2>2 DEF IInv, FilesAreReal, CompleteRows, Held
<1>3. CASE get_kernel_merkle_proof
    <2>1. /\ files' = files /\ torn' = torn /\ proofs' = proofs /\ worker.todo # {}
          /\ OnChain(Current)
          /\ worker' = [worker EXCEPT !.step = "write", !.block = chain[HeightOf(Current)]]
        BY <1>3 DEF get_kernel_merkle_proof, Busy, Writing, table, disk
    <2>2. PICK h \in 1 .. Len(chain) : Current \in bodies[chain[h]]
        BY <2>1, Mined
    <2>3. HeightOf(Current) \in 1 .. Len(chain) /\ Current \in bodies[chain[HeightOf(Current)]]
        BY <2>2 DEF HeightOf, Tip
    <2>4. Held(Current, chain[HeightOf(Current)])
        BY <2>3 DEF Held, IInv, ChainIsKnown
    <2>5. worker'.todo = worker.todo /\ worker'.step = "write"
          /\ worker'.block = chain[HeightOf(Current)]
        BY <2>1 DEF IInv, TypeOK
    <2>6. Current' = Current
        BY <2>1, <2>5 DEF Current, Oldest
    <2>7. RoundIsSound'
        BY <1>1, <2>1, <2>4, <2>5, <2>6 DEF RoundIsSound, Held, IInv
    <2> QED BY <1>1, <2>1, <2>7 DEF IInv, FilesAreReal, CompleteRows, Held
<1>4. CASE NoMerkleProof \/ MarkFails
    <2>1. files' = files /\ torn' = torn /\ proofs' = proofs /\ GiveUp
        BY <1>4 DEF NoMerkleProof, MarkFails, table, disk
    <2>2. worker'.todo \subseteq worker.todo /\ worker'.step = "ask"
        BY <2>1, RoundAfter DEF IInv
    <2> QED BY <1>1, <2>1, <2>2 DEF IInv, FilesAreReal, CompleteRows, RoundIsSound, Held
<1>5. CASE write_proof_file
    <2>1. /\ worker.todo # {} /\ worker.step = "write" /\ proofs' = proofs
          /\ files' = [files EXCEPT ![Current] = worker.block] /\ torn' = torn \ {Current}
          /\ worker' = [worker EXCEPT !.step = "mark"]
        BY <1>5 DEF write_proof_file, Busy, table
    <2>2. Held(Current, worker.block) /\ Current \in Calls
        BY <2>1, InHand DEF IInv, RoundIsSound
    <2>3. worker'.todo = worker.todo /\ worker'.step = "mark" /\ worker'.block = worker.block
        BY <2>1 DEF IInv, TypeOK
    <2>4. Current' = Current
        BY <2>1, <2>3 DEF Current, Oldest
    <2>5. /\ files'[Current] = worker.block
          /\ \A c \in Calls : c # Current => files'[c] = files[c]
        BY <2>1, <2>2 DEF IInv, TypeOK
    <2>6. FilesAreReal'
        BY <1>1, <2>2, <2>5 DEF FilesAreReal, Held, IInv
    <2>7. worker.block # 0
        BY <2>2 DEF Held, IInv, TypeOK
    <2>8. RoundIsSound'
        BY <1>1, <2>1, <2>2, <2>3, <2>4, <2>5, <2>7 DEF RoundIsSound, Held, IInv
    <2>9. CompleteRows'
        <3> SUFFICES ASSUME NEW i \in 1 .. Len(proofs), proofs[i].status = "complete"
                     PROVE  proofs[i].call \notin torn' /\ files'[proofs[i].call] # 0
            BY <2>1 DEF CompleteRows
        <3>1. proofs[i].call \in Calls
            <4>1. proofs[i] \in ProofRows
                BY DEF IInv, TypeOK
            <4> QED BY <4>1 DEF ProofRows
        <3>2. proofs[i].call \notin torn /\ files[proofs[i].call] # 0
            BY DEF IInv, CompleteRows
        <3> QED BY <2>1, <2>5, <2>7, <3>1, <3>2
    <2> QED BY <2>6, <2>8, <2>9
<1>6. CASE WriteFails \/ WorkerKilled
    <2>1. /\ worker.todo # {} /\ files' = files /\ proofs' = proofs
          /\ torn' \subseteq torn \cup {Current}
        BY <1>6 DEF WriteFails, WorkerKilled, Busy, table
    <2>2. worker'.todo \subseteq worker.todo /\ worker'.step = "ask"
        BY <1>6, RoundAfter DEF WriteFails, WorkerKilled, Resting, IInv
    <2>3. RoundIsSound'
        BY <2>1, <2>2 DEF RoundIsSound, IInv
    <2>4. CompleteRows'
        BY <2>1, TornIsPending DEF CompleteRows, IInv
    <2> QED BY <1>1, <2>1, <2>3, <2>4 DEF FilesAreReal, Held, IInv
<1>7. CASE MarkComplete
    <2>1. /\ worker.todo # {} /\ worker.step = "mark" /\ files' = files /\ torn' = torn
          /\ mark_burn_proof_complete(Oldest) /\ GiveUp
        BY <1>7 DEF MarkComplete, Busy, disk
    <2>2. Oldest \in 1 .. Len(proofs)
        BY <2>1, InHand DEF IInv
    <2>3. /\ Len(proofs) \in Nat /\ Len(proofs') = Len(proofs)
          /\ \A j \in 1 .. Len(proofs) :
                /\ proofs'[j].call = proofs[j].call
                /\ j # Oldest => proofs'[j].status = proofs[j].status
        BY <2>1, <2>2, MarkedRow DEF IInv
    <2>4. worker'.todo = worker.todo \ {Oldest} /\ worker'.step = "ask"
        BY <2>1, RoundAfter DEF IInv
    <2>5. RoundIsSound'
        BY <2>3, <2>4 DEF RoundIsSound, IInv
    <2>6. Current \notin torn /\ files[Current] # 0
        BY <2>1 DEF RoundIsSound, IInv
    <2>7. CompleteRows'
        BY <2>1, <2>2, <2>3, <2>6 DEF CompleteRows, Current, IInv
    <2> QED BY <1>1, <2>1, <2>5, <2>7 DEF FilesAreReal, Held, IInv
<1> QED BY <1>2, <1>3, <1>4, <1>5, <1>6, <1>7 DEF WorkerRound

(* Every step keeps what is said about files and the round.                *)
LEMMA NextFiles ==
    ASSUME IInv, TypeOK', Next
    PROVE  FilesAreReal' /\ RoundIsSound' /\ CompleteRows'
<1>1. CASE \E c \in Calls : CallStep(c) \/ MonitorRebroadcast(c)
    <2>1. PICK c \in Calls : CallStep(c) \/ MonitorRebroadcast(c)
        BY <1>1
    <2>2. files' = files /\ torn' = torn /\ bodies' = bodies /\ worker' = worker
        BY <2>1 DEF CallStep, FindLock, SelectCoin, CommitLock, InsertProof, FindPendingRow,
           UpdatePending, create_completed_transaction, SubmitBurn, MarkBroadcast, CallEnds,
           MonitorRebroadcast, Accept, node, disk
    <2>3. proofs' = proofs \/ insert_burn_proof(c)
        BY <2>1 DEF CallStep, FindLock, SelectCoin, CommitLock, InsertProof, FindPendingRow,
           UpdatePending, create_completed_transaction, SubmitBurn, MarkBroadcast, CallEnds,
           MonitorRebroadcast, table
    <2> QED BY <2>2, <2>3, FilesBesideWorker
<1>2. CASE \E k \in Keys : ExpireRow(k)
    BY <1>2, FilesBesideWorker DEF ExpireRow, node, disk
<1>3. CASE WorkerRound \/ WorkerKilled
    BY <1>3, FilesOfWorker
<1>4. CASE NodeStep
    <2>1. files' = files /\ torn' = torn /\ worker' = worker /\ proofs' = proofs
        BY <1>4 DEF NodeStep, table, disk
    <2>2. /\ Len(bodies) \in Nat /\ Len(bodies') \in Nat /\ Len(bodies) <= Len(bodies')
          /\ \A b \in 1 .. Len(bodies) : bodies'[b] = bodies[b]
        BY <1>4, NewBlock DEF IInv, TypeOK
    <2>3. \A c, b : Held(c, b) => Held(c, b)'
        BY <2>2 DEF Held
    <2>4. Current' = Current
        BY <2>1 DEF Current, Oldest
    <2>5. FilesAreReal' /\ CompleteRows'
        BY <2>1, <2>3 DEF FilesAreReal, CompleteRows, IInv
    <2> QED BY <2>1, <2>3, <2>4, <2>5 DEF RoundIsSound, IInv
<1> QED BY <1>1, <1>2, <1>3, <1>4 DEF Next

-----------------------------------------------------------------------------
(* One coin for one key.                                                   *)

(* Steps that make no transaction, choose no coin and lock none.           *)
LEMMA CoinsKept ==
    ASSUME OneCoinPerKey, key' = key,
           \A c \in Calls : HasTx(c)' => HasTx(c) /\ spend'[c] = spend[c],
           \A k \in Keys : pending'[k] = "none" <=> pending[k] = "none",
           \A k \in Keys : LockedFunds(k)' \subseteq LockedFunds(k)
    PROVE  OneCoinPerKey'
<1> SUFFICES ASSUME NEW k \in Keys
             PROVE  \/ /\ pending'[k] = "none"
                       /\ LockedFunds(k)' = {}
                       /\ \A c \in Calls : key[c] = k => ~ HasTx(c)'
                    \/ /\ pending'[k] # "none"
                       /\ \E x \in Coins :
                            /\ LockedFunds(k)' \subseteq {x}
                            /\ \A c \in Calls : key[c] = k /\ HasTx(c)' => spend'[c] = {x}
    BY DEF OneCoinPerKey
<1>1. CASE pending[k] = "none"
    <2>1. LockedFunds(k) = {} /\ \A c \in Calls : key[c] = k => ~ HasTx(c)
        BY <1>1 DEF OneCoinPerKey
    <2>2. LockedFunds(k)' = {}
        BY <2>1
    <2> QED BY <1>1, <2>1, <2>2
<1>2. CASE pending[k] # "none"
    <2>1. PICK x \in Coins : /\ LockedFunds(k) \subseteq {x}
                             /\ \A c \in Calls : key[c] = k /\ HasTx(c) => spend[c] = {x}
        BY <1>2 DEF OneCoinPerKey
    <2>2. LockedFunds(k)' \subseteq {x}
        BY <2>1
    <2>3. \A c \in Calls : key[c] = k /\ HasTx(c)' => spend'[c] = {x}
        BY <2>1
    <2> QED BY <1>2, <2>2, <2>3
<1> QED BY <1>1, <1>2

(* Before the row is stored there is no transaction.                       *)
LEMMA NoTxYet ==
    ASSUME IInv, NEW c \in Calls, pc[c] \in {"find", "select", "commit"}
    PROVE  ~ HasTx(c) /\ c \notin mempool
BY DEF IInv, RowsComeFirst, HasTx, Recorded

(* A key that is found again gives the coin its row still locks.           *)
LEMMA CoinsOfFindLock ==
    ASSUME IInv, NEW c \in Calls, FindLock(c)
    PROVE  OneCoinPerKey' /\ SelectedOne' /\ PoolIsConsistent'
<1> USE DEF IInv
<1>1. /\ pc[c] = "find" /\ key' = key /\ pending' = pending /\ lockedBy' = lockedBy
      /\ rows' = rows /\ mempool' = mempool
    BY DEF FindLock, node, table
<1>2. ~ HasTx(c) /\ c \notin mempool
    BY <1>1, NoTxYet
<1>3. /\ \E l \in {"select", "insert", "over"} : pc' = [pc EXCEPT ![c] = l]
      /\ \A d \in Calls : d # c => spend'[d] = spend[d]
    BY DEF FindLock, Goto, Built, TypeOK
<1>4. SelectedOne' /\ PoolIsConsistent'
    <2>1. \A d \in mempool : d \in Calls /\ d # c /\ spend'[d] = spend[d]
        BY <1>2, <1>3 DEF TypeOK
    <2>2. PoolIsConsistent'
        BY <1>1, <2>1 DEF PoolIsConsistent
    <2>3. SelectedOne'
        <3>1. \A d \in Calls : pc'[d] = "commit" => d # c /\ pc[d] = "commit"
            BY <1>3 DEF TypeOK
        <3> QED BY <1>3, <3>1 DEF SelectedOne
    <2> QED BY <2>2, <2>3
<1>5. \A k \in Keys : LockedFunds(k)' = LockedFunds(k)
    BY <1>1 DEF LockedFunds
<1>6. \A d \in Calls : d # c => (HasTx(d)' <=> HasTx(d))
    BY <1>1, <1>3 DEF HasTx, Recorded, TypeOK
<1>7. CASE pc'[c] # "insert"
    <2>1. ~ HasTx(c)'
        BY <1>1, <1>2, <1>3, <1>7 DEF HasTx, Recorded, TypeOK
    <2> QED BY <1>1, <1>3, <1>4, <1>5, <1>6, <2>1, CoinsKept
<1>8. CASE pc'[c] = "insert"
    <2>1. IsPending(key[c]) /\ LockedFunds(key[c]) # {} /\ spend'[c] = LockedFunds(key[c])
        BY <1>1, <1>8 DEF FindLock, Goto, Built, TypeOK
    <2>2. ASSUME NEW k \in Keys
          PROVE  \/ /\ pending'[k] = "none"
                    /\ LockedFunds(k)' = {}
                    /\ \A d \in Calls : key'[d] = k => ~ HasTx(d)'
                 \/ /\ pending'[k] # "none"
                    /\ \E x \in Coins :
                         /\ LockedFunds(k)' \subseteq {x}
                         /\ \A d \in Calls : key'[d] = k /\ HasTx(d)' => spend'[d] = {x}
        <3>1. CASE pending[k] = "none"
            <4>1. key[c] # k
                BY <2>1, <3>1 DEF IsPending
            <4> QED BY <1>1, <1>5, <1>6, <3>1, <4>1 DEF OneCoinPerKey
        <3>2. CASE pending[k] # "none"
            <4>1. PICK x \in Coins : /\ LockedFunds(k) \subseteq {x}
                                     /\ \A d \in Calls : key[d] = k /\ HasTx(d) => spend[d] = {x}
                BY <3>2 DEF OneCoinPerKey
            <4>2. key[c] = k => spend'[c] = {x}
                BY <2>1, <4>1
            <4>3. \A d \in Calls : key'[d] = k /\ HasTx(d)' => spend'[d] = {x}
                BY <1>1, <1>3, <1>6, <4>1, <4>2
            <4> QED BY <1>1, <1>5, <3>2, <4>1, <4>3
        <3> QED BY <3>1, <3>2
    <2> QED BY <1>4, <2>2 DEF OneCoinPerKey
<1> QED BY <1>7, <1>8

(* Selection chooses one coin, for a transaction that is not there yet.    *)
LEMMA CoinsOfSelectCoin ==
    ASSUME IInv, NEW c \in Calls, SelectCoin(c)
    PROVE  OneCoinPerKey' /\ SelectedOne' /\ PoolIsConsistent'
<1> USE DEF IInv
<1>1. /\ pc[c] = "select" /\ key' = key /\ pending' = pending /\ lockedBy' = lockedBy
      /\ rows' = rows /\ mempool' = mempool
    BY DEF SelectCoin, node, table
<1>2. ~ HasTx(c) /\ c \notin mempool
    BY <1>1, NoTxYet
<1> DEFINE free == {x \in Coins : lockedBy[x] = "none"}
<1>3. CASE free = {}
    <2>1. pc' = [pc EXCEPT ![c] = "over"] /\ spend' = spend
        BY <1>3 DEF SelectCoin, Goto
    <2>2. \A d \in Calls : HasTx(d)' => HasTx(d)
        BY <1>1, <1>2, <2>1 DEF HasTx, Recorded, TypeOK
    <2>3. OneCoinPerKey'
        BY <1>1, <2>1, <2>2, CoinsKept DEF LockedFunds
    <2> QED BY <1>1, <2>1, <2>3 DEF SelectedOne, PoolIsConsistent, TypeOK
<1>4. CASE free # {}
    <2> DEFINE x == CHOOSE y \in free : TRUE
    <2>1. x \in Coins
        BY <1>4
    <2>2. pc' = [pc EXCEPT ![c] = "commit"] /\ spend' = [spend EXCEPT ![c] = {x}]
        BY <1>4 DEF SelectCoin, Goto
    <2> HIDE DEF x, free
    <2>3. pc'[c] = "commit" /\ spend'[c] = {x}
          /\ \A d \in Calls : d # c => pc'[d] = pc[d] /\ spend'[d] = spend[d]
        BY <2>1, <2>2 DEF TypeOK
    <2>4. \A d \in Calls : HasTx(d)' => HasTx(d) /\ spend'[d] = spend[d]
        BY <1>1, <1>2, <2>3 DEF HasTx, Recorded
    <2>5. OneCoinPerKey'
        BY <1>1, <2>4, CoinsKept DEF LockedFunds
    <2>6. SelectedOne' /\ PoolIsConsistent'
        <3>1. \A d \in mempool : d \in Calls /\ d # c /\ spend'[d] = spend[d]
            BY <1>2, <2>3 DEF TypeOK
        <3>2. PoolIsConsistent'
            BY <1>1, <3>1 DEF PoolIsConsistent
        <3>3. SelectedOne'
            BY <2>1, <2>3 DEF SelectedOne
        <3> QED BY <3>2, <3>3
    <2> QED BY <2>5, <2>6
<1> QED BY <1>3, <1>4

(* The lock takes the selected coin for a key without a row.               *)
LEMMA CoinsOfCommitLock ==
    ASSUME IInv, NEW c \in Calls, CommitLock(c)
    PROVE  OneCoinPerKey' /\ SelectedOne' /\ PoolIsConsistent'
<1> USE DEF IInv
<1>1. /\ pc[c] = "commit" /\ key' = key /\ spend' = spend /\ rows' = rows /\ mempool' = mempool
      /\ key[c] \in Keys
    BY DEF CommitLock, node, TypeOK
<1>2. ~ HasTx(c)
    BY <1>1, NoTxYet
<1>3. CASE pending[key[c]] # "none"
    <2>1. pc' = [pc EXCEPT ![c] = "over"] /\ pending' = pending /\ lockedBy' = lockedBy
        BY <1>3 DEF CommitLock, Goto
    <2>2. \A d \in Calls : HasTx(d)' => HasTx(d)
        BY <1>1, <1>2, <2>1 DEF HasTx, Recorded, TypeOK
    <2>3. OneCoinPerKey'
        BY <1>1, <2>1, <2>2, CoinsKept DEF LockedFunds
    <2> QED BY <1>1, <2>1, <2>3 DEF SelectedOne, PoolIsConsistent, TypeOK
<1>4. CASE pending[key[c]] = "none"
    <2>1. /\ pc' = [pc EXCEPT ![c] = "insert"]
          /\ pending' = [pending EXCEPT ![key[c]] = "PENDING"]
          /\ lockedBy' = [x \in Coins |-> IF x \in spend[c] /\ lockedBy[x] = "none"
                                            THEN key[c] ELSE lockedBy[x]]
        BY <1>4 DEF CommitLock, Goto, Built
    <2>2. PICK x \in Coins : spend[c] = {x}
        BY <1>1 DEF SelectedOne
    <2>3. LockedFunds(key[c]) = {} /\ \A d \in Calls : key[d] = key[c] => ~ HasTx(d)
        BY <1>1, <1>4 DEF OneCoinPerKey
    <2>4. \A d \in Calls : d # c => (HasTx(d)' <=> HasTx(d))
        BY <1>1, <2>1 DEF HasTx, Recorded, TypeOK
    <2>5. LockedFunds(key[c])' \subseteq {x}
        <3> SUFFICES ASSUME NEW y \in Coins, lockedBy'[y] = key[c] PROVE y = x
            BY <1>1 DEF LockedFunds
        <3>1. lockedBy[y] # key[c]
            BY <2>3 DEF LockedFunds
        <3> QED BY <2>1, <2>2, <3>1
    <2>6. ASSUME NEW k \in Keys, k # key[c] PROVE LockedFunds(k)' = LockedFunds(k)
        <3>1. k # "none"
            BY BurnConstants
        <3>2. \A y \in Coins : lockedBy'[y] = k <=> lockedBy[y] = k
            BY <2>1, <2>6, <3>1
        <3> QED BY <3>2 DEF LockedFunds
    <2>7. ASSUME NEW k \in Keys
          PROVE  \/ /\ pending'[k] = "none"
                    /\ LockedFunds(k)' = {}
                    /\ \A d \in Calls : key'[d] = k => ~ HasTx(d)'
                 \/ /\ pending'[k] # "none"
                    /\ \E z \in Coins :
                         /\ LockedFunds(k)' \subseteq {z}
                         /\ \A d \in Calls : key'[d] = k /\ HasTx(d)' => spend'[d] = {z}
        <3>1. CASE k = key[c]
            <4>1. pending'[k] # "none"
                BY <2>1, <3>1 DEF TypeOK
            <4>2. \A d \in Calls : key'[d] = k /\ HasTx(d)' => spend'[d] = {x}
                BY <1>1, <2>2, <2>3, <2>4, <3>1
            <4>3. LockedFunds(k)' \subseteq {x}
                BY <1>1, <2>5, <3>1
            <4> QED BY <4>1, <4>2, <4>3
        <3>2. CASE k # key[c]
            <4>1. pending'[k] = pending[k]
                BY <2>1, <3>2 DEF TypeOK
            <4>2. \A d \in Calls : key'[d] = k => d # c
                BY <1>1, <3>2
            <4>3. CASE pending[k] = "none"
                BY <1>1, <2>4, <2>6, <3>2, <4>1, <4>2, <4>3 DEF OneCoinPerKey
            <4>4. CASE pending[k] # "none"
                <5>1. PICK z \in Coins : /\ LockedFunds(k) \subseteq {z}
                                         /\ \A d \in Calls : key[d] = k /\ HasTx(d) => spend[d] = {z}
                    BY <4>4 DEF OneCoinPerKey
                <5>2. \A d \in Calls : key'[d] = k /\ HasTx(d)' => spend'[d] = {z}
                    BY <1>1, <2>4, <4>2, <5>1
                <5>3. LockedFunds(k)' \subseteq {z}
                    BY <2>6, <3>2, <5>1
                <5> QED BY <4>1, <4>4, <5>2, <5>3
            <4> QED BY <4>3, <4>4
        <3> QED BY <3>1, <3>2
    <2>8. OneCoinPerKey'
        BY <2>7 DEF OneCoinPerKey
    <2> QED BY <1>1, <2>1, <2>8 DEF SelectedOne, PoolIsConsistent, TypeOK
<1> QED BY <1>3, <1>4

(* The node takes in no transaction that spends what one it holds spends.  *)
LEMMA PoolAfterAccept ==
    ASSUME IInv, NEW c \in Calls, Welcome(c) /\ Accept(c), spend' = spend
    PROVE  PoolIsConsistent'
<1>1. mempool' = mempool \cup {c} /\ \A d \in mempool \ {c} : spend[c] \cap spend[d] = {}
    BY DEF Accept, Welcome
<1>2. \A d, e \in mempool : d # e => spend[d] \cap spend[e] = {}
    BY DEF IInv, PoolIsConsistent
<1>3. ASSUME NEW d \in mempool \cup {c}, NEW e \in mempool \cup {c}, d # e
      PROVE  spend[d] \cap spend[e] = {}
    <2>1. CASE d = c
        BY <1>1, <1>3, <2>1
    <2>2. CASE e = c
        BY <1>1, <1>3, <2>2
    <2>3. CASE d # c /\ e # c
        BY <1>2, <1>3, <2>3
    <2> QED BY <2>1, <2>2, <2>3
<1> QED BY <1>1, <1>3 DEF PoolIsConsistent

(* Once its coin is chosen a call keeps it, whatever becomes of the lock.  *)
LEMMA CoinsOfOtherCalls ==
    ASSUME IInv, NEW c \in Calls,
           \/ InsertProof(c) \/ FindPendingRow(c) \/ UpdatePending(c)
           \/ create_completed_transaction(c) \/ SubmitBurn(c)
           \/ MarkBroadcast(c) \/ CallEnds(c) \/ MonitorRebroadcast(c)
    PROVE  OneCoinPerKey' /\ SelectedOne' /\ PoolIsConsistent'
<1> USE DEF IInv, TypeOK
<1>1. key' = key /\ spend' = spend
    BY DEF InsertProof, FindPendingRow, UpdatePending, create_completed_transaction,
       SubmitBurn, MarkBroadcast, CallEnds, MonitorRebroadcast, calls
<1>2. (Welcome(c) /\ Accept(c)) \/ mempool' = mempool
    BY DEF InsertProof, FindPendingRow, UpdatePending, create_completed_transaction,
       SubmitBurn, MarkBroadcast, CallEnds, MonitorRebroadcast, node
<1>3. PoolIsConsistent'
    <2>1. CASE mempool' = mempool
        BY <1>1, <2>1 DEF PoolIsConsistent
    <2> QED BY <1>1, <1>2, <2>1, PoolAfterAccept
<1>4. \E l \in {"complete", "update", "record", "submit", "mark", "over"} :
            pc' = pc \/ pc' = [pc EXCEPT ![c] = l]
    BY DEF InsertProof, FindPendingRow, UpdatePending, create_completed_transaction,
       SubmitBurn, MarkBroadcast, CallEnds, MonitorRebroadcast, calls, Goto
<1>5. SelectedOne'
    BY <1>1, <1>4 DEF SelectedOne
<1>6. \A k \in Keys : LockedFunds(k)' \subseteq LockedFunds(k)
    <2>1. CASE lockedBy' = lockedBy
        BY <2>1 DEF LockedFunds
    <2>2. CASE unlock_outputs_for_request(key[c])
        <3>1. \A k \in Keys : k # "none"
            BY BurnConstants
        <3> QED BY <2>2, <3>1 DEF LockedFunds, unlock_outputs_for_request
    <2> QED BY <2>1, <2>2 DEF InsertProof, FindPendingRow, UpdatePending,
            create_completed_transaction, SubmitBurn, MarkBroadcast, CallEnds,
            MonitorRebroadcast, table
<1>7. \A k \in Keys : pending'[k] = "none" <=> pending[k] = "none"
    <2>1. CASE pending' = pending
        BY <2>1
    <2>2. CASE pc[c] = "update" /\ pending' = [pending EXCEPT ![key[c]] = "COMPLETED"]
        <3>1. key[c] \in Keys /\ HasTx(c)
            BY <2>2 DEF HasTx, Recorded
        <3>2. pending[key[c]] # "none"
            BY <3>1 DEF OneCoinPerKey
        <3> QED BY <2>2, <3>1, <3>2
    <2> QED BY <2>1, <2>2 DEF InsertProof, FindPendingRow, UpdatePending,
            create_completed_transaction, SubmitBurn, MarkBroadcast, CallEnds,
            MonitorRebroadcast, table
<1>8. \A d \in Calls : HasTx(d)' => HasTx(d)
    <2>1. ASSUME NEW d \in Calls, d # c PROVE HasTx(d)' => HasTx(d)
        <3>1. pc'[d] = pc[d]
            BY <1>4, <2>1
        <3>2. d \in mempool' => d \in mempool
            BY <1>2, <2>1 DEF Accept
        <3>3. rows'[d] = rows[d]
            BY <2>1 DEF InsertProof, FindPendingRow, UpdatePending,
               create_completed_transaction, SubmitBurn, MarkBroadcast, CallEnds,
               MonitorRebroadcast, table
        <3> QED BY <3>1, <3>2, <3>3 DEF HasTx, Recorded
    <2>2. CASE ~ CallEnds(c)
        <3>1. HasTx(c)
            BY <2>2 DEF InsertProof, FindPendingRow, UpdatePending,
               create_completed_transaction, SubmitBurn, MarkBroadcast, MonitorRebroadcast,
               HasTx, Recorded
        <3> QED BY <2>1, <3>1
    <2>3. CASE CallEnds(c)
        <3>1. pc'[c] = "over" /\ rows' = rows /\ mempool' = mempool
            BY <2>3 DEF CallEnds, Goto, node, table
        <3> QED BY <2>1, <3>1 DEF HasTx, Recorded
    <2> QED BY <2>2, <2>3
<1> QED BY <1>1, <1>3, <1>5, <1>6, <1>7, <1>8, CoinsKept

(* Every step keeps what is said about coins, and what is mined in the     *)
(* pool.                                                                   *)
LEMMA NextCoins ==
    ASSUME IInv, Next
    PROVE  OneCoinPerKey' /\ SelectedOne' /\ PoolIsConsistent' /\ ChainIsKnown'
<1>1. ASSUME NEW c \in Calls, CallStep(c) \/ MonitorRebroadcast(c)
      PROVE  OneCoinPerKey' /\ SelectedOne' /\ PoolIsConsistent' /\ ChainIsKnown'
    <2>1. OneCoinPerKey' /\ SelectedOne' /\ PoolIsConsistent'
        BY <1>1, CoinsOfFindLock, CoinsOfSelectCoin, CoinsOfCommitLock, CoinsOfOtherCalls
        DEF CallStep
    <2>2. chain' = chain /\ bodies' = bodies /\ mempool \subseteq mempool'
        BY <1>1 DEF CallStep, FindLock, SelectCoin, CommitLock, InsertProof, FindPendingRow,
           UpdatePending, create_completed_transaction, SubmitBurn, MarkBroadcast, CallEnds,
           MonitorRebroadcast, Accept, node
    <2> QED BY <2>1, <2>2 DEF IInv, ChainIsKnown
<1>2. ASSUME NEW k \in Keys, ExpireRow(k)
      PROVE  OneCoinPerKey' /\ SelectedOne' /\ PoolIsConsistent' /\ ChainIsKnown'
    <2>1. /\ pending[k] # "none" /\ pending' = [pending EXCEPT ![k] = "EXPIRED"]
          /\ unlock_outputs_for_request(k)
          /\ key' = key /\ pc' = pc /\ spend' = spend /\ rows' = rows
          /\ chain' = chain /\ bodies' = bodies /\ mempool' = mempool
        BY <1>2 DEF ExpireRow, calls, node
    <2>2. \A q \in Keys : LockedFunds(q)' \subseteq LockedFunds(q)
        <3>1. \A q \in Keys : q # "none"
            BY BurnConstants
        <3> QED BY <2>1, <3>1 DEF LockedFunds, unlock_outputs_for_request
    <2>3. \A q \in Keys : pending'[q] = "none" <=> pending[q] = "none"
        BY <2>1 DEF IInv, TypeOK
    <2>4. \A c \in Calls : HasTx(c)' => HasTx(c)
        BY <2>1 DEF HasTx, Recorded
    <2>5. OneCoinPerKey'
        BY <2>1, <2>2, <2>3, <2>4, CoinsKept DEF IInv
    <2> QED BY <2>1, <2>5 DEF IInv, SelectedOne, PoolIsConsistent, ChainIsKnown
<1>3. CASE WorkerRound \/ WorkerKilled
    <2>1. /\ key' = key /\ pc' = pc /\ spend' = spend /\ pending' = pending
          /\ lockedBy' = lockedBy /\ rows' = rows
          /\ chain' = chain /\ bodies' = bodies /\ mempool' = mempool
        BY <1>3 DEF WorkerRound, WorkerKilled, process_pending_proofs, get_kernel_merkle_proof,
           NoMerkleProof, write_proof_file, WriteFails, MarkComplete, MarkFails, node, calls, table
    <2>2. OneCoinPerKey'
        BY <2>1, CoinsKept DEF IInv, HasTx, Recorded, LockedFunds
    <2> QED BY <2>1, <2>2 DEF IInv, SelectedOne, PoolIsConsistent, ChainIsKnown
<1>4. CASE NodeStep
    <2>1. mempool' \subseteq mempool /\ ChainIsKnown'
        BY <1>4, NewBlock DEF IInv
    <2>2. /\ key' = key /\ pc' = pc /\ spend' = spend /\ pending' = pending
          /\ lockedBy' = lockedBy /\ rows' = rows
        BY <1>4 DEF NodeStep, calls, table
    <2>3. OneCoinPerKey'
        BY <2>1, <2>2, CoinsKept DEF IInv, HasTx, Recorded, LockedFunds
    <2> QED BY <2>1, <2>2, <2>3 DEF IInv, SelectedOne, PoolIsConsistent
<1> QED BY <1>1, <1>2, <1>3, <1>4 DEF Next

-----------------------------------------------------------------------------
(* The inductive invariant holds throughout.                               *)
THEOREM Invariance == Spec => []IInv
<1>1. Init => IInv
    <2> SUFFICES ASSUME Init PROVE IInv
        OBVIOUS
    <2>1. TypeOK
        BY BurnConstants DEF Init, NodeInit, TypeOK, CallSteps, Resting
    <2>2. RowsComeFirst /\ OneRowPerCall /\ ChainIsKnown /\ PoolIsConsistent
        BY DEF Init, NodeInit, RowsComeFirst, OneRowPerCall, ChainIsKnown, PoolIsConsistent,
           Recorded, HasRow
    <2>3. FilesAreReal /\ RoundIsSound /\ CompleteRows /\ SelectedOne
        BY DEF Init, Resting, FilesAreReal, RoundIsSound, CompleteRows, SelectedOne
    <2>4. \A k \in Keys : pending[k] = "none" /\ LockedFunds(k) = {}
        BY BurnConstants DEF Init, LockedFunds
    <2>5. \A c \in Calls : ~ HasTx(c)
        BY DEF Init, NodeInit, HasTx, Recorded
    <2>6. OneCoinPerKey
        BY <2>4, <2>5 DEF OneCoinPerKey
    <2> QED BY <2>1, <2>2, <2>3, <2>6 DEF IInv
<1>2. IInv /\ [Next]_vars => IInv'
    <2> SUFFICES ASSUME IInv, [Next]_vars PROVE IInv'
        OBVIOUS
    <2>1. CASE Next
        <3>1. TypeOK'
            BY <2>1, NextTypeOK
        <3> QED BY <2>1, <3>1, NextRows, NextFiles, NextCoins DEF IInv
    <2>2. CASE UNCHANGED vars
        <3>1. /\ key' = key /\ pc' = pc /\ spend' = spend /\ pending' = pending
              /\ lockedBy' = lockedBy /\ proofs' = proofs /\ rows' = rows /\ files' = files
              /\ torn' = torn /\ worker' = worker
              /\ chain' = chain /\ bodies' = bodies /\ mempool' = mempool
            BY <2>2 DEF vars, node, calls, table, disk
        <3>2. TypeOK' /\ RowsComeFirst' /\ OneRowPerCall' /\ ChainIsKnown'
            BY <3>1 DEF IInv, TypeOK, RowsComeFirst, OneRowPerCall, ChainIsKnown, HasRow, Recorded
        <3>3. FilesAreReal' /\ RoundIsSound' /\ CompleteRows'
            BY <3>1, <3>2, FilesBesideWorker
        <3>4. OneCoinPerKey'
            BY <3>1, CoinsKept DEF IInv, HasTx, Recorded, LockedFunds
        <3> QED BY <3>1, <3>2, <3>3, <3>4 DEF IInv, SelectedOne, PoolIsConsistent
    <2> QED BY <2>1, <2>2
<1> QED BY <1>1, <1>2, PTL DEF Spec

(* No call, table, file or round ever holds a value the code does not      *)
(* write.                                                                  *)
THEOREM TypeCorrect == Spec => []TypeOK
BY Invariance, PTL DEF IInv

(* persist_burn_records comes before the submission, for the calls and for *)
(* the monitor that submits again: a burn the node holds has its row.      *)
THEOREM NeverLost == Spec => []ProofIsNeverLost
<1>1. IInv => ProofIsNeverLost
    <2> SUFFICES ASSUME IInv, NEW c \in mempool \cup MinedIn(chain, Tip)
                 PROVE  \E i \in 1 .. Len(proofs) : proofs[i].call = c
        BY DEF ProofIsNeverLost
    <2>1. c \in mempool /\ c \in Calls
        BY MinedIsPooled DEF IInv, TypeOK
    <2> QED BY <2>1 DEF IInv, RowsComeFirst, Recorded, HasRow
<1> QED BY <1>1, Invariance, PTL

(* write_proof_file comes before mark_burn_proof_complete, and a complete  *)
(* row is never taken up again: its file stays whole.                      *)
THEOREM CompleteFile == Spec => []CompleteHasFile
<1>1. IInv => CompleteHasFile
    <2> SUFFICES ASSUME IInv, NEW i \in 1 .. Len(proofs), proofs[i].status = "complete"
                 PROVE  /\ proofs[i].call \notin torn /\ files[proofs[i].call] # 0
                        /\ proofs[i].call \in bodies[files[proofs[i].call]]
        BY DEF CompleteHasFile
    <2>1. proofs[i] \in ProofRows
        BY DEF IInv, TypeOK
    <2>2. proofs[i].call \in Calls
        BY <2>1 DEF ProofRows
    <2>3. proofs[i].call \notin torn /\ files[proofs[i].call] # 0
        BY DEF IInv, CompleteRows
    <2> QED BY <2>2, <2>3 DEF IInv, FilesAreReal, Held
<1> QED BY <1>1, Invariance, PTL

(* Two transactions for one key spend the same coin, so the node holds at  *)
(* most one of them, and mines at most one.                                *)
THEOREM BurnOnce == Spec => []OneBurnPerKey
<1>1. IInv => OneBurnPerKey
    <2> SUFFICES ASSUME IInv, NEW c \in MinedIn(chain, Tip), NEW d \in MinedIn(chain, Tip),
                        key[c] = key[d]
                 PROVE  c = d
        BY DEF OneBurnPerKey
    <2>1. c \in mempool /\ d \in mempool
        BY MinedIsPooled DEF IInv
    <2>2. c \in Calls /\ d \in Calls /\ HasTx(c) /\ HasTx(d) /\ key[c] \in Keys
        BY <2>1 DEF IInv, TypeOK, HasTx, Recorded
    <2>3. PICK x \in Coins : spend[c] = {x} /\ spend[d] = {x}
        BY <2>2 DEF IInv, OneCoinPerKey
    <2>4. spend[c] \cap spend[d] # {}
        BY <2>3
    <2> QED BY <2>1, <2>4 DEF IInv, PoolIsConsistent
<1> QED BY <1>1, Invariance, PTL
=============================================================================
