--------------------------- MODULE TxMonitorProofs ---------------------------
(***************************************************************************)
(* What TLAPS proves about TxMonitor, for any number of transactions,      *)
(* blocks and confirmations.                                               *)
(*                                                                         *)
(* The properties of TxMonitor are about rows that nobody has in hand.     *)
(* The invariant says what is true while somebody has: how far the pass of *)
(* the monitor may be behind the row it works on, and which step of which  *)
(* of the two writers still owes the release of the inputs or the webhook. *)
(***************************************************************************)
EXTENDS TxMonitor, WellFoundedInduction, FiniteSetTheorems, TLAPS

-----------------------------------------------------------------------------
(* A set of numbers that is not empty has a smallest member ...            *)
LEMMA Smallest ==
    ASSUME NEW T \in SUBSET Nat, T # {}
    PROVE  Min(T) \in T /\ \A y \in T : Min(T) <= y
<1>1. IsWellFoundedOn(OpToRel(<, Nat), Nat)
    BY NatLessThanWellFounded
<1>2. PICK x \in T : \A y \in T : ~ (<<y, x>> \in OpToRel(<, Nat))
    BY <1>1, WFMin
<1>3. \A y \in T : x <= y
    <2>1. ASSUME NEW y \in T PROVE ~ (y < x)
        BY <1>2 DEF OpToRel
    <2> QED BY <2>1
<1> QED BY <1>3 DEF Min

(* ... and, when it is bounded, a largest one.                             *)
LEMMA Largest ==
    ASSUME NEW N \in Nat, NEW T \in SUBSET (0 .. N), T # {}
    PROVE  Max(T) \in T /\ \A y \in T : y <= Max(T)
<1> DEFINE D == {N - x : x \in T}
<1>1. D \in SUBSET Nat /\ D # {}
    <2>1. \A x \in T : N - x \in Nat
        OBVIOUS
    <2>2. PICK x \in T : TRUE
        OBVIOUS
    <2>3. N - x \in D
        BY <2>2
    <2> QED BY <2>1, <2>3
<1>2. Min(D) \in D /\ \A y \in D : Min(D) <= y
    BY <1>1, Smallest
<1>3. PICK x \in T : Min(D) = N - x
    BY <1>2
<1>4. ASSUME NEW y \in T PROVE x >= y
    <2>1. N - y \in D
        OBVIOUS
    <2>2. N - x <= N - y
        BY <1>2, <1>3, <2>1
    <2>3. x \in Nat /\ y \in Nat
        OBVIOUS
    <2> HIDE DEF D
    <2> QED BY <2>2, <2>3
<1> QED BY <1>4 DEF Max

-----------------------------------------------------------------------------
USE DEF losses

Statuses == {"Completed", "Broadcast", "MinedUnconfirmed", "MinedConfirmed", "Rejected"}

Mined == {"MinedUnconfirmed", "MinedConfirmed"}

Rows == [status : Statuses, attempts : Nat, mined : Nat, hash : Nat, payref : Nat]

Copies == [tx : Txs, row : Rows]

Passes ==
    [step : {"idle", "ask", "mark", "unlock", "event"}, height : Nat, queue : SUBSET Copies,
     status : Statuses, found : Nat \X Nat, initial : Nat, terminal : Nat]

TypeOK ==
    /\ chain \in Seq(Nat \ {0}) /\ bodies \in Seq(SUBSET Txs) /\ mempool \subseteq Txs
    /\ rows \in [DOMAIN rows -> Rows] /\ DOMAIN rows \subseteq Txs
    /\ locked \subseteq Txs
    /\ history \subseteq Txs \X Nat
    /\ sender \in [Txs -> {"new", "recorded", "unlock", "done"} \cup Answers]
    /\ tips \in Seq(Nat \ {0})
    /\ flag \in BOOLEAN
    /\ pass \in Passes
    /\ told \in [Txs -> Statuses \cup {"none"}]
    /\ failed \subseteq Txs /\ unreleased \subseteq Txs /\ untold \subseteq Txs
    /\ shown \subseteq Txs \X Nat

(* A mined row has its height, its block and, once it is confirmed, its    *)
(* payment reference; a transaction has no row before it is recorded.      *)
RowsAreSound ==
    \A t \in DOMAIN rows :
        /\ sender[t] # "new"
        /\ rows[t].status \in Mined => rows[t].mined # 0
        /\ rows[t].status = "MinedUnconfirmed" => rows[t].hash # 0
        /\ rows[t].status = "MinedConfirmed" => rows[t].payref # 0

(* A pass has one copy of a row.  While it is in the pass nobody puts the  *)
(* row back, and nobody confirms it but the pass, so a mined copy is of a  *)
(* row that has a height, and a row still to be worked on has not been     *)
(* confirmed.                                                              *)
CopiesAreSound ==
    /\ pass.step = "idle" <=> pass.queue = {}
    /\ \A i, j \in pass.queue : i.tx = j.tx => i = j
    /\ \A i \in pass.queue :
          /\ i.tx \in DOMAIN rows
          /\ i.row.status \in DOMAIN Turn
          /\ i.row.status = "MinedUnconfirmed" => i.row.hash # 0 /\ rows[i.tx].mined # 0
          /\ i # Item \/ pass.step \in {"ask", "mark"} => rows[i.tx].status # "MinedConfirmed"

(* What the monitor does to a row in a status.                             *)
Moves ==
    {<<"Completed", "Broadcast">>, <<"Completed", "Rejected">>,
     <<"Broadcast", "MinedUnconfirmed">>, <<"MinedUnconfirmed", "MinedConfirmed">>}

(* What the pass is about to write follows from its copy; what it has      *)
(* written is still there, or a sender has put the row out of the chain.   *)
StepIsSound ==
    /\ pass.step = "mark" =>
          /\ <<Item.row.status, pass.status>> \in Moves
          /\ pass.status = "MinedUnconfirmed" => pass.found[1] # 0 /\ pass.found[2] # 0
    /\ pass.step = "unlock" => pass.status = "Rejected"
    /\ pass.step \in {"unlock", "event"} /\ rows[Item.tx].status \in Mined =>
          rows[Item.tx].status = pass.status

(* Who owes the release of the inputs of a rejected transaction ...        *)
LocksAreOwed ==
    \A t \in DOMAIN rows :
        rows[t].status = "Rejected" /\ t \in locked =>
            \/ sender[t] = "unlock"
            \/ t \in unreleased
            \/ pass.step = "unlock" /\ Item.tx = t

(* ... and the webhook of a mined one.                                     *)
WebhooksAreOwed ==
    \A t \in DOMAIN rows :
        rows[t].status \in Mined /\ told[t] # rows[t].status =>
            t \in untold \/ (pass.step = "event" /\ Item.tx = t)

(* A payment reference that was shown is that of a confirmed row, which    *)
(* nobody writes, or it has been saved.                                    *)
ShownIsKept ==
    \A x \in shown :
        \/ x \in history
        \/ /\ x[1] \in DOMAIN rows /\ sender[x[1]] = "done"
           /\ rows[x[1]].status = "MinedConfirmed" /\ rows[x[1]].payref = x[2]

IInv ==
    /\ TypeOK
    /\ RowsAreSound
    /\ CopiesAreSound
    /\ StepIsSound
    /\ LocksAreOwed
    /\ WebhooksAreOwed
    /\ ShownIsKept
-----------------------------------------------------------------------------
(* Lemmas about the operators                                              *)

(* The order of the statuses in a pass.                                    *)
LEMMA Turns ==
    /\ DOMAIN Turn = {"Completed", "Broadcast", "MinedUnconfirmed"}
    /\ Turn["Completed"] = 1 /\ Turn["Broadcast"] = 2 /\ Turn["MinedUnconfirmed"] = 3
BY DEF Turn

(* A pass that is under way has an item.                                   *)
LEMMA ItemIsQueued ==
    ASSUME CopiesAreSound, pass.step # "idle"
    PROVE  Item \in pass.queue
<1>1. /\ pass.queue # {}
      /\ \A i \in pass.queue : i.row.status \in {"Completed", "Broadcast", "MinedUnconfirmed"}
    BY Turns DEF CopiesAreSound
<1>2. \E i \in pass.queue : \A j \in pass.queue : Turn[i.row.status] <= Turn[j.row.status]
    <2>1. CASE \E i \in pass.queue : i.row.status = "Completed"
        BY <1>1, <2>1, Turns
    <2>2. CASE /\ ~ \E i \in pass.queue : i.row.status = "Completed"
               /\ \E i \in pass.queue : i.row.status = "Broadcast"
        BY <1>1, <2>2, Turns
    <2>3. CASE ~ \E i \in pass.queue : i.row.status \in {"Completed", "Broadcast"}
        BY <1>1, <2>3, Turns
    <2> QED BY <2>1, <2>2, <2>3
<1> QED BY <1>2 DEF Item

(* The item of a pass depends on its queue only.                           *)
LEMMA SameItem ==
    ASSUME pass'.queue = pass.queue
    PROVE  Item' = Item
BY DEF Item

(* The updates of a row.                                                   *)
LEMMA RowUpdates ==
    ASSUME NEW row \in Rows, NEW n \in Nat, NEW h \in Nat
    PROVE  /\ create_completed_transaction \in Rows
           /\ create_completed_transaction.status = "Completed"
           /\ mark_completed_transaction_as_broadcasted(row, n) \in Rows
           /\ mark_completed_transaction_as_broadcasted(row, n).status = "Broadcast"
           /\ mark_completed_transaction_as_broadcasted(row, n).mined = row.mined
           /\ mark_completed_transaction_as_mined_unconfirmed(row, n, h) \in Rows
           /\ mark_completed_transaction_as_mined_unconfirmed(row, n, h).status = "MinedUnconfirmed"
           /\ mark_completed_transaction_as_mined_unconfirmed(row, n, h).mined = n
           /\ mark_completed_transaction_as_mined_unconfirmed(row, n, h).hash = h
           /\ mark_completed_transaction_as_confirmed(row, n) \in Rows
           /\ mark_completed_transaction_as_confirmed(row, n).status = "MinedConfirmed"
           /\ mark_completed_transaction_as_confirmed(row, n).mined = row.mined
           /\ mark_completed_transaction_as_confirmed(row, n).payref = n
           /\ mark_completed_transaction_as_rejected(row) \in Rows
           /\ mark_completed_transaction_as_rejected(row).status = "Rejected"
           /\ mark_completed_transaction_as_rejected(row).mined = row.mined
           /\ reset_mined(row) \in Rows
           /\ reset_mined(row).status = "Completed"
BY DEF Rows, Statuses, create_completed_transaction, mark_completed_transaction_as_broadcasted,
       mark_completed_transaction_as_mined_unconfirmed, mark_completed_transaction_as_confirmed,
       mark_completed_transaction_as_rejected, reset_mined

(* What a write shows, and that it forgets nothing.                        *)
LEMMA Shows ==
    ASSUME NEW r, Write(r), r \in [DOMAIN r -> Rows], DOMAIN r \subseteq Txs, shown \subseteq Txs \X Nat
    PROVE  /\ rows' = r
           /\ shown' \subseteq Txs \X Nat
           /\ \A x \in shown' :
                 \/ x \in shown
                 \/ /\ x[1] \in DOMAIN r /\ r[x[1]].status = "MinedConfirmed"
                    /\ sender[x[1]] = "done" /\ r[x[1]].payref = x[2]
<1>1. ASSUME NEW x \in shown', x \notin shown
      PROVE  /\ x \in Txs \X Nat
             /\ x[1] \in DOMAIN r /\ r[x[1]].status = "MinedConfirmed"
             /\ sender[x[1]] = "done" /\ r[x[1]].payref = x[2]
    <2>1. PICK t \in DOMAIN r : /\ r[t].status = "MinedConfirmed" /\ sender[t] = "done"
                                /\ x = <<t, r[t].payref>>
        BY <1>1 DEF Write
    <2>2. r[t] \in Rows /\ t \in Txs
        OBVIOUS
    <2>3. r[t].payref \in Nat
        BY <2>2 DEF Rows
    <2>4. x[1] = t /\ x[2] = r[t].payref
        BY <2>1
    <2> QED BY <2>1, <2>2, <2>3, <2>4
<1>2. rows' = r
    BY DEF Write
<1> QED BY <1>1, <1>2

(* Where the node has a transaction that is on its chain.                  *)
LEMMA FoundOnChain ==
    ASSUME TypeOK, NEW t, NEW found \in find_kernel_on_chain(t)
    PROVE  found \in Nat \X Nat /\ found[1] # 0 /\ found[2] # 0
<1>1. OnChain(t) /\ found = <<HeightOf(t), chain[HeightOf(t)]>>
    BY DEF find_kernel_on_chain, transaction_query
<1>2. \E h \in 1 .. Tip : t \in bodies[chain[h]]
    BY <1>1 DEF OnChain, MinedIn
<1>3. HeightOf(t) \in 1 .. Tip
    BY <1>2 DEF HeightOf
<1>4. chain[HeightOf(t)] \in Nat \ {0} /\ HeightOf(t) \in Nat \ {0}
    BY <1>3 DEF TypeOK, Tip
<1> QED BY <1>1, <1>4
-----------------------------------------------------------------------------
(* Steps that write no row                                                 *)

(* A failure more excuses more, and changes nothing else.                  *)
LEMMA Beside ==
    ASSUME IInv, TypeOK',
           UNCHANGED <<rows, locked, history, sender, pass, told, unreleased, untold, shown>>
    PROVE  IInv'
<1>1. Item' = Item
    BY SameItem
<1>2. RowsAreSound' /\ ShownIsKept'
    BY DEF IInv, RowsAreSound, ShownIsKept
<1>3. CopiesAreSound' /\ StepIsSound'
    BY <1>1 DEF IInv, CopiesAreSound, StepIsSound
<1>4. LocksAreOwed' /\ WebhooksAreOwed'
    BY <1>1 DEF IInv, LocksAreOwed, WebhooksAreOwed
<1> QED BY <1>2, <1>3, <1>4 DEF IInv

(* What the chain does, the wallet learns only by asking.                  *)
LEMMA NodeKeeps ==
    ASSUME IInv, NodeStep
    PROVE  IInv'
<1>1. chain \in Seq(Nat \ {0}) /\ bodies \in Seq(SUBSET Txs) /\ mempool \subseteq Txs
    BY DEF IInv, TypeOK
<1>2. Len(bodies) + 1 \in Nat \ {0} /\ Len(chain) \in Nat
    BY <1>1
<1>3. ASSUME NEW h, NEW body \in Bodies(h, mempool)
      PROVE  Append(bodies, body) \in Seq(SUBSET Txs)
    <2>1. body \in SUBSET Txs
        BY <1>1 DEF Bodies
    <2> QED BY <1>1, <2>1
<1>4. /\ chain' \in Seq(Nat \ {0}) /\ bodies' \in Seq(SUBSET Txs) /\ mempool' = mempool
      /\ UNCHANGED <<table, history, sender, tips, flag, pass, told, ghost>>
    <2>1. CASE \E body \in Bodies(Tip, mempool) : Mine(body)
        BY <1>1, <1>2, <1>3, <2>1 DEF Mine, NodeStep
    <2>2. CASE \E h \in 0 .. Tip - 1 : \E body \in Bodies(h, mempool) : Reorganise(h, body)
        <3>1. PICK h \in 0 .. Tip - 1 : \E body \in Bodies(h, mempool) : Reorganise(h, body)
            BY <2>2
        <3>2. SubSeq(chain, 1, h) \in Seq(Nat \ {0})
            BY <1>1, <1>2 DEF Tip
        <3> QED BY <1>2, <1>3, <3>1, <3>2 DEF Reorganise, NodeStep
    <2> QED BY <2>1, <2>2 DEF NodeStep
<1>5. TypeOK'
    BY <1>4 DEF IInv, TypeOK, table, ghost
<1> QED BY <1>4, <1>5, Beside DEF table, ghost

(* What submit_transaction changes at the node.                            *)
LEMMA Submitted ==
    ASSUME TypeOK, NEW t \in Txs, NEW answer, SubmitTo(t, answer), Answered(t, answer)
    PROVE  /\ chain' = chain /\ bodies' = bodies /\ mempool' \subseteq Txs
           /\ failed' \subseteq Txs
BY DEF TypeOK, SubmitTo, Answered, Accept, node

(* The request of the sender leaves the row alone.                         *)
LEMMA SenderSubmitKeeps ==
    ASSUME IInv, NEW t \in Txs, NEW answer \in Answers, SenderSubmit(t, answer)
    PROVE  IInv'
<1>1. /\ chain' = chain /\ bodies' = bodies /\ mempool' \subseteq Txs
      /\ failed' \subseteq Txs
    BY Submitted DEF IInv, SenderSubmit
<1>2. /\ sender' = [sender EXCEPT ![t] = answer] /\ sender[t] = "recorded"
      /\ UNCHANGED <<rows, locked, history, tips, flag, pass, told, unreleased, untold, shown>>
    BY DEF SenderSubmit, table
<1>3. TypeOK'
    BY <1>1, <1>2 DEF IInv, TypeOK
<1>4. Item' = Item
    BY <1>2, SameItem
<1>5. answer # "new" /\ answer # "unlock" /\ answer # "done"
    BY DEF Answers
<1>6. RowsAreSound'
    BY <1>2, <1>5 DEF IInv, TypeOK, RowsAreSound
<1>7. ShownIsKept'
    <2>1. \A x \in shown : x[1] \in DOMAIN rows => x[1] \in Txs
        BY DEF IInv, TypeOK
    <2> QED BY <1>2, <2>1 DEF IInv, TypeOK, ShownIsKept
<1>8. CopiesAreSound' /\ StepIsSound'
    BY <1>2, <1>4 DEF IInv, CopiesAreSound, StepIsSound
<1>9. LocksAreOwed' /\ WebhooksAreOwed'
    BY <1>1, <1>2, <1>4 DEF IInv, TypeOK, LocksAreOwed, WebhooksAreOwed
<1> QED BY <1>3, <1>6, <1>7, <1>8, <1>9 DEF IInv

(* The sender gives the inputs back, or fails before it has.               *)
LEMMA SenderEnds ==
    ASSUME IInv, NEW t \in Txs, SenderUnlock(t) \/ SenderFails(t)
    PROVE  IInv'
<1>1. /\ sender' = [sender EXCEPT ![t] = "done"]
      /\ sender[t] # "new" /\ sender[t] # "done"
      /\ locked' \subseteq locked /\ failed' \subseteq Txs
      /\ unreleased \subseteq unreleased' /\ unreleased' \subseteq Txs
      /\ sender[t] = "unlock" => t \in unreleased' \/ t \notin locked'
      /\ UNCHANGED <<node, rows, history, tips, flag, pass, told, untold, shown>>
    BY DEF SenderUnlock, SenderFails, table, ghost, IInv, TypeOK
<1>2. TypeOK'
    BY <1>1 DEF IInv, TypeOK, node
<1>3. Item' = Item
    BY <1>1, SameItem
<1>4. RowsAreSound'
    BY <1>1 DEF IInv, TypeOK, RowsAreSound
<1>5. ShownIsKept'
    <2>1. \A x \in shown : x[1] \in DOMAIN rows => x[1] \in Txs
        BY DEF IInv, TypeOK
    <2> QED BY <1>1, <2>1 DEF IInv, TypeOK, ShownIsKept
<1>6. CopiesAreSound' /\ StepIsSound'
    BY <1>1, <1>3 DEF IInv, CopiesAreSound, StepIsSound
<1>7. LocksAreOwed' /\ WebhooksAreOwed'
    BY <1>1, <1>3 DEF IInv, TypeOK, LocksAreOwed, WebhooksAreOwed
<1> QED BY <1>2, <1>4, <1>5, <1>6, <1>7 DEF IInv

-----------------------------------------------------------------------------
(* The sender's writes                                                     *)

(* A new row is of no transaction that anybody has in hand.                *)
LEMMA RecordKeeps ==
    ASSUME IInv, NEW t \in Txs, Record(t)
    PROVE  IInv'
<1> DEFINE r == [u \in DOMAIN rows \cup {t} |->
                   IF u = t THEN create_completed_transaction ELSE rows[u]]
<1>1. t \notin DOMAIN rows
    BY DEF IInv, RowsAreSound, Record
<1>2. /\ DOMAIN r = DOMAIN rows \cup {t}
      /\ r[t] = create_completed_transaction
      /\ \A u \in DOMAIN rows : r[u] = rows[u]
      /\ r \in [DOMAIN r -> Rows] /\ DOMAIN r \subseteq Txs
    <2>2. create_completed_transaction \in Rows
        BY DEF create_completed_transaction, Rows, Statuses
    <2>3. /\ DOMAIN r = DOMAIN rows \cup {t} /\ r[t] = create_completed_transaction
          /\ \A u \in DOMAIN rows : r[u] = rows[u]
        BY <1>1
    <2>4. r \in [DOMAIN r -> Rows] /\ DOMAIN r \subseteq Txs
        BY <2>2, <2>3 DEF IInv, TypeOK
    <2> QED BY <2>3, <2>4
<1>3. Write(r)
    BY DEF Record
<1> HIDE DEF r
<1>4. /\ rows' = r /\ shown' \subseteq Txs \X Nat
      /\ \A x \in shown' :
            \/ x \in shown
            \/ /\ x[1] \in DOMAIN r /\ r[x[1]].status = "MinedConfirmed"
               /\ sender[x[1]] = "done" /\ r[x[1]].payref = x[2]
    BY <1>2, <1>3, Shows DEF IInv, TypeOK
<1>5. /\ sender[t] = "new" /\ sender' = [sender EXCEPT ![t] = "recorded"]
      /\ locked' = locked \cup {t}
      /\ UNCHANGED <<node, history, tips, flag, pass, told, losses>>
    BY DEF Record
<1>6. r[t].status = "Completed"
    BY <1>2 DEF create_completed_transaction
<1>7. TypeOK'
    BY <1>2, <1>4, <1>5 DEF IInv, TypeOK, node
<1>8. Item' = Item
    BY <1>5, SameItem
<1>9. RowsAreSound'
    BY <1>2, <1>4, <1>5, <1>6 DEF IInv, TypeOK, RowsAreSound, Mined
<1>10. CopiesAreSound'
    BY <1>2, <1>4, <1>5, <1>8 DEF IInv, CopiesAreSound
<1>11. StepIsSound'
    <2>1. CASE pass.step = "idle"
        BY <1>5, <2>1 DEF StepIsSound
    <2>2. CASE pass.step # "idle"
        <3>1. Item.tx \in DOMAIN rows
            BY <2>2, ItemIsQueued DEF IInv, CopiesAreSound
        <3> QED BY <1>2, <1>4, <1>5, <1>8, <3>1 DEF IInv, StepIsSound
    <2> QED BY <2>1, <2>2
<1>12. LocksAreOwed' /\ WebhooksAreOwed'
    BY <1>1, <1>2, <1>4, <1>5, <1>6, <1>8 DEF IInv, TypeOK, LocksAreOwed, WebhooksAreOwed, Mined
<1>13. ShownIsKept'
    <2> SUFFICES ASSUME NEW x \in shown'
                 PROVE  \/ x \in history
                        \/ /\ x[1] \in DOMAIN r /\ sender'[x[1]] = "done"
                           /\ r[x[1]].status = "MinedConfirmed" /\ r[x[1]].payref = x[2]
        BY <1>4, <1>5 DEF ShownIsKept
    <2>1. x[1] \in Txs
        BY <1>4
    <2> QED BY <1>2, <1>4, <1>5, <1>6, <2>1 DEF IInv, TypeOK, ShownIsKept
<1> QED BY <1>7, <1>9, <1>10, <1>11, <1>12, <1>13 DEF IInv

(* The sender takes the row off the chain, or leaves it as it is.          *)
LEMMA SenderMarkKeeps ==
    ASSUME IInv, NEW t \in Txs, SenderMark(t)
    PROVE  IInv'
<1>1. PICK r : r = CASE sender[t] = "accepted" ->
                          [rows EXCEPT ![t] = mark_completed_transaction_as_broadcasted(@, 1)]
                     [] sender[t] \in {"refused", "error"} ->
                          [rows EXCEPT ![t] = mark_completed_transaction_as_rejected(@)]
                     [] OTHER -> rows
    OBVIOUS
<1>2. /\ sender[t] \in Answers /\ Write(r)
      /\ sender' = [sender EXCEPT ![t] =
                      IF sender[t] \in {"refused", "error"} THEN "unlock" ELSE "done"]
      /\ UNCHANGED <<node, locked, history, tips, flag, pass, told, losses>>
    BY <1>1 DEF SenderMark
<1>3. rows \in [DOMAIN rows -> Rows] /\ DOMAIN rows \subseteq Txs
    BY DEF IInv, TypeOK
<1>4. /\ DOMAIN r = DOMAIN rows /\ r \in [DOMAIN r -> Rows]
      /\ \A u \in DOMAIN rows : u # t => r[u] = rows[u]
      /\ t \in DOMAIN rows =>
            /\ r[t].mined = rows[t].mined
            /\ \/ r[t] = rows[t] /\ sender[t] \notin {"refused", "error"}
               \/ r[t].status = "Broadcast"
               \/ r[t].status = "Rejected" /\ sender[t] \in {"refused", "error"}
    <2>1. CASE sender[t] = "accepted"
        <3>1. r = [rows EXCEPT ![t] = mark_completed_transaction_as_broadcasted(@, 1)]
            BY <1>1, <2>1
        <3>2. PICK e : e = mark_completed_transaction_as_broadcasted(rows[t], 1)
            OBVIOUS
        <3>3. t \in DOMAIN rows => e \in Rows /\ e.status = "Broadcast" /\ e.mined = rows[t].mined
            BY <1>3, <3>2 DEF mark_completed_transaction_as_broadcasted, Rows, Statuses
        <3>4. r = [rows EXCEPT ![t] = e]
            BY <3>1, <3>2
        <3> QED BY ONLY <1>3, <3>3, <3>4
    <2>2. CASE sender[t] \in {"refused", "error"}
        <3>1. r = [rows EXCEPT ![t] = mark_completed_transaction_as_rejected(@)]
            BY <1>1, <2>2
        <3>2. 1 \in Nat
            OBVIOUS
        <3> QED BY <1>3, <2>2, <3>1, <3>2, RowUpdates, ZenonT(30)
    <2>3. CASE sender[t] \notin {"accepted", "refused", "error"}
        <3>1. r = rows
            BY <1>1, <2>3
        <3> QED BY <1>3, <2>3, <3>1
    <2> QED BY <2>1, <2>2, <2>3
<1>5. sender[t] # "done" /\ sender[t] # "unlock" /\ sender[t] # "new"
    BY <1>2 DEF Answers
<1>6. /\ rows' = r /\ shown' \subseteq Txs \X Nat
      /\ \A x \in shown' :
            \/ x \in shown
            \/ /\ x[1] \in DOMAIN r /\ r[x[1]].status = "MinedConfirmed"
               /\ sender[x[1]] = "done" /\ r[x[1]].payref = x[2]
    BY <1>2, <1>3, <1>4, Shows DEF IInv, TypeOK
<1>7. TypeOK'
    BY <1>2, <1>3, <1>4, <1>6 DEF IInv, TypeOK, node
<1>8. Item' = Item
    BY <1>2, SameItem
<1>9. RowsAreSound'
    BY <1>2, <1>3, <1>4, <1>5, <1>6 DEF IInv, TypeOK, RowsAreSound, Mined
<1>10. CopiesAreSound'
    BY <1>2, <1>4, <1>6, <1>8 DEF IInv, CopiesAreSound
<1>11. StepIsSound'
    <2>1. CASE pass.step = "idle"
        BY <1>2, <2>1 DEF StepIsSound
    <2>2. CASE pass.step # "idle"
        <3>1. Item.tx \in DOMAIN rows
            BY <2>2, ItemIsQueued DEF IInv, CopiesAreSound
        <3> QED BY <1>2, <1>4, <1>6, <1>8, <3>1 DEF IInv, StepIsSound, Mined
    <2> QED BY <2>1, <2>2
<1>12. LocksAreOwed'
    BY <1>2, <1>3, <1>4, <1>5, <1>6, <1>8 DEF IInv, TypeOK, LocksAreOwed
<1>13. WebhooksAreOwed'
    BY <1>2, <1>3, <1>4, <1>6, <1>8 DEF IInv, TypeOK, WebhooksAreOwed, Mined
<1>14. ShownIsKept'
    <2> SUFFICES ASSUME NEW x \in shown'
                 PROVE  \/ x \in history
                        \/ /\ x[1] \in DOMAIN r /\ sender'[x[1]] = "done"
                           /\ r[x[1]].status = "MinedConfirmed" /\ r[x[1]].payref = x[2]
        BY <1>2, <1>6 DEF ShownIsKept
    <2>1. x[1] \in Txs
        BY <1>6
    <2>2. x[1] # t => sender'[x[1]] = sender[x[1]]
        BY <1>2, <2>1 DEF IInv, TypeOK
    <2> QED BY <1>4, <1>5, <1>6, <2>1, <2>2 DEF IInv, ShownIsKept
<1> QED BY <1>7, <1>9, <1>10, <1>11, <1>12, <1>13, <1>14 DEF IInv
-----------------------------------------------------------------------------
(* The scan cycle                                                          *)

(* The height a rollback starts from.                                      *)
LEMMA ReorgHeight ==
    ASSUME TypeOK
    PROVE  reorg_start_height \in Nat
<1>1. Len(tips) \in Nat /\ DOMAIN tips = 1 .. Len(tips)
    BY DEF TypeOK
<1>2. Agreeing \in SUBSET (0 .. Len(tips))
    BY <1>1 DEF Agreeing
<1>3. CASE Agreeing = {}
    BY <1>3 DEF reorg_start_height
<1>4. CASE Agreeing # {}
    <2>1. Max(Agreeing) \in Agreeing
        BY <1>1, <1>2, <1>4, Largest
    <2>2. \A m \in Agreeing : m \in Nat
        BY <1>1 DEF Agreeing
    <2>3. Max(Agreeing) \in Nat
        BY ONLY <2>1, <2>2
    <2> QED BY <1>4, <2>3 DEF reorg_start_height
<1> QED BY <1>3, <1>4

(* A rollback saves the payment references it clears.                      *)
LEMMA PrepareTargetKeeps ==
    ASSUME IInv, PrepareTarget
    PROVE  IInv'
<1>1. PICK h : h = reorg_start_height
    OBVIOUS
<1>2. h \in Nat
    BY <1>1, ReorgHeight DEF IInv
<1>3. PICK r : r = [t \in DOMAIN rows |->
                      IF t \in MinedFrom(rows, h) THEN reset_mined(rows[t]) ELSE rows[t]]
    OBVIOUS
<1>4. /\ pass.step = "idle"
      /\ UNCHANGED <<node, locked, sender, pass, told, losses>>
    BY DEF PrepareTarget
<1>5. CASE ~ (tips # <<>> /\ h <= Len(tips))
    <2>1. /\ flag' = (get_pending_completed_transactions(rows) # {})
          /\ UNCHANGED <<rows, shown, history, tips>>
        BY <1>1, <1>5 DEF PrepareTarget
    <2>2. flag' \in BOOLEAN
        BY <2>1
    <2>3. TypeOK'
        BY <1>4, <2>1, <2>2 DEF IInv, TypeOK, node
    <2> QED BY <1>4, <2>1, <2>3, Beside
<1>6. CASE tips # <<>> /\ h <= Len(tips)
    <2>1. /\ history' = history \cup SavedPayrefs(rows, h)
          /\ Write(r)
          /\ tips' = SubSeq(tips, 1, Monus(h, 1))
          /\ flag' = (get_pending_completed_transactions(r) # {})
        BY <1>1, <1>3, <1>6 DEF PrepareTarget
    <2>2. rows \in [DOMAIN rows -> Rows] /\ DOMAIN rows \subseteq Txs
        BY DEF IInv, TypeOK
    <2>3. MinedFrom(rows, h) \subseteq DOMAIN rows
        BY DEF MinedFrom
    <2>4. /\ DOMAIN r = DOMAIN rows /\ r \in [DOMAIN r -> Rows]
          /\ \A u \in DOMAIN rows : u \notin MinedFrom(rows, h) => r[u] = rows[u]
          /\ \A u \in MinedFrom(rows, h) : r[u].status = "Completed"
        <3>1. 1 \in Nat
            OBVIOUS
        <3>2. \A u \in DOMAIN rows :
                 reset_mined(rows[u]) \in Rows /\ reset_mined(rows[u]).status = "Completed"
            BY <2>2, <3>1, RowUpdates
        <3> QED BY <1>3, <2>2, <2>3, <3>2
    <2>5. /\ rows' = r /\ shown' \subseteq Txs \X Nat
          /\ \A x \in shown' :
                \/ x \in shown
                \/ /\ x[1] \in DOMAIN r /\ r[x[1]].status = "MinedConfirmed"
                   /\ sender[x[1]] = "done" /\ r[x[1]].payref = x[2]
        BY <2>1, <2>2, <2>4, Shows DEF IInv, TypeOK
    <2>6. SavedPayrefs(rows, h) \subseteq Txs \X Nat
        <3>1. \A u \in MinedFrom(rows, h) : u \in Txs /\ rows[u].payref \in Nat
            BY <2>2, <2>3 DEF Rows
        <3> QED BY <3>1 DEF SavedPayrefs
    <2>7. tips' \in Seq(Nat \ {0})
        <3>1. Monus(h, 1) \in 0 .. Len(tips)
            BY <1>2, <1>6 DEF Monus, IInv, TypeOK
        <3> QED BY <2>1, <3>1 DEF IInv, TypeOK
    <2>8. flag' \in BOOLEAN
        BY <2>1
    <2>9. TypeOK'
        BY <1>4, <2>1, <2>2, <2>4, <2>5, <2>6, <2>7, <2>8 DEF IInv, TypeOK, node
    <2>10. RowsAreSound'
        BY <1>4, <2>4, <2>5 DEF IInv, RowsAreSound, Mined
    <2>11. CopiesAreSound' /\ StepIsSound'
        BY <1>4 DEF IInv, CopiesAreSound, StepIsSound
    <2>12. LocksAreOwed'
        BY <1>4, <2>4, <2>5 DEF IInv, LocksAreOwed
    <2>13. WebhooksAreOwed'
        BY <1>4, <2>4, <2>5 DEF IInv, WebhooksAreOwed, Mined
    <2>14. ShownIsKept'
        <3> SUFFICES ASSUME NEW x \in shown'
                     PROVE  \/ x \in history'
                            \/ /\ x[1] \in DOMAIN r /\ sender[x[1]] = "done"
                               /\ r[x[1]].status = "MinedConfirmed" /\ r[x[1]].payref = x[2]
            BY <1>4, <2>5 DEF ShownIsKept
        <3>1. CASE x \notin shown
            BY <2>5, <3>1
        <3>2. CASE x \in history
            BY <2>1, <3>2
        <3>3. CASE x \in shown /\ x \notin history
            <4>1. /\ x[1] \in DOMAIN rows /\ sender[x[1]] = "done"
                  /\ rows[x[1]].status = "MinedConfirmed" /\ rows[x[1]].payref = x[2]
                BY <3>3 DEF IInv, ShownIsKept
            <4>2. CASE x[1] \notin MinedFrom(rows, h)
                BY <2>4, <4>1, <4>2
            <4>3. CASE x[1] \in MinedFrom(rows, h)
                <5>1. rows[x[1]].payref # 0
                    BY <4>1 DEF IInv, RowsAreSound
                <5>2. <<x[1], rows[x[1]].payref>> \in SavedPayrefs(rows, h)
                    BY <4>3, <5>1 DEF SavedPayrefs
                <5>3. x = <<x[1], x[2]>>
                    BY <3>3 DEF IInv, TypeOK
                <5> QED BY <2>1, <4>1, <5>2, <5>3
            <4> QED BY <4>2, <4>3
        <3> QED BY <3>1, <3>2, <3>3
    <2> QED BY <2>9, <2>10, <2>11, <2>12, <2>13, <2>14 DEF IInv
<1> QED BY <1>5, <1>6
-----------------------------------------------------------------------------
(* The pass, where it owes nothing                                         *)

(* Between two items the pass may turn to anything.                        *)
LEMMA Onward ==
    ASSUME IInv, pass.step \in {"idle", "ask"},
           UNCHANGED <<rows, locked, history, sender, told, unreleased, untold, shown>>,
           TypeOK', CopiesAreSound', StepIsSound'
    PROVE  IInv'
<1>1. RowsAreSound' /\ ShownIsKept'
    BY DEF IInv, RowsAreSound, ShownIsKept
<1>2. LocksAreOwed' /\ WebhooksAreOwed'
    BY DEF IInv, LocksAreOwed, WebhooksAreOwed
<1> QED BY <1>1, <1>2 DEF IInv

(* No pass, no copies.                                                     *)
LEMMA IdleIsSound ==
    ASSUME pass' = Idle
    PROVE  pass' \in Passes /\ CopiesAreSound' /\ StepIsSound'
<1>1. pass' \in Passes
    <2>1. <<0, 0>> \in Nat \X Nat /\ 0 \in Nat /\ {} \in SUBSET Copies
        OBVIOUS
    <2> QED BY <2>1 DEF Idle, Passes, Statuses
<1>2. pass'.step = "idle" /\ pass'.queue = {}
    BY DEF Idle
<1> QED BY <1>1, <1>2 DEF CopiesAreSound, StepIsSound

(* The copies of a new pass are fresh.                                     *)
LEMMA StartIsSound ==
    ASSUME IInv, pass.step = "idle", NEW h \in Nat, StartPass(h), rows' = rows
    PROVE  flag' \in BOOLEAN /\ pass' \in Passes /\ CopiesAreSound' /\ StepIsSound'
<1>1. PICK ids : ids = get_pending_completed_transactions(rows)
    OBVIOUS
<1>2. CASE ~ flag
    <2>1. flag' = flag /\ pass' = pass
        BY <1>2 DEF StartPass
    <2>2. Item' = Item
        BY <2>1, SameItem
    <2> QED BY <2>1, <2>2 DEF IInv, TypeOK, CopiesAreSound, StepIsSound
<1>3. CASE flag /\ ids = {}
    <2>1. flag' = (ids # {}) /\ pass' = Idle
        BY <1>1, <1>3 DEF StartPass
    <2>2. flag' \in BOOLEAN
        BY <2>1
    <2> QED BY <2>1, <2>2, IdleIsSound
<1>4. CASE flag /\ ids # {}
    <2>1. /\ flag' = (ids # {})
          /\ pass' = [Idle EXCEPT !.step = "ask", !.height = h, !.queue = Queue(ids),
                                  !.initial = Cardinality(ids)]
        BY <1>1, <1>4 DEF StartPass
    <2>2. flag' \in BOOLEAN
        BY <2>1
    <2>3. rows \in [DOMAIN rows -> Rows] /\ DOMAIN rows \subseteq Txs
        BY DEF IInv, TypeOK
    <2>4. /\ ids \subseteq DOMAIN rows /\ ids \in SUBSET Txs
          /\ \A t \in ids : rows[t] \in Rows /\ rows[t].status \notin Terminal
        BY <1>1, <2>3 DEF get_pending_completed_transactions
    <2>5. Cardinality(ids) \in Nat
        <3>1. IsFiniteSet(Txs)
            BY MonitorConstants
        <3>2. IsFiniteSet(ids)
            BY <2>4, <3>1, FS_Subset
        <3> QED BY <3>2, FS_CardinalityType
    <2>6. /\ \A i \in Queue(ids) : /\ i \in Copies /\ i.tx \in ids /\ i.row = rows[i.tx]
                                   /\ i = [tx |-> i.tx, row |-> i.row]
          /\ Queue(ids) # {}
        <3>1. \A t \in ids : [tx |-> t, row |-> rows[t]] \in Copies
            BY <2>4 DEF Copies
        <3>2. ASSUME NEW i \in Queue(ids)
              PROVE  /\ i \in Copies /\ i.tx \in ids /\ i.row = rows[i.tx]
                     /\ i = [tx |-> i.tx, row |-> i.row]
            <4>1. PICK t \in ids : i = [tx |-> t, row |-> rows[t]]
                BY DEF Queue
            <4>2. i.tx = t /\ i.row = rows[t]
                BY <4>1
            <4> QED BY <3>1, <4>1, <4>2
        <3>3. PICK t \in ids : TRUE
            BY <1>4
        <3>4. [tx |-> t, row |-> rows[t]] \in Queue(ids)
            BY <3>3 DEF Queue
        <3> QED BY <3>2, <3>4
    <2>7. /\ pass'.step = "ask" /\ pass'.queue = Queue(ids)
          /\ pass' \in Passes
        <3>1. /\ <<0, 0>> \in Nat \X Nat /\ 0 \in Nat
              /\ Queue(ids) \in SUBSET Copies
            BY <2>6
        <3> QED BY <2>1, <2>5, <3>1 DEF Idle, Passes, Statuses
    <2>8. \A t \in ids : /\ rows[t].status \in DOMAIN Turn
                         /\ rows[t].status # "MinedConfirmed"
                         /\ rows[t].status = "MinedUnconfirmed" =>
                                rows[t].hash # 0 /\ rows[t].mined # 0
        BY <2>4, Turns DEF IInv, RowsAreSound, Mined, Rows, Statuses, Terminal
    <2>9. CopiesAreSound'
        <3>1. pass'.step # "idle" /\ pass'.queue # {}
            BY <2>6, <2>7
        <3>2. \A i, j \in Queue(ids) : i.tx = j.tx => i = j
            BY <2>6
        <3>3. \A i \in Queue(ids) :
                  /\ i.tx \in DOMAIN rows
                  /\ i.row.status \in DOMAIN Turn
                  /\ i.row.status = "MinedUnconfirmed" => i.row.hash # 0 /\ rows[i.tx].mined # 0
                  /\ rows[i.tx].status # "MinedConfirmed"
            BY <2>4, <2>6, <2>8
        <3>4. DOMAIN Turn = (DOMAIN Turn)'
            BY DEF Turn
        <3> QED BY <2>7, <3>1, <3>2, <3>3, <3>4 DEF CopiesAreSound
    <2>10. StepIsSound'
        BY <2>7 DEF StepIsSound
    <2> QED BY <2>2, <2>7, <2>9, <2>10
<1> QED BY <1>2, <1>3, <1>4 DEF IInv, TypeOK

(* A batch extends the scanned blocks, and may start a pass.               *)
LEMMA ScanBatchKeeps ==
    ASSUME IInv, NEW last \in Nat, ScanBatch(last)
    PROVE  IInv'
<1>1. /\ pass.step = "idle" /\ last \in Len(tips) + 1 .. Tip
      /\ tips' = tips \o SubSeq(chain, Len(tips) + 1, last)
      /\ UNCHANGED <<node, rows, locked, history, sender, told, losses, shown>>
    BY DEF ScanBatch, table, ghost
<1>2. tips' \in Seq(Nat \ {0})
    <2>1. chain \in Seq(Nat \ {0}) /\ tips \in Seq(Nat \ {0})
        BY DEF IInv, TypeOK
    <2>2. Len(tips) + 1 \in 1 .. Len(chain) /\ last \in 1 .. Len(chain)
        BY <1>1, <2>1 DEF Tip
    <2>3. SubSeq(chain, Len(tips) + 1, last) \in Seq(Nat \ {0})
        BY <2>1, <2>2
    <2> QED BY <1>1, <2>1, <2>3
<1>3. flag' \in BOOLEAN /\ pass' \in Passes /\ CopiesAreSound' /\ StepIsSound'
    <2>1. CASE MonitorDue(last, last + 1)
        <3>1. StartPass(last)
            BY <2>1 DEF ScanBatch
        <3> QED BY <1>1, <3>1, StartIsSound
    <2>2. CASE ~ MonitorDue(last, last + 1)
        <3>1. flag' = flag /\ pass' = pass
            BY <2>2 DEF ScanBatch
        <3>2. Item' = Item
            BY <3>1, SameItem
        <3> QED BY <1>1, <3>1, <3>2 DEF IInv, TypeOK, CopiesAreSound, StepIsSound
    <2> QED BY <2>1, <2>2
<1>4. TypeOK'
    BY <1>1, <1>2, <1>3 DEF IInv, TypeOK, node
<1> QED BY <1>1, <1>3, <1>4, Onward

(* An application starts a pass.                                           *)
LEMMA CallMonitorKeeps ==
    ASSUME IInv, CallMonitor
    PROVE  IInv'
<1>1. /\ pass.step = "idle" /\ StartPass(Len(tips))
      /\ UNCHANGED <<node, rows, locked, history, sender, tips, told, losses, shown>>
    BY DEF CallMonitor, table, ghost
<1>2. Len(tips) \in Nat
    BY DEF IInv, TypeOK
<1>3. flag' \in BOOLEAN /\ pass' \in Passes /\ CopiesAreSound' /\ StepIsSound'
    BY <1>1, <1>2, StartIsSound
<1>4. TypeOK'
    BY <1>1, <1>3 DEF IInv, TypeOK, node
<1> QED BY <1>1, <1>3, <1>4, Onward

(* The rows behind the item are not confirmed, so any may be the next one. *)
LEMMA AdvanceIsSound ==
    ASSUME IInv, pass.step # "idle", NEW p \in Passes, p.queue = pass.queue, Advance(p),
           rows' = rows
    PROVE  flag' \in BOOLEAN /\ pass' \in Passes /\ CopiesAreSound' /\ StepIsSound'
<1>1. PICK left : left = p.queue \ {Item}
    OBVIOUS
<1>2. CASE left = {}
    <2>1. pass' = Idle /\ flag' = (flag /\ ~ ClearsFlag(p))
        BY <1>1, <1>2 DEF Advance
    <2>2. flag' \in BOOLEAN
        BY <2>1
    <2> QED BY <2>1, <2>2, IdleIsSound
<1>3. CASE left # {}
    <2>1. /\ pass' = [p EXCEPT !.queue = left, !.step = "ask", !.found = <<0, 0>>]
          /\ flag' = flag
        BY <1>1, <1>3 DEF Advance
    <2>2. left \in SUBSET Copies /\ left \subseteq pass.queue /\ Item \notin left
        BY <1>1 DEF IInv, TypeOK, Passes
    <2>3. /\ pass' \in Passes /\ pass'.step = "ask" /\ pass'.queue = left
        <3>1. <<0, 0>> \in Nat \X Nat
            OBVIOUS
        <3> QED BY <2>1, <2>2, <3>1 DEF Passes
    <2>4. \A i, j \in left : i.tx = j.tx => i = j
        BY <2>2 DEF IInv, CopiesAreSound
    <2>5. \A i \in left :
              /\ i.tx \in DOMAIN rows
              /\ i.row.status \in DOMAIN Turn
              /\ i.row.status = "MinedUnconfirmed" => i.row.hash # 0 /\ rows[i.tx].mined # 0
              /\ rows[i.tx].status # "MinedConfirmed"
        BY <2>2 DEF IInv, CopiesAreSound
    <2>6. DOMAIN Turn = (DOMAIN Turn)'
        BY DEF Turn
    <2>7. CopiesAreSound'
        BY <1>3, <2>3, <2>4, <2>5, <2>6 DEF CopiesAreSound
    <2>8. StepIsSound'
        BY <2>3 DEF StepIsSound
    <2> QED BY <2>1, <2>3, <2>7, <2>8 DEF IInv, TypeOK
<1> QED BY <1>2, <1>3

(* The step to the write keeps the copies.                                 *)
LEMMA MarkIsSound ==
    ASSUME IInv, pass.step = "ask", NEW status \in Statuses, NEW found \in Nat \X Nat,
           <<Item.row.status, status>> \in Moves,
           status = "MinedUnconfirmed" => found[1] # 0 /\ found[2] # 0,
           Mark(status, found), rows' = rows
    PROVE  flag' \in BOOLEAN /\ pass' \in Passes /\ CopiesAreSound' /\ StepIsSound'
<1>1. /\ pass' = [pass EXCEPT !.step = "mark", !.status = status, !.found = found]
      /\ flag' = flag
    BY DEF Mark
<1>2. /\ pass' \in Passes /\ pass'.step = "mark" /\ pass'.status = status
      /\ pass'.found = found /\ pass'.queue = pass.queue
    BY <1>1 DEF IInv, TypeOK, Passes
<1>3. Item' = Item
    BY <1>2, SameItem
<1>4. CopiesAreSound'
    BY <1>2, <1>3 DEF IInv, CopiesAreSound
<1>5. StepIsSound'
    BY <1>2, <1>3 DEF StepIsSound
<1> QED BY <1>1, <1>2, <1>4, <1>5 DEF IInv, TypeOK

(* A completed row is marked as sent or as rejected, whatever the answer.  *)
LEMMA RebroadcastKeeps ==
    ASSUME IInv, NEW answer \in Answers, Rebroadcast(answer)
    PROVE  IInv'
<1>1. /\ pass.step = "ask" /\ Item.row.status = "Completed"
      /\ UNCHANGED <<rows, locked, history, sender, tips, told, unreleased, untold, shown>>
    BY DEF Rebroadcast, table
<1>2. Item.tx \in Txs
    BY <1>1, ItemIsQueued DEF IInv, TypeOK, CopiesAreSound
<1>3. /\ chain' = chain /\ bodies' = bodies /\ mempool' \subseteq Txs
      /\ failed' \subseteq Txs
      /\ \E status \in {"Broadcast", "Rejected"} : Mark(status, <<0, 0>>)
    <2>1. CASE Item.row.attempts >= MaxAttempts
        <3>1. UNCHANGED <<node, failed>> /\ Mark("Rejected", <<0, 0>>)
            BY <2>1 DEF Rebroadcast
        <3> QED BY <3>1 DEF IInv, TypeOK, node
    <2>2. CASE ~ (Item.row.attempts >= MaxAttempts)
        <3>1. /\ SubmitTo(Item.tx, answer) /\ Answered(Item.tx, answer)
              /\ Mark(broadcast_transaction(answer), <<0, 0>>)
            BY <2>2 DEF Rebroadcast
        <3>2. broadcast_transaction(answer) \in {"Broadcast", "Rejected"}
            BY DEF broadcast_transaction
        <3>3. /\ chain' = chain /\ bodies' = bodies /\ mempool' \subseteq Txs
              /\ failed' \subseteq Txs
            BY <1>2, <3>1, Submitted DEF IInv
        <3> QED BY <3>1, <3>2, <3>3
    <2> QED BY <2>1, <2>2
<1>4. PICK status \in {"Broadcast", "Rejected"} : Mark(status, <<0, 0>>)
    BY <1>3
<1>5. /\ status \in Statuses /\ <<0, 0>> \in Nat \X Nat /\ status # "MinedUnconfirmed"
      /\ <<Item.row.status, status>> \in Moves
    BY <1>1 DEF Statuses, Moves
<1>6. flag' \in BOOLEAN /\ pass' \in Passes /\ CopiesAreSound' /\ StepIsSound'
    BY <1>1, <1>4, <1>5, MarkIsSound
<1>7. TypeOK'
    BY <1>1, <1>3, <1>6 DEF IInv, TypeOK
<1> QED BY <1>1, <1>3, <1>6, <1>7, Onward

(* Only a row the node has on its chain is marked mined.                   *)
LEMMA CheckMinedKeeps ==
    ASSUME IInv, CheckMined
    PROVE  IInv'
<1>1. /\ pass.step = "ask" /\ Item.row.status = "Broadcast"
      /\ UNCHANGED <<node, rows, locked, history, sender, tips, told, losses, shown>>
    BY DEF CheckMined, table, ghost
<1>2. flag' \in BOOLEAN /\ pass' \in Passes /\ CopiesAreSound' /\ StepIsSound'
    <2>1. CASE \E found \in find_kernel_on_chain(Item.tx) : Mark("MinedUnconfirmed", found)
        <3>1. PICK found \in find_kernel_on_chain(Item.tx) : Mark("MinedUnconfirmed", found)
            BY <2>1
        <3>2. found \in Nat \X Nat /\ found[1] # 0 /\ found[2] # 0
            BY FoundOnChain DEF IInv
        <3>3. "MinedUnconfirmed" \in Statuses /\ <<Item.row.status, "MinedUnconfirmed">> \in Moves
            BY <1>1 DEF Statuses, Moves
        <3> QED BY <1>1, <3>1, <3>2, <3>3, MarkIsSound
    <2>2. CASE Advance(pass)
        BY <1>1, <2>2, AdvanceIsSound DEF IInv, TypeOK
    <2> QED BY <2>1, <2>2 DEF CheckMined
<1>3. TypeOK'
    BY <1>1, <1>2 DEF IInv, TypeOK, node
<1> QED BY <1>1, <1>2, <1>3, Onward

(* Only a row whose copy is mined is marked confirmed.                     *)
LEMMA CheckConfirmedKeeps ==
    ASSUME IInv, CheckConfirmed
    PROVE  IInv'
<1>1. /\ pass.step = "ask" /\ Item.row.status = "MinedUnconfirmed"
      /\ UNCHANGED <<node, rows, locked, history, sender, tips, told, losses, shown>>
    BY DEF CheckConfirmed, table, ghost
<1>2. flag' \in BOOLEAN /\ pass' \in Passes /\ CopiesAreSound' /\ StepIsSound'
    <2>1. CASE Mark("MinedConfirmed", <<0, 0>>)
        <3>1. /\ "MinedConfirmed" \in Statuses /\ <<0, 0>> \in Nat \X Nat
              /\ <<Item.row.status, "MinedConfirmed">> \in Moves
            BY <1>1 DEF Statuses, Moves
        <3> QED BY <1>1, <2>1, <3>1, MarkIsSound
    <2>2. CASE Advance(pass)
        BY <1>1, <2>2, AdvanceIsSound DEF IInv, TypeOK
    <2> QED BY <2>1, <2>2 DEF CheckConfirmed
<1>3. TypeOK'
    BY <1>1, <1>2 DEF IInv, TypeOK, node
<1> QED BY <1>1, <1>2, <1>3, Onward
-----------------------------------------------------------------------------
(* The statements of the pass about its item                               *)

(* The write of the pass: nobody has confirmed the row since it was read,  *)
(* so no payment reference that was shown is overwritten.                  *)
LEMMA MarkRowKeeps ==
    ASSUME IInv, MarkRow
    PROVE  IInv'
<1>1. PICK i : i = Item
    OBVIOUS
<1>2. PICK t : t = i.tx
    OBVIOUS
<1>3. PICK e : e = Marked(rows[t])
    OBVIOUS
<1>4. PICK r : r = [rows EXCEPT ![t] = e]
    OBVIOUS
<1>5. /\ pass.step = "mark" /\ Write(r)
      /\ pass' = [pass EXCEPT !.step = AfterMark(pass.status)]
      /\ UNCHANGED <<node, locked, history, sender, tips, flag, told, losses>>
    BY <1>1, <1>2, <1>3, <1>4 DEF MarkRow
<1>6. /\ i \in pass.queue /\ i \in Copies /\ t \in DOMAIN rows /\ t \in Txs
      /\ rows[t].status # "MinedConfirmed"
      /\ i.row.status = "MinedUnconfirmed" => i.row.hash # 0 /\ rows[t].mined # 0
      /\ \A j \in pass.queue : j # i => j.tx # t
    <2>1. i \in pass.queue
        BY <1>1, <1>5, ItemIsQueued DEF IInv
    <2> QED BY <1>1, <1>2, <1>5, <2>1 DEF IInv, TypeOK, Passes, CopiesAreSound
<1>7. /\ rows \in [DOMAIN rows -> Rows] /\ DOMAIN rows \subseteq Txs /\ rows[t] \in Rows
      /\ pass \in Passes
    BY <1>6 DEF IInv, TypeOK
<1>8. /\ <<i.row.status, pass.status>> \in Moves
      /\ pass.status = "MinedUnconfirmed" => pass.found[1] # 0 /\ pass.found[2] # 0
    BY <1>1, <1>5 DEF IInv, StepIsSound
<1>9. /\ e \in Rows /\ e.status = pass.status
      /\ rows[t].mined # 0 => e.mined # 0
      /\ pass.status = "MinedUnconfirmed" => e.mined # 0 /\ e.hash # 0
      /\ pass.status = "MinedConfirmed" => e.mined # 0 /\ e.payref # 0
    <2>1. /\ pass.found[1] \in Nat /\ pass.found[2] \in Nat
          /\ i.row.attempts + 1 \in Nat /\ i.row.hash \in Nat
        BY <1>6, <1>7 DEF Passes, Copies, Rows
    <2>2. CASE pass.status = "Broadcast"
        <3>1. e = mark_completed_transaction_as_broadcasted(rows[t], i.row.attempts + 1)
            BY <1>1, <1>3, <2>2 DEF Marked
        <3>2. PICK n \in Nat : n = i.row.attempts + 1
            BY <2>1
        <3>3. e \in Rows /\ e.status = "Broadcast" /\ e.mined = rows[t].mined
            BY <1>7, <3>1, <3>2, RowUpdates, ZenonT(30)
        <3> QED BY <2>2, <3>3
    <2>3. CASE pass.status = "MinedUnconfirmed"
        <3>1. e = mark_completed_transaction_as_mined_unconfirmed(rows[t], pass.found[1], pass.found[2])
            BY <1>3, <2>3 DEF Marked
        <3> QED BY <1>7, <1>8, <2>1, <2>3, <3>1, RowUpdates
    <2>4. CASE pass.status = "MinedConfirmed"
        <3>1. e = mark_completed_transaction_as_confirmed(rows[t], i.row.hash)
            BY <1>1, <1>3, <2>4 DEF Marked
        <3>2. i.row.status = "MinedUnconfirmed"
            BY <1>8, <2>4 DEF Moves
        <3>3. PICK n \in Nat : n = i.row.hash
            BY <2>1
        <3>4. /\ e \in Rows /\ e.status = "MinedConfirmed" /\ e.mined = rows[t].mined
              /\ e.payref = i.row.hash
            BY <1>7, <3>1, <3>3, RowUpdates
        <3> QED BY <1>6, <2>4, <3>2, <3>4
    <2>5. CASE pass.status = "Rejected"
        <3>1. e = mark_completed_transaction_as_rejected(rows[t])
            BY <1>3, <2>5 DEF Marked
        <3> QED BY <1>7, <2>1, <2>5, <3>1, RowUpdates
    <2> QED BY <1>8, <2>2, <2>3, <2>4, <2>5 DEF Moves
<1>10. /\ DOMAIN r = DOMAIN rows /\ r \in [DOMAIN r -> Rows]
       /\ r[t] = e
       /\ \A u \in DOMAIN rows : u # t => r[u] = rows[u]
    BY <1>4, <1>6, <1>7, <1>9
<1>11. /\ rows' = r /\ shown' \subseteq Txs \X Nat
       /\ \A x \in shown' :
             \/ x \in shown
             \/ /\ x[1] \in DOMAIN r /\ r[x[1]].status = "MinedConfirmed"
                /\ sender[x[1]] = "done" /\ r[x[1]].payref = x[2]
    BY <1>5, <1>7, <1>10, Shows DEF IInv, TypeOK
<1>12. /\ pass' \in Passes /\ pass'.queue = pass.queue /\ pass'.status = pass.status
       /\ pass.status = "Rejected" => pass'.step = "unlock"
       /\ pass.status # "Rejected" => pass'.step = "event"
    BY <1>5, <1>7 DEF Passes, AfterMark
<1>13. Item' = i
    BY <1>1, <1>12, SameItem
<1>14. TypeOK'
    BY <1>5, <1>7, <1>10, <1>11, <1>12 DEF IInv, TypeOK, node
<1>15. RowsAreSound'
    BY <1>5, <1>9, <1>10, <1>11 DEF IInv, RowsAreSound, Mined
<1>16. CopiesAreSound'
    <2>1. pass'.step # "idle" /\ pass'.queue # {}
        BY <1>6, <1>12
    <2>2. \A j, k \in pass.queue : j.tx = k.tx => j = k
        BY DEF IInv, CopiesAreSound
    <2>3. \A j \in pass.queue :
             /\ j.tx \in DOMAIN rows
             /\ j.row.status \in DOMAIN Turn
             /\ j.row.status = "MinedUnconfirmed" => j.row.hash # 0 /\ r[j.tx].mined # 0
             /\ j # i => r[j.tx].status # "MinedConfirmed"
        BY <1>1, <1>2, <1>6, <1>9, <1>10 DEF IInv, CopiesAreSound
    <2>4. DOMAIN Turn = (DOMAIN Turn)'
        BY DEF Turn
    <2>5. pass'.step \notin {"ask", "mark"}
        BY <1>12
    <2> QED BY <1>10, <1>11, <1>12, <1>13, <2>1, <2>2, <2>3, <2>4, <2>5 DEF CopiesAreSound
<1>17. StepIsSound'
    BY <1>2, <1>9, <1>10, <1>11, <1>12, <1>13 DEF StepIsSound
<1>18. LocksAreOwed'
    BY <1>2, <1>5, <1>9, <1>10, <1>11, <1>12, <1>13 DEF IInv, LocksAreOwed
<1>19. WebhooksAreOwed'
    BY <1>2, <1>5, <1>9, <1>10, <1>11, <1>12, <1>13 DEF IInv, WebhooksAreOwed, Mined
<1>20. ShownIsKept'
    <2> SUFFICES ASSUME NEW x \in shown'
                 PROVE  \/ x \in history
                        \/ /\ x[1] \in DOMAIN r /\ sender[x[1]] = "done"
                           /\ r[x[1]].status = "MinedConfirmed" /\ r[x[1]].payref = x[2]
        BY <1>5, <1>11 DEF ShownIsKept
    <2> QED BY <1>6, <1>10, <1>11 DEF IInv, ShownIsKept
<1> QED BY <1>14, <1>15, <1>16, <1>17, <1>18, <1>19, <1>20 DEF IInv

(* The pass gives the inputs back.                                         *)
LEMMA UnlockKeeps ==
    ASSUME IInv, Unlock
    PROVE  IInv'
<1>1. /\ pass.step = "unlock" /\ locked' = locked \ {Item.tx}
      /\ pass' = [pass EXCEPT !.step = "event"]
      /\ UNCHANGED <<node, rows, history, sender, tips, flag, told, losses, shown>>
    BY DEF Unlock, ghost
<1>2. /\ pass' \in Passes /\ pass'.step = "event" /\ pass'.queue = pass.queue
      /\ pass'.status = pass.status
    BY <1>1 DEF IInv, TypeOK, Passes
<1>3. Item' = Item
    BY <1>2, SameItem
<1>4. TypeOK'
    BY <1>1, <1>2 DEF IInv, TypeOK, node
<1>5. RowsAreSound' /\ ShownIsKept'
    BY <1>1 DEF IInv, RowsAreSound, ShownIsKept
<1>6. CopiesAreSound' /\ StepIsSound'
    BY <1>1, <1>2, <1>3 DEF IInv, CopiesAreSound, StepIsSound
<1>7. LocksAreOwed' /\ WebhooksAreOwed'
    BY <1>1, <1>2, <1>3 DEF IInv, LocksAreOwed, WebhooksAreOwed
<1> QED BY <1>4, <1>5, <1>6, <1>7 DEF IInv

(* The webhook is of the status the row has, unless the row has been taken *)
(* off the chain since.                                                    *)
LEMMA PersistEventKeeps ==
    ASSUME IInv, PersistEvent
    PROVE  IInv'
<1>1. PICK p : p = [pass EXCEPT !.terminal = @ + (IF pass.status \in Terminal THEN 1 ELSE 0)]
    OBVIOUS
<1>2. PICK t : t = Item.tx
    OBVIOUS
<1>3. /\ pass.step = "event" /\ Advance(p)
      /\ told' = [told EXCEPT ![t] = pass.status] /\ untold' = untold \ {t}
      /\ UNCHANGED <<node, rows, locked, history, sender, tips, failed, unreleased, shown>>
    BY <1>1, <1>2 DEF PersistEvent, EventType, table, ghost
<1>4. p \in Passes /\ p.queue = pass.queue
    <2>1. pass \in Passes
        BY DEF IInv, TypeOK
    <2>2. PICK n : n = pass.terminal + (IF pass.status \in Terminal THEN 1 ELSE 0)
        OBVIOUS
    <2>3. n \in Nat
        BY <2>1, <2>2 DEF Passes
    <2>4. p = [pass EXCEPT !.terminal = n]
        BY <1>1, <2>2
    <2> QED BY ONLY <2>1, <2>3, <2>4 DEF Passes
<1>5. flag' \in BOOLEAN /\ pass' \in Passes /\ CopiesAreSound' /\ StepIsSound'
    BY <1>3, <1>4, AdvanceIsSound
<1>6. pass.status \in Statuses
    BY DEF IInv, TypeOK, Passes
<1>7. TypeOK'
    BY <1>3, <1>5, <1>6 DEF IInv, TypeOK, node
<1>8. RowsAreSound' /\ ShownIsKept'
    BY <1>3 DEF IInv, RowsAreSound, ShownIsKept
<1>9. LocksAreOwed'
    BY <1>3 DEF IInv, LocksAreOwed
<1>10. WebhooksAreOwed'
    <2>1. \A u \in DOMAIN rows : u \in Txs
        BY DEF IInv, TypeOK
    <2>2. told'[t] = pass.status \/ t \notin Txs
        BY <1>3 DEF IInv, TypeOK
    <2>3. \A u \in DOMAIN rows : u # t => told'[u] = told[u]
        BY <1>3, <2>1 DEF IInv, TypeOK
    <2> QED BY <1>2, <1>3, <2>1, <2>2, <2>3 DEF IInv, StepIsSound, WebhooksAreOwed
<1> QED BY <1>5, <1>7, <1>8, <1>9, <1>10 DEF IInv

(* What a pass that ends owed to its item is on record as lost.            *)
LEMMA PassFailsKeeps ==
    ASSUME IInv, PassFails
    PROVE  IInv'
<1>1. /\ pass.step # "idle" /\ failed' = failed \cup {Item.tx} /\ pass' = Idle /\ flag' = FALSE
      /\ unreleased' = IF pass.step = "unlock" THEN unreleased \cup {Item.tx} ELSE unreleased
      /\ untold' = IF pass.step = "event" THEN untold \cup {Item.tx} ELSE untold
      /\ UNCHANGED <<node, rows, locked, history, sender, tips, told, shown>>
    BY DEF PassFails, table
<1>2. Item.tx \in Txs
    BY <1>1, ItemIsQueued DEF IInv, TypeOK, CopiesAreSound
<1>3. pass' \in Passes /\ CopiesAreSound' /\ StepIsSound'
    BY <1>1, IdleIsSound
<1>4. TypeOK'
    BY <1>1, <1>2, <1>3 DEF IInv, TypeOK, node
<1>5. RowsAreSound' /\ ShownIsKept'
    BY <1>1 DEF IInv, RowsAreSound, ShownIsKept
<1>6. LocksAreOwed' /\ WebhooksAreOwed'
    BY <1>1 DEF IInv, LocksAreOwed, WebhooksAreOwed
<1> QED BY <1>3, <1>4, <1>5, <1>6 DEF IInv
-----------------------------------------------------------------------------
(* The theorems                                                            *)

(* The wallet starts with no rows and no pass.                             *)
LEMMA InitIInv == Init => IInv
<1> SUFFICES ASSUME Init PROVE IInv
    OBVIOUS
<1>1. /\ chain = <<>> /\ bodies = <<>> /\ mempool = {} /\ rows = <<>> /\ locked = {}
      /\ history = {} /\ sender = [t \in Txs |-> "new"] /\ tips = <<>> /\ flag = FALSE
      /\ pass = Idle /\ told = [t \in Txs |-> "none"] /\ failed = {} /\ shown = {}
      /\ unreleased = {} /\ untold = {}
    BY DEF Init, NodeInit
<1>2. DOMAIN rows = {} /\ rows \in [DOMAIN rows -> Rows]
    BY <1>1
<1>3. pass \in Passes
    <2>1. <<0, 0>> \in Nat \X Nat /\ 0 \in Nat /\ {} \in SUBSET Copies
        OBVIOUS
    <2> QED BY <1>1, <2>1 DEF Idle, Passes, Statuses
<1>4. chain \in Seq(Nat \ {0}) /\ bodies \in Seq(SUBSET Txs) /\ tips \in Seq(Nat \ {0})
    BY <1>1
<1>5. TypeOK
    BY <1>1, <1>2, <1>3, <1>4 DEF TypeOK
<1>6. pass.step = "idle" /\ pass.queue = {}
    BY <1>1 DEF Idle
<1>7. RowsAreSound /\ LocksAreOwed /\ WebhooksAreOwed /\ ShownIsKept
    BY <1>1, <1>2 DEF RowsAreSound, LocksAreOwed, WebhooksAreOwed, ShownIsKept
<1>8. CopiesAreSound /\ StepIsSound
    BY <1>6 DEF CopiesAreSound, StepIsSound
<1> QED BY <1>5, <1>7, <1>8 DEF IInv

(* Every step keeps the invariant.                                         *)
LEMMA NextIInv == IInv /\ [Next]_vars => IInv'
<1> SUFFICES ASSUME IInv, [Next]_vars PROVE IInv'
    OBVIOUS
<1>1. CASE UNCHANGED vars
    <2>1. UNCHANGED <<chain, bodies, mempool, rows, locked, history, sender, tips, flag, pass,
                      told, losses, shown>>
        BY <1>1 DEF vars, node, table, ghost
    <2>2. TypeOK'
        BY <2>1 DEF IInv, TypeOK
    <2> QED BY <2>1, <2>2, Beside
<1>2. CASE NodeStep
    BY <1>2, NodeKeeps
<1>3. ASSUME NEW t \in Txs, SenderStep(t) \/ SenderFails(t) PROVE IInv'
    <2>1. CASE Record(t)
        BY <2>1, RecordKeeps
    <2>2. ASSUME NEW answer \in Answers, SenderSubmit(t, answer) PROVE IInv'
        BY <2>2, SenderSubmitKeeps
    <2>3. CASE SenderMark(t)
        BY <2>3, SenderMarkKeeps
    <2>4. CASE SenderUnlock(t) \/ SenderFails(t)
        BY <2>4, SenderEnds
    <2> QED BY <1>3, <2>1, <2>2, <2>3, <2>4 DEF SenderStep
<1>4. CASE PrepareTarget
    BY <1>4, PrepareTargetKeeps
<1>5. ASSUME NEW last \in 1 .. MaxHeight, ScanBatch(last) PROVE IInv'
    <2>1. last \in Nat
        <3>1. last \in Len(tips) + 1 .. Tip /\ Len(tips) \in Nat /\ Tip \in Nat
            BY <1>5 DEF ScanBatch, IInv, TypeOK, Tip
        <3> QED BY <3>1
    <2> QED BY <1>5, <2>1, ScanBatchKeeps
<1>6. CASE CallMonitor
    BY <1>6, CallMonitorKeeps
<1>7. CASE PassStep
    <2>1. ASSUME NEW answer \in Answers, Rebroadcast(answer) PROVE IInv'
        BY <2>1, RebroadcastKeeps
    <2>2. CASE CheckMined
        BY <2>2, CheckMinedKeeps
    <2>3. CASE CheckConfirmed
        BY <2>3, CheckConfirmedKeeps
    <2>4. CASE MarkRow
        BY <2>4, MarkRowKeeps
    <2>5. CASE Unlock
        BY <2>5, UnlockKeeps
    <2>6. CASE PersistEvent
        BY <2>6, PersistEventKeeps
    <2> QED BY <1>7, <2>1, <2>2, <2>3, <2>4, <2>5, <2>6 DEF PassStep
<1>8. CASE PassFails
    BY <1>8, PassFailsKeeps
<1> QED BY <1>1, <1>2, <1>3, <1>4, <1>5, <1>6, <1>7, <1>8 DEF Next

(* The inductive invariant holds in every reachable state.                 *)
THEOREM Invariance == Spec => []IInv
BY InitIInv, NextIInv, PTL DEF Spec

(* Every reachable state is well typed: the columns of                     *)
(* completed_transactions hold what the enums and heights of the code can  *)
(* be, and a pass only copies of such rows.                                *)
THEOREM TypeCorrect == Spec => []TypeOK
<1>1. IInv => TypeOK
    BY DEF IInv
<1> QED BY <1>1, Invariance, PTL

(* Whoever rejects a transaction gives its inputs back, sender or monitor, *)
(* under any interleaving of the two and whatever failed before: inputs of *)
(* a rejected transaction are still locked only while the next step of one *)
(* of them is their release, or because that very statement has failed.    *)
THEOREM ReleasedWhenRejected == Spec => []RejectedIsReleased
<1>1. IInv => RejectedIsReleased
    BY DEF IInv, LocksAreOwed, RejectedIsReleased
<1> QED BY <1>1, Invariance, PTL

(* The last webhook of a mined transaction is the one of its status,       *)
(* unless the monitor's next step is to queue it, or the last time it      *)
(* should have been told the event or the webhook itself has failed.       *)
THEOREM WebhooksFollow == Spec => []WebhooksFollowMining
<1>1. IInv => WebhooksFollowMining
    BY DEF IInv, WebhooksAreOwed, WebhooksFollowMining, Mined
<1> QED BY <1>1, Invariance, PTL

(* A payment reference somebody has seen leads to its transaction for      *)
(* ever, whatever the chain does: save_completed_transaction_payrefs_      *)
(* before_reorg misses none of those that reset_mined clears.              *)
THEOREM PayrefsKept == Spec => []PayrefsResolve
<1>1. IInv => PayrefsResolve
    <2> SUFFICES ASSUME IInv, NEW x \in shown PROVE x[1] \in LookUp(x)
        BY DEF PayrefsResolve
    <2>1. CASE x[1] \in DOMAIN rows /\ rows[x[1]].payref = x[2]
        BY <2>1 DEF LookUp
    <2>2. CASE x \in history
        BY <2>1, <2>2 DEF LookUp
    <2> QED BY <2>1, <2>2 DEF IInv, ShownIsKept
<1> QED BY <1>1, Invariance, PTL

(* The four actions that write rows.                                       *)
LEMMA RowWriters ==
    ASSUME [Next]_vars
    PROVE  \/ rows' = rows
           \/ \E t \in Txs : Record(t) \/ SenderMark(t)
           \/ PrepareTarget
           \/ MarkRow
<1>1. CASE UNCHANGED vars
    BY <1>1 DEF vars, table
<1>2. CASE NodeStep
    BY <1>2 DEF NodeStep, table
<1>3. ASSUME NEW t \in Txs, SenderStep(t) \/ SenderFails(t)
      PROVE  rows' = rows \/ Record(t) \/ SenderMark(t)
    BY <1>3 DEF SenderStep, SenderSubmit, SenderUnlock, SenderFails, table
<1>4. ASSUME NEW last \in 1 .. MaxHeight, ScanBatch(last) PROVE rows' = rows
    BY <1>4 DEF ScanBatch, table
<1>5. CASE CallMonitor
    BY <1>5 DEF CallMonitor, table
<1>6. CASE PassStep
    <2>1. ASSUME NEW answer \in Answers, Rebroadcast(answer) PROVE rows' = rows
        BY <2>1 DEF Rebroadcast, table
    <2>2. CASE CheckMined
        BY <2>2 DEF CheckMined, table
    <2>3. CASE CheckConfirmed
        BY <2>3 DEF CheckConfirmed, table
    <2>4. CASE Unlock
        BY <2>4 DEF Unlock
    <2>5. CASE PersistEvent
        BY <2>5 DEF PersistEvent, table
    <2> QED BY <1>6, <2>1, <2>2, <2>3, <2>4, <2>5 DEF PassStep
<1>7. CASE PassFails
    BY <1>7 DEF PassFails, table
<1> QED BY <1>1, <1>2, <1>3, <1>4, <1>5, <1>6, <1>7 DEF Next

(* A row moves along the diagram of monitor.rs, or is put back by a reorg, *)
(* unless sender and monitor have the same transaction in hand: the        *)
(* diagram holds wherever one of them alone writes.                        *)
THEOREM DiagramHolds == Spec => FollowsDiagram
<1> DEFINE Step ==
        \A t \in DOMAIN rows :
            \/ rows'[t].status = rows[t].status
            \/ <<rows[t].status, rows'[t].status>> \in Diagram
            \/ tips' # tips /\ rows[t].mined # 0 /\ rows'[t].status = "Completed"
            \/ sender[t] # "done"
            \/ Stale(t)
<1>1. ASSUME IInv, [Next]_vars PROVE Step
    <2> SUFFICES ASSUME NEW t \in DOMAIN rows
                 PROVE  \/ rows'[t].status = rows[t].status
                        \/ <<rows[t].status, rows'[t].status>> \in Diagram
                        \/ tips' # tips /\ rows[t].mined # 0 /\ rows'[t].status = "Completed"
                        \/ sender[t] # "done"
                        \/ Stale(t)
        OBVIOUS
    <2>1. rows[t] \in Rows
        BY <1>1 DEF IInv, TypeOK
    <2>2. ASSUME NEW u \in Txs, Record(u) PROVE rows'[t].status = rows[t].status
        <3>1. t # u
            BY <1>1, <2>2 DEF IInv, RowsAreSound, Record
        <3>2. rows' = [v \in DOMAIN rows \cup {u} |->
                          IF v = u THEN create_completed_transaction ELSE rows[v]]
            BY <2>2 DEF Record, Write
        <3> QED BY <3>1, <3>2
    <2>3. ASSUME NEW u \in Txs, SenderMark(u)
          PROVE  rows'[t].status = rows[t].status \/ sender[t] # "done"
        <3>1. sender[u] # "done"
            BY <2>3 DEF SenderMark, Answers
        <3>2. PICK e : rows' = [rows EXCEPT ![u] = e] \/ rows' = rows
            <4>1. rows' = CASE sender[u] = "accepted" ->
                                 [rows EXCEPT ![u] = mark_completed_transaction_as_broadcasted(@, 1)]
                            [] sender[u] \in {"refused", "error"} ->
                                 [rows EXCEPT ![u] = mark_completed_transaction_as_rejected(@)]
                            [] OTHER -> rows
                BY <2>3 DEF SenderMark, Write
            <4>2. \/ rows' = [rows EXCEPT ![u] = mark_completed_transaction_as_broadcasted(rows[u], 1)]
                  \/ rows' = [rows EXCEPT ![u] = mark_completed_transaction_as_rejected(rows[u])]
                  \/ rows' = rows
                BY <4>1
            <4> QED BY <4>2
        <3>3. CASE t # u
            BY <3>2, <3>3
        <3> QED BY <3>1, <3>3
    <2>4. ASSUME PrepareTarget
          PROVE  \/ rows'[t].status = rows[t].status
                 \/ tips' # tips /\ rows[t].mined # 0 /\ rows'[t].status = "Completed"
        <3>1. PICK h : h = reorg_start_height
            OBVIOUS
        <3>2. CASE ~ (tips # <<>> /\ h <= Len(tips))
            BY <2>4, <3>1, <3>2 DEF PrepareTarget
        <3>3. CASE tips # <<>> /\ h <= Len(tips)
            <4>1. /\ rows' = [u \in DOMAIN rows |->
                               IF u \in MinedFrom(rows, h) THEN reset_mined(rows[u]) ELSE rows[u]]
                  /\ tips' = SubSeq(tips, 1, Monus(h, 1))
                BY <2>4, <3>1, <3>3 DEF PrepareTarget, Write
            <4>2. CASE t \notin MinedFrom(rows, h)
                BY <4>1, <4>2
            <4>3. CASE t \in MinedFrom(rows, h)
                <5>1. rows[t].mined # 0
                    BY <1>1, <4>3 DEF MinedFrom, IInv, RowsAreSound, Mined
                <5>2. rows'[t].status = "Completed"
                    BY <2>1, <4>1, <4>3 DEF reset_mined, Rows
                <5>3. h \in Nat /\ tips \in Seq(Nat \ {0})
                    BY <1>1, <3>1, ReorgHeight DEF IInv, TypeOK
                <5>4. Len(tips) \in Nat /\ Len(tips) # 0
                    BY <3>3, <5>3
                <5>5. PICK n : n = Monus(h, 1)
                    OBVIOUS
                <5>6. n \in Nat /\ n < Len(tips)
                    BY <3>3, <5>3, <5>4, <5>5 DEF Monus
                <5>7. Len(tips') = n
                    BY <4>1, <5>3, <5>5, <5>6
                <5> QED BY <5>1, <5>2, <5>4, <5>6, <5>7
            <4> QED BY <4>2, <4>3
        <3> QED BY <3>2, <3>3
    <2>5. ASSUME MarkRow
          PROVE  \/ rows'[t].status = rows[t].status
                 \/ <<rows[t].status, rows'[t].status>> \in Diagram
                 \/ Stale(t)
        <3>1. PICK i : i = Item
            OBVIOUS
        <3>2. PICK e : e = Marked(rows[i.tx])
            OBVIOUS
        <3>3. rows' = [rows EXCEPT ![i.tx] = e] /\ pass.step = "mark"
            BY <2>5, <3>1, <3>2 DEF MarkRow, Write
        <3>4. CASE t # i.tx
            BY <3>3, <3>4
        <3>5. CASE t = i.tx /\ i.row # rows[t]
            <4>1. i \in pass.queue
                BY <1>1, <3>1, <3>3, ItemIsQueued DEF IInv
            <4> QED BY <3>5, <4>1 DEF Stale
        <3>6. CASE t = i.tx /\ i.row = rows[t]
            <4>1. <<rows[t].status, pass.status>> \in Moves
                BY <1>1, <3>1, <3>3, <3>6 DEF IInv, StepIsSound
            <4>2. rows'[t] = e
                BY <3>3, <3>6
            <4>3. e.status = pass.status
                BY <2>1, <3>2, <3>6, <4>1 DEF Marked, Moves, Rows,
                    mark_completed_transaction_as_broadcasted,
                    mark_completed_transaction_as_mined_unconfirmed,
                    mark_completed_transaction_as_confirmed, mark_completed_transaction_as_rejected
            <4> QED BY <4>1, <4>2, <4>3 DEF Moves, Diagram
        <3> QED BY <3>4, <3>5, <3>6
    <2>6. CASE rows' = rows
        BY <2>6
    <2> QED BY <1>1, <2>2, <2>3, <2>4, <2>5, <2>6, RowWriters
<1>2. IInv /\ [Next]_vars => [Step]_vars
    BY <1>1
<1> QED BY <1>2, Invariance, PTL DEF Spec, FollowsDiagram
=============================================================================
