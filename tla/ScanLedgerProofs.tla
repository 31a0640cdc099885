-------------------------- MODULE ScanLedgerProofs --------------------------
(***************************************************************************)
(* What TLAPS proves about ScanLedger, for any blocks, chains and          *)
(* outputs, and whenever the node reorganises.                             *)
(*                                                                         *)
(* The first part is about the tables alone: what process_block and        *)
(* rollback_from_height keep, whatever block and height they are given.    *)
(* The second part is about the scanner: the blocks it hands to            *)
(* process_block are not below the outputs on record.  The third is about  *)
(* scans without a reorganisation in the middle of a cycle: the blocks on  *)
(* record are those of one chain, without a gap, the rows are those of     *)
(* these blocks, and the balance is what they have mined and not spent.    *)
(*                                                                         *)
(* All of it lasts until the rollback of a re-scan is cut short (torn).    *)
(***************************************************************************)
EXTENDS ScanLedger, WellFoundedInduction, FiniteSetTheorems, TLAPS

-----------------------------------------------------------------------------
(* A set of numbers that is not empty has a smallest member ...            *)
LEMMA Smallest ==
    ASSUME NEW T \in SUBSET Nat, T # {}
    PROVE  Min(T) \in T /\ \A y \in T : Min(T) <= y
<1>1. IsWellFoundedOn(OpToRel(<, Nat), Nat)
    BY NatLessThanWellFounded
<1>2. PICK x \in T : \A y \in T : ~ (<<y, x>> \in OpToRel(<, Nat))
    BY <1>1, WFMin
<1>3. \A y \in T : x <= y
    <2>1. ASSUME NEW y \in T PROVE ~ (y < x)
        BY <1>2 DEF OpToRel
    <2> QED BY <2>1
<1> QED BY <1>3 DEF Min

(* ... and, when it is bounded, a largest one.                             *)
LEMMA Largest ==
    ASSUME NEW N \in Nat, NEW T \in SUBSET (0 .. N), T # {}
    PROVE  Max(T) \in T /\ \A y \in T : y <= Max(T)
<1> DEFINE D == {N - x : x \in T}
<1>1. D \in SUBSET Nat /\ D # {}
    <2>1. \A x \in T : N - x \in Nat
        OBVIOUS
    <2>2. PICK x \in T : TRUE
        OBVIOUS
    <2>3. N - x \in D
        BY <2>2
    <2> QED BY <2>1, <2>3
<1>2. Min(D) \in D /\ \A y \in D : Min(D) <= y
    BY <1>1, Smallest
<1>3. PICK x \in T : Min(D) = N - x
    BY <1>2
<1>4. ASSUME NEW y \in T PROVE x >= y
    <2>1. N - y \in D
        OBVIOUS
    <2>2. N - x <= N - y
        BY <1>2, <1>3, <2>1
    <2>3. x \in Nat /\ y \in Nat
        OBVIOUS
    <2> HIDE DEF D
    <2> QED BY <2>2, <2>3
<1> QED BY <1>4 DEF Max

-----------------------------------------------------------------------------
OutputIds == Coins \X Nat
InputIds  == Coins \X Nat \X Nat

OutputRows ==
    [coin : Coins, n : Nat, height : Nat, block : Blocks, status : {"UNSPENT", "SPENT"},
     confirmed : Blocks \cup {NoBlock}, deleted : BOOLEAN]

InputRows == [output : OutputIds, n : Nat, height : Nat, block : Blocks, deleted : BOOLEAN]

ChangeRows ==
    [row : OutputIds \cup InputIds, n : Nat, credit : Nat, debit : Nat, of : Nat,
     reversed : BOOLEAN]

Tables ==
    [outputs : SUBSET OutputRows, inputs : SUBSET InputRows, changes : SUBSET ChangeRows,
     tips : SUBSET Blocks]

(* The numbers of a table are bounded, so that there is a next one.        *)
Bounded(rows) == \E m \in Nat : \A r \in rows : r.n <= m

OutputsAreKeyed(rows) ==
    Bounded(rows) /\ \A r, s \in rows : r.coin = s.coin /\ r.n = s.n => r = s

InputsAreKeyed(rows) ==
    Bounded(rows) /\ \A i, j \in rows : i.output = j.output /\ i.n = j.n => i = j

(* y undoes x.                                                             *)
Undoes(y, x) == y.row = x.row /\ y.of = x.n + 1

(* A change that counts.                                                   *)
Counts(x) == ~ IsReversal(x) /\ ~ x.reversed

(* Balance changes as they should be: numbered, and each reversal paired   *)
(* with one change of the opposite amount that is marked as reversed.      *)
Ledger(changes) ==
    /\ changes \subseteq ChangeRows
    /\ Bounded(changes)
    /\ \A x, y \in changes : x.row = y.row /\ x.n = y.n => x = y
    /\ \A y \in changes : IsReversal(y) =>
          \E x \in changes : /\ Undoes(y, x) /\ x.n < y.n /\ x.reversed
                             /\ x.credit = y.debit /\ x.debit = y.credit
    /\ \A x \in changes : x.reversed => \E y \in changes : Undoes(y, x)
    /\ \A x, y, z \in changes : Undoes(y, x) /\ Undoes(z, x) => y = z
    /\ \A x \in changes : x.reversed => ~ IsReversal(x)

(* A balance change is of a row that exists ...                            *)
ChangesAreOfRows(d) ==
    \A x \in d.changes : \/ \E r \in d.outputs : x.row = OutputId(r)
                         \/ \E i \in d.inputs : x.row = InputId(i)

(* ... and of its amount: a credit of an output, a debit of an input.      *)
AmountsAreRight(changes) ==
    \A x \in changes : ~ IsReversal(x) =>
        /\ x.row \in OutputIds => x.credit = Value[x.row[1]] /\ x.debit = 0
        /\ x.row \in InputIds => x.credit = 0 /\ x.debit = Value[x.row[1]]

(* Active outputs have one credit that counts, deleted ones none ...       *)
Credited(d) ==
    \A r \in d.outputs :
        /\ r.deleted => \A x \in d.changes : x.row = OutputId(r) => ~ Counts(x)
        /\ ~ r.deleted =>
              \E x \in d.changes :
                 /\ x.row = OutputId(r) /\ Counts(x)
                 /\ \A y \in d.changes : y.row = OutputId(r) /\ Counts(y) => y = x

(* ... and active inputs a debit at least.                                 *)
Debited(d) ==
    \A i \in Active(d.inputs) : \E x \in d.changes : x.row = InputId(i) /\ Counts(x)

Sound(d) ==
    /\ d \in Tables
    /\ OutputsAreKeyed(d.outputs)
    /\ InputsAreKeyed(d.inputs)
    /\ Ledger(d.changes)
    /\ ChangesAreOfRows(d)
    /\ AmountsAreRight(d.changes)
    /\ Credited(d)
    /\ Debited(d)

(* Active outputs are at these heights only ...                            *)
HeightsIn(d, heights) == \A r \in Active(d.outputs) : r.height \in heights

(* ... which are those of the blocks on record.                            *)
OnRecord(d) == HeightsIn(d, {Height[b] : b \in d.tips})

(* InputsSpendActiveRows, of any tables.                                   *)
Spends(d) ==
    \A i \in Active(d.inputs) :
        \E r \in Active(d.outputs) :
            OutputId(r) = i.output /\ r.status = "SPENT" /\ r.height <= i.height

(* The tables have finitely many rows.                                     *)
Finite(d) ==
    IsFiniteSet(d.outputs) /\ IsFiniteSet(d.inputs) /\ IsFiniteSet(d.changes)

(* Outputs are active iff a block of T has mined them, once each ...       *)
MinedIn(d, T) ==
    /\ \A r, s \in Active(d.outputs) : r.coin = s.coin => r = s
    /\ \A r \in Active(d.outputs) :
          r.block \in T /\ r.height = Height[r.block] /\ r.coin \in Outs[r.block]
    /\ \A b \in T : \A c \in Outs[b] : \E r \in Active(d.outputs) : r.coin = c /\ r.block = b

(* ... and have an active input iff a block of T has spent them.           *)
SpentIn(d, T) ==
    /\ \A i, j \in Active(d.inputs) : i.output = j.output => i = j
    /\ \A i \in Active(d.inputs) :
          i.block \in T /\ i.height = Height[i.block] /\ i.output[1] \in Ins[i.block]
    /\ \A b \in T : \A r \in Active(d.outputs) : r.coin \in Ins[b] =>
          \E i \in Active(d.inputs) : i.output = OutputId(r) /\ i.block = b

(* An active input has one debit that counts, a deleted one none.          *)
DebitedOnce(d) ==
    \A i \in d.inputs :
        /\ i.deleted => \A x \in d.changes : x.row = InputId(i) => ~ Counts(x)
        /\ \A x, y \in d.changes :
              x.row = InputId(i) /\ y.row = InputId(i) /\ Counts(x) /\ Counts(y) => x = y

(* The tables tell of the blocks on record, no more and no less.           *)
Matches(d) == MinedIn(d, d.tips) /\ SpentIn(d, d.tips) /\ DebitedOnce(d) /\ Finite(d)

-----------------------------------------------------------------------------
(* The scanner                                                             *)

TypeOK ==
    /\ chain \in Chains
    /\ db \in Tables
    /\ pc \in {"idle", "check", "settle", "open", "stream", "stopped"}
    /\ why \in {"prepare", "batch", "poll"}
    /\ unchecked \subseteq Blocks /\ forked \in BOOLEAN
    /\ next \in Nat /\ since \in Nat
    /\ cursor = NoBlock \/ cursor \in [header : Blocks, offset : Nat]
    /\ queue \in Seq(Seq(Blocks) \ {<<>>})
    /\ raced \in BOOLEAN /\ polled \in BOOLEAN /\ behind \in BOOLEAN
    /\ reorgs \in Nat /\ events \in Nat

(* The heights in a batch ascend.                                          *)
Ascending(batch) ==
    \A j, k \in DOMAIN batch : j < k => Height[batch[j]] < Height[batch[k]]

(* Where the downloader is.                                                *)
Position == Height[cursor.header] + cursor.offset

(* A stream is open in the middle of a cycle only.                         *)
Streaming == pc = "stream" \/ (pc \in {"check", "settle"} /\ why = "batch")

StreamIsClosed == ~ Streaming => cursor = NoBlock /\ queue = <<>>

(* Batches come in order, and from the next height on.                     *)
StreamIsInOrder ==
    /\ \A k \in DOMAIN queue :
          /\ Ascending(queue[k])
          /\ \A i \in DOMAIN queue[k] :
                /\ next <= Height[queue[k][i]]
                /\ cursor # NoBlock => Height[queue[k][i]] < Position
                /\ \A l \in DOMAIN queue : k < l =>
                      \A j \in DOMAIN queue[l] : Height[queue[k][i]] < Height[queue[l][j]]
    /\ cursor # NoBlock => next <= Position

(* No recorded block is above the next height; between two batches all are *)
(* below it.  A check compares all of them, and while it has not found a   *)
(* fork it has to.                                                         *)
RecordIsBelow ==
    /\ pc = "check" => unchecked \subseteq db.tips /\ (~ forked => unchecked = db.tips)
    /\ \/ pc \in {"open", "stream"}
       \/ pc = "check" /\ why = "poll"
       \/ pc = "settle" /\ why # "batch" /\ ~ forked
       => \A b \in db.tips : Height[b] <= next
    /\ \/ pc = "check" /\ why = "batch"
       \/ pc = "settle" /\ why = "batch" /\ ~ forked
       => \A b \in db.tips : Height[b] < next

IInv ==
    /\ TypeOK
    /\ Sound(db)
    /\ OnRecord(db)
    /\ StreamIsClosed
    /\ ~ behind => StreamIsInOrder /\ RecordIsBelow /\ Spends(db)

-----------------------------------------------------------------------------
(* Balance changes                                                         *)

(* The next number is above all that are taken.                            *)
LEMMA NextIsFresh ==
    ASSUME NEW rows, \A r \in rows : r.n \in Nat, NEW m \in Nat, \A r \in rows : r.n <= m
    PROVE  /\ NextNumber(rows) \in Nat /\ NextNumber(rows) <= m + 1
           /\ \A r \in rows : r.n < NextNumber(rows)
<1>1. CASE rows = {}
    BY <1>1 DEF NextNumber
<1>2. CASE rows # {}
    <2>1. PICK ns : ns = {r.n : r \in rows}
        OBVIOUS
    <2>2. ns \in SUBSET (0 .. m) /\ ns # {} /\ \A r \in rows : r.n \in ns
        BY <1>2, <2>1
    <2>3. Max(ns) \in ns /\ \A k \in ns : k <= Max(ns)
        BY <2>2, Largest
    <2>4. PICK top : top = Max(ns)
        OBVIOUS
    <2>5. top \in 0 .. m /\ \A r \in rows : r.n <= top
        BY <2>2, <2>3, <2>4
    <2>6. NextNumber(rows) = top + 1
        BY <1>2, <2>1, <2>4 DEF NextNumber
    <2> QED BY <2>5, <2>6
<1> QED BY <1>1, <1>2

(* A new balance change has a number of its own, and the next one.         *)
IsNewChange(y, d, id, credit, debit, of) ==
    /\ y \in ChangeRows
    /\ y.row = id /\ y.credit = credit /\ y.debit = debit /\ y.of = of /\ ~ y.reversed
    /\ \A x \in d.changes : x.row = id => x.n < y.n
    /\ \A m \in Nat : (\A x \in d.changes : x.n <= m) => y.n <= m + 1

(* What Change returns is one.                                             *)
LEMMA ChangeIsNew ==
    ASSUME NEW d, Ledger(d.changes), NEW id \in OutputIds \cup InputIds,
           NEW credit \in Nat, NEW debit \in Nat, NEW of \in Nat
    PROVE  IsNewChange(Change(d, id, credit, debit, of), d, id, credit, debit, of)
<1>0. PICK y : y = Change(d, id, credit, debit, of)
    OBVIOUS
<1>1. PICK same : same = {x \in d.changes : x.row = id}
    OBVIOUS
<1>2. PICK n : n = NextNumber(same)
    OBVIOUS
<1>3. \A x \in same : x \in d.changes /\ x \in ChangeRows /\ x.n \in Nat
    BY <1>1 DEF Ledger, ChangeRows
<1>4. ASSUME NEW m \in Nat, \A x \in d.changes : x.n <= m
      PROVE  n \in Nat /\ n <= m + 1 /\ \A x \in same : x.n < n
    BY <1>2, <1>3, <1>4, NextIsFresh
<1>5. y = [row |-> id, n |-> n, credit |-> credit, debit |-> debit, of |-> of, reversed |-> FALSE]
    BY <1>0, <1>1, <1>2 DEF Change
<1>6. n \in Nat /\ \A x \in d.changes : x.row = id => x.n < n
    <2>1. PICK m \in Nat : \A x \in d.changes : x.n <= m
        BY DEF Ledger, Bounded
    <2> QED BY <1>1, <1>4, <2>1
<1>7. y \in ChangeRows
    BY ONLY <1>5, <1>6, id \in OutputIds \cup InputIds, credit \in Nat, debit \in Nat, of \in Nat
       DEF ChangeRows
<1>8. /\ y.row = id /\ y.n = n /\ y.credit = credit /\ y.debit = debit /\ y.of = of
      /\ y.reversed = FALSE
    BY ONLY <1>5
<1> QED BY <1>0, <1>4, <1>6, <1>7, <1>8 DEF IsNewChange

(* Original changes may be added to a ledger.                              *)
LEMMA AddedToLedger ==
    ASSUME NEW C, Ledger(C), NEW new \in SUBSET ChangeRows, NEW m \in Nat,
           \A x \in new : x.of = 0 /\ ~ x.reversed /\ x.n <= m,
           \A x \in new : \A y \in C : x.row = y.row => y.n < x.n,
           \A x, y \in new : x.row = y.row => x = y
    PROVE  Ledger(C \cup new)
<1> DEFINE D == C \cup new
<1>1. D \subseteq ChangeRows
    BY DEF Ledger
<1>2. \A x \in D : x.n \in Nat /\ x.of \in Nat
    BY <1>1 DEF ChangeRows
<1>3. Bounded(D)
    <2>1. PICK k \in Nat : \A x \in C : x.n <= k
        BY DEF Ledger, Bounded
    <2>2. \A x \in D : x.n <= k + m
        BY <1>2, <2>1
    <2>3. k + m \in Nat
        OBVIOUS
    <2> QED BY <2>2, <2>3 DEF Bounded
<1>4. \A x, y \in D : x.row = y.row /\ x.n = y.n => x = y
    <2> SUFFICES ASSUME NEW x \in D, NEW y \in D, x.row = y.row, x.n = y.n PROVE x = y
        OBVIOUS
    <2>1. CASE x \in C /\ y \in C
        BY <2>1 DEF Ledger
    <2>2. CASE x \in new /\ y \in new
        BY <2>2
    <2>3. CASE x \in C /\ y \in new
        BY <1>2, <2>3
    <2>4. CASE x \in new /\ y \in C
        BY <1>2, <2>4
    <2> QED BY <2>1, <2>2, <2>3, <2>4
<1>5. \A y \in D : IsReversal(y) =>
          \E x \in D : /\ Undoes(y, x) /\ x.n < y.n /\ x.reversed
                       /\ x.credit = y.debit /\ x.debit = y.credit
    BY DEF Ledger, IsReversal
<1>6. \A x \in D : x.reversed => \E y \in D : Undoes(y, x)
    BY DEF Ledger
<1>7. ASSUME NEW x \in D, NEW y \in D, Undoes(y, x)
      PROVE  x \in C /\ y \in C
    <2>1. y.of # 0
        BY <1>2, <1>7 DEF Undoes
    <2>2. y \in C
        BY <2>1
    <2>3. PICK w \in C : Undoes(y, w)
        BY <2>1, <2>2 DEF Ledger, IsReversal
    <2>4. w.n = x.n /\ w.row = x.row
        BY <1>2, <1>7, <2>3 DEF Undoes
    <2>5. x \notin new
        BY <1>2, <2>4
    <2> QED BY <2>2, <2>5
<1>8. \A x, y, z \in D : Undoes(y, x) /\ Undoes(z, x) => y = z
    BY <1>7 DEF Ledger
<1>9. \A x \in D : x.reversed => ~ IsReversal(x)
    BY DEF Ledger
<1> HIDE DEF D
<1>10. Ledger(D)
    BY <1>1, <1>3, <1>4, <1>5, <1>6, <1>8, <1>9 DEF Ledger
<1> QED BY <1>10 DEF D

(* For every row of `ids` there are the change last[id] to be reversed,    *)
(* and the change undo[id] that reverses it.                               *)
Reverses(C, ids, last, undo) ==
    /\ last \in [ids -> C] /\ undo \in [ids -> ChangeRows]
    /\ \A id \in ids : last[id].row = id /\ Counts(last[id])
    /\ \A id \in ids : /\ undo[id].row = id /\ undo[id].of = last[id].n + 1
                       /\ ~ undo[id].reversed
                       /\ undo[id].credit = last[id].debit
                       /\ undo[id].debit = last[id].credit
    /\ \A id \in ids : \A x \in C : x.row = id => x.n < undo[id].n
    /\ \E m \in Nat : \A id \in ids : undo[id].n <= m

WithReversals(C, ids, last, undo) ==
    {IF x.row \in ids /\ x = last[x.row] THEN [x EXCEPT !.reversed = TRUE] ELSE x : x \in C}
    \cup {undo[id] : id \in ids}

(* What may be said of the outcome: only last[id] has stopped counting.    *)
AreReversed(C, ids, last, D) ==
    /\ \A x \in C : x.row \notin ids \/ x # last[x.row] => x \in D
    /\ \A z \in D : Counts(z) => z \in C /\ (z.row \in ids => z # last[z.row])
    /\ \A z \in D : \E x \in C : x.row = z.row
    /\ \A z \in D : ~ IsReversal(z) =>
          \E x \in C : /\ x.row = z.row /\ ~ IsReversal(x)
                       /\ x.credit = z.credit /\ x.debit = z.debit

(* The ledger stays paired.                                                *)
LEMMA ReversedInLedger ==
    ASSUME NEW C, NEW ids, NEW last, NEW undo, Ledger(C), Reverses(C, ids, last, undo)
    PROVE  /\ Ledger(WithReversals(C, ids, last, undo))
           /\ AreReversed(C, ids, last, WithReversals(C, ids, last, undo))
<1> USE DEF Reverses
<1>a. PICK D : D = WithReversals(C, ids, last, undo)
    OBVIOUS
<1>b. D = {IF x.row \in ids /\ x = last[x.row] THEN [x EXCEPT !.reversed = TRUE] ELSE x : x \in C}
          \cup {undo[id] : id \in ids}
    BY <1>a DEF WithReversals
<1>c. PICK m \in Nat : \A id \in ids : undo[id].n <= m
    OBVIOUS
<1> DEFINE Kept(z) == z \in C /\ (z.row \in ids => z # last[z.row])
<1>1. PICK mark : mark = [id \in ids |-> [last[id] EXCEPT !.reversed = TRUE]]
    OBVIOUS
<1>2. C \subseteq ChangeRows /\ \A id \in ids : last[id] \in C
    BY DEF Ledger
<1>3. \A id \in ids : /\ mark[id] \in ChangeRows /\ mark[id].row = id /\ mark[id].reversed
                      /\ mark[id].n = last[id].n /\ mark[id].of = last[id].of
                      /\ mark[id].credit = last[id].credit /\ mark[id].debit = last[id].debit
    <2> SUFFICES ASSUME NEW id \in ids
                 PROVE  /\ mark[id] \in ChangeRows /\ mark[id].row = id /\ mark[id].reversed
                        /\ mark[id].n = last[id].n /\ mark[id].of = last[id].of
                        /\ mark[id].credit = last[id].credit /\ mark[id].debit = last[id].debit
        OBVIOUS
    <2>1. PICK x \in ChangeRows : x = last[id] /\ x.row = id
        BY <1>2
    <2>2. mark[id] = [x EXCEPT !.reversed = TRUE]
        BY <1>1, <2>1
    <2>3. /\ [x EXCEPT !.reversed = TRUE] \in ChangeRows
          /\ [x EXCEPT !.reversed = TRUE].row = x.row /\ [x EXCEPT !.reversed = TRUE].reversed
          /\ [x EXCEPT !.reversed = TRUE].n = x.n /\ [x EXCEPT !.reversed = TRUE].of = x.of
          /\ [x EXCEPT !.reversed = TRUE].credit = x.credit
          /\ [x EXCEPT !.reversed = TRUE].debit = x.debit
        BY ONLY x \in ChangeRows DEF ChangeRows
    <2> QED BY <2>1, <2>2, <2>3
<1>4. \A z \in D : \/ Kept(z)
                   \/ \E id \in ids : z = mark[id]
                   \/ \E id \in ids : z = undo[id]
    <2> SUFFICES ASSUME NEW z \in D, ~ \E id \in ids : z = undo[id]
                 PROVE  Kept(z) \/ \E id \in ids : z = mark[id]
        OBVIOUS
    <2>1. PICK x \in C : z = IF x.row \in ids /\ x = last[x.row]
                               THEN [x EXCEPT !.reversed = TRUE] ELSE x
        BY <1>b
    <2>2. CASE x.row \in ids /\ x = last[x.row]
        BY <1>1, <2>1, <2>2
    <2>3. CASE ~ (x.row \in ids /\ x = last[x.row])
        BY <2>1, <2>3
    <2> QED BY <2>2, <2>3
<1>5. \A z : Kept(z) => z \in D
    <2> SUFFICES ASSUME NEW z \in C, ~ (z.row \in ids /\ z = last[z.row])
                 PROVE  z \in D
        OBVIOUS
    <2>1. z = IF z.row \in ids /\ z = last[z.row] THEN [z EXCEPT !.reversed = TRUE] ELSE z
        OBVIOUS
    <2> QED BY <1>b, <2>1
<1>6. \A id \in ids : mark[id] \in D /\ undo[id] \in D
    <2> SUFFICES ASSUME NEW id \in ids PROVE mark[id] \in D /\ undo[id] \in D
        OBVIOUS
    <2>1. last[id] \in C /\ last[id].row \in ids /\ last[id] = last[last[id].row]
        OBVIOUS
    <2>2. mark[id] = IF last[id].row \in ids /\ last[id] = last[last[id].row]
                       THEN [last[id] EXCEPT !.reversed = TRUE] ELSE last[id]
        BY <1>1, <2>1
    <2>3. undo[id] \in D
        BY <1>b
    <2>4. PICK x \in C : mark[id] = IF x.row \in ids /\ x = last[x.row]
                                      THEN [x EXCEPT !.reversed = TRUE] ELSE x
        BY <2>1, <2>2
    <2> QED BY ONLY <1>b, <2>3, <2>4
<1> HIDE DEF Kept
<1>7. /\ \A z : Kept(z) => /\ z \in C /\ z \in ChangeRows
                           /\ \A id \in ids : z # last[id]
      /\ \A z \in C : (\A id \in ids : z # last[id]) => Kept(z)
    BY <1>2 DEF Kept
<1>8. \A z \in ChangeRows : z.n \in Nat /\ z.of \in Nat
    BY DEF ChangeRows
<1>9. \A x, y \in C : x.row = y.row /\ x.n = y.n => x = y
    BY DEF Ledger
<1>10. \A id \in ids : ~ last[id].reversed /\ last[id].of = 0 /\ last[id].n < undo[id].n
    BY <1>2 DEF Counts, IsReversal
<1>11. D \subseteq ChangeRows
    BY <1>3, <1>4, <1>7
<1>12. Bounded(D)
    <2>1. PICK k \in Nat : \A x \in C : x.n <= k
        BY DEF Ledger, Bounded
    <2>2. k + m \in Nat
        OBVIOUS
    <2>3. ASSUME NEW z \in D PROVE z.n <= k + m
        <3>1. CASE Kept(z)
            BY <1>7, <1>8, <2>1, <3>1
        <3>2. CASE \E id \in ids : z = mark[id]
            BY <1>2, <1>3, <1>8, <2>1, <3>2
        <3>3. CASE \E id \in ids : z = undo[id]
            BY <1>c, <1>8, <3>3
        <3> QED BY <1>4, <3>1, <3>2, <3>3
    <2> QED BY <2>2, <2>3 DEF Bounded
<1>13. \A x, y \in D : x.row = y.row /\ x.n = y.n => x = y
    <2> SUFFICES ASSUME NEW x \in D, NEW y \in D, x.row = y.row, x.n = y.n PROVE x = y
        OBVIOUS
    <2>0. \A id \in ids : \A z : Kept(z) /\ z.row = id => z.n # mark[id].n /\ z.n < undo[id].n
        BY <1>2, <1>3, <1>7, <1>9
    <2>1. CASE Kept(x) /\ Kept(y)
        BY <1>7, <1>9, <2>1
    <2>2. CASE Kept(x) /\ ~ Kept(y)
        BY <1>3, <1>4, <1>8, <2>0, <2>2
    <2>3. CASE ~ Kept(x) /\ Kept(y)
        BY <1>3, <1>4, <1>8, <2>0, <2>3
    <2>4. CASE ~ Kept(x) /\ ~ Kept(y)
        BY <1>3, <1>4, <1>8, <1>10, <2>4
    <2> QED BY <2>1, <2>2, <2>3, <2>4
<1>14. \A y \in D : IsReversal(y) => Kept(y) \/ \E id \in ids : y = undo[id]
    BY <1>3, <1>4, <1>10 DEF IsReversal
<1>15. ASSUME NEW y \in D, IsReversal(y)
       PROVE  \E x \in D : /\ Undoes(y, x) /\ x.n < y.n /\ x.reversed
                           /\ x.credit = y.debit /\ x.debit = y.credit
    <2>1. CASE Kept(y)
        <3>1. PICK x \in C : /\ Undoes(y, x) /\ x.n < y.n /\ x.reversed
                             /\ x.credit = y.debit /\ x.debit = y.credit
            BY <1>7, <1>15, <2>1 DEF Ledger
        <3>2. Kept(x)
            BY <1>7, <1>10, <3>1
        <3> QED BY <1>5, <3>1, <3>2
    <2>2. CASE \E id \in ids : y = undo[id]
        <3>1. PICK id \in ids : y = undo[id]
            BY <2>2
        <3>2. Undoes(y, mark[id])
            BY <1>3, <3>1 DEF Undoes
        <3> QED BY <1>3, <1>6, <1>10, <3>1, <3>2
    <2> QED BY <1>14, <1>15, <2>1, <2>2
<1>16. ASSUME NEW x \in D, x.reversed
       PROVE  \E y \in D : Undoes(y, x)
    <2>1. CASE Kept(x)
        <3>1. PICK y \in C : Undoes(y, x)
            BY <1>7, <1>16, <2>1 DEF Ledger
        <3>2. y.of # 0
            BY <1>7, <1>8, <2>1, <3>1 DEF Undoes
        <3>3. Kept(y)
            BY <1>7, <1>10, <3>2
        <3> QED BY <1>5, <3>1, <3>3
    <2>2. CASE \E id \in ids : x = mark[id]
        <3>1. PICK id \in ids : x = mark[id]
            BY <2>2
        <3>2. Undoes(undo[id], x)
            BY <1>3, <3>1 DEF Undoes
        <3> QED BY <1>6, <3>2
    <2> QED BY <1>4, <1>16, <2>1, <2>2
<1>17. \A x \in C : \A y \in C : Undoes(y, x) => x.reversed
    <2> SUFFICES ASSUME NEW x \in C, NEW y \in C, Undoes(y, x) PROVE x.reversed
        OBVIOUS
    <2>1. x.n \in Nat /\ y.of = x.n + 1 /\ y.row = x.row
        BY <1>2, <1>8 DEF Undoes
    <2>2. PICK w \in C : Undoes(y, w) /\ w.reversed
        BY <2>1 DEF Ledger, IsReversal
    <2>3. w.row = x.row /\ w.n = x.n
        <3>1. w.n \in Nat /\ y.row = w.row /\ y.of = w.n + 1
            BY <1>2, <1>8, <2>2 DEF Undoes
        <3> QED BY ONLY <2>1, <3>1
    <2> QED BY <1>9, <2>2, <2>3
<1>18. ASSUME NEW x \in D, NEW y \in D, Undoes(y, x)
       PROVE  \/ Kept(x) /\ Kept(y)
              \/ \E id \in ids : x = mark[id] /\ y = undo[id]
    <2>1. y.of = x.n + 1 /\ y.row = x.row /\ x.n \in Nat
        BY <1>8, <1>11, <1>18 DEF Undoes
    <2>2. IsReversal(y)
        BY <2>1 DEF IsReversal
    <2>3. CASE Kept(y)
        <3>1. PICK w \in C : Undoes(y, w) /\ w.reversed
            BY <1>7, <2>2, <2>3 DEF Ledger
        <3>2. w.row = x.row /\ w.n = x.n
            <4>1. w.n \in Nat /\ y.row = w.row /\ y.of = w.n + 1
                BY <1>2, <1>8, <3>1 DEF Undoes
            <4> QED BY ONLY <2>1, <4>1
        <3>3. ~ \E id \in ids : x = undo[id]
            BY <1>2, <1>8, <3>2
        <3>4. ~ \E id \in ids : x = mark[id]
            BY <1>2, <1>3, <1>9, <1>10, <3>1, <3>2
        <3> QED BY <1>4, <2>3, <3>3, <3>4
    <2>4. CASE \E id \in ids : y = undo[id]
        <3>1. PICK id \in ids : y = undo[id]
            BY <2>4
        <3>2. x.row = id /\ x.n = last[id].n
            <4>1. last[id].n \in Nat /\ y.of = last[id].n + 1 /\ y.row = id
                BY <1>2, <1>8, <3>1
            <4> QED BY ONLY <2>1, <4>1
        <3>3. x # undo[id]
            BY <1>2, <1>8, <1>10, <3>2
        <3>4. ~ Kept(x)
            BY <1>2, <1>7, <1>9, <3>2
        <3>5. x = mark[id]
            BY <1>3, <1>4, <3>2, <3>3, <3>4
        <3> QED BY <3>1, <3>5
    <2> QED BY <1>14, <2>2, <2>3, <2>4
<1>19. \A x, y, z \in D : Undoes(y, x) /\ Undoes(z, x) => y = z
    <2> SUFFICES ASSUME NEW x \in D, NEW y \in D, NEW z \in D, Undoes(y, x), Undoes(z, x)
                 PROVE  y = z
        OBVIOUS
    <2>1. CASE Kept(x)
        <3>1. ~ \E id \in ids : x = mark[id]
            BY <1>2, <1>3, <1>7, <1>9, <2>1
        <3>2. Kept(y) /\ Kept(z)
            BY <1>18, <3>1
        <3>3. x \in C /\ y \in C /\ z \in C
            BY <1>7, <2>1, <3>2
        <3> QED BY <3>3 DEF Ledger
    <2>2. CASE ~ Kept(x)
        <3>1. PICK id \in ids : x = mark[id] /\ y = undo[id]
            BY <1>18, <2>2
        <3>2. PICK jd \in ids : x = mark[jd] /\ z = undo[jd]
            BY <1>18, <2>2
        <3>3. id = jd
            <4>1. mark[id].row = id /\ mark[jd].row = jd
                BY <1>3
            <4> QED BY <3>1, <3>2, <4>1
        <3> QED BY <3>1, <3>2, <3>3
    <2> QED BY <2>1, <2>2
<1>20. Ledger(D)
    <2>1. ASSUME NEW x \in D, x.reversed PROVE ~ IsReversal(x)
        <3>1. CASE Kept(x)
            BY <1>7, <2>1, <3>1 DEF Ledger
        <3>2. CASE \E id \in ids : x = mark[id]
            BY <1>3, <1>10, <3>2 DEF IsReversal
        <3>3. CASE \E id \in ids : x = undo[id]
            BY <2>1, <3>3
        <3> QED BY <1>4, <3>1, <3>2, <3>3
    <2> QED BY <1>11, <1>12, <1>13, <1>15, <1>16, <1>19, <2>1 DEF Ledger
<1>21. \A z \in D : Counts(z) => Kept(z)
    <2>1. \A id \in ids : ~ Counts(mark[id])
        BY <1>3 DEF Counts
    <2>2. \A id \in ids : ~ Counts(undo[id])
        BY <1>2, <1>8 DEF Counts, IsReversal
    <2> QED BY <1>4, <2>1, <2>2
<1>22. \A z \in D : \E x \in C : x.row = z.row
    BY <1>2, <1>3, <1>4, <1>7
<1>23. ASSUME NEW z \in D, ~ IsReversal(z)
       PROVE  \E x \in C : /\ x.row = z.row /\ ~ IsReversal(x)
                           /\ x.credit = z.credit /\ x.debit = z.debit
    <2>1. CASE Kept(z)
        BY <1>7, <1>23, <2>1
    <2>2. CASE \E id \in ids : z = mark[id]
        BY <1>2, <1>3, <1>10, <2>2 DEF IsReversal
    <2>3. CASE \E id \in ids : z = undo[id]
        BY <1>2, <1>8, <1>23, <2>3 DEF IsReversal
    <2> QED BY <1>4, <2>1, <2>2, <2>3
<1>24. AreReversed(C, ids, last, D)
    BY <1>5, <1>21, <1>22, <1>23 DEF AreReversed, Kept
<1> QED BY <1>a, <1>20, <1>24

(* A set stays finite when its members are rewritten.                      *)
LEMMA ImageIsFinite ==
    ASSUME NEW S, IsFiniteSet(S), NEW f
    PROVE  IsFiniteSet({f[x] : x \in S})
<1> DEFINE T == {f[x] : x \in S}
           g == [x \in S |-> f[x]]
<1>1. g \in Surjection(S, T)
    BY DEF Surjection
<1> HIDE DEF T, g
<1>2. IsFiniteSet(T)
    BY <1>1, FS_Surjection
<1> QED BY <1>2 DEF T

(* Ids of outputs and of inputs differ, and name an output.                *)
LEMMA IdTypes ==
    /\ \A id \in OutputIds : id \notin InputIds /\ id[1] \in Coins
    /\ \A id \in InputIds : id \notin OutputIds /\ id[1] \in Coins
BY DEF OutputIds, InputIds

(* The change that get_balance_change_id finds counts.                     *)
LEMMA BalanceChangeId ==
    ASSUME NEW d, Ledger(d.changes), NEW id, \E x \in d.changes : x.row = id /\ Counts(x)
    PROVE  \E x \in d.changes : x.row = id /\ Counts(x) /\ get_balance_change_id(d, id) = x.n + 1
<1>1. PICK live : live = {x \in d.changes : x.row = id /\ ~ IsReversal(x) /\ ~ x.reversed}
    OBVIOUS
<1>2. PICK ns : ns = {x.n : x \in live}
    OBVIOUS
<1>3. PICK m \in Nat : \A x \in d.changes : x.n <= m
    BY DEF Ledger, Bounded
<1>4. live # {} /\ \A x \in live : x \in d.changes /\ x.row = id /\ Counts(x)
    BY <1>1 DEF Counts
<1>5. ns \in SUBSET (0 .. m) /\ ns # {}
    <2>1. \A x \in live : x.n \in Nat /\ x.n <= m
        BY <1>3, <1>4 DEF Ledger, ChangeRows
    <2> QED BY <1>2, <1>4, <2>1
<1>6. Max(ns) \in ns
    BY <1>5, Largest
<1>7. PICK x \in live : x.n = Max(ns)
    BY <1>2, <1>6
<1>8. get_balance_change_id(d, id) = x.n + 1
    BY <1>1, <1>2, <1>4, <1>7 DEF get_balance_change_id
<1> QED BY <1>4, <1>8

(* Each of the rows has a change that counts: its credit if outputs are    *)
(* rolled back, its debit if inputs are.                                   *)
Reversible(d, ids, credited) ==
    /\ d \in Tables /\ Ledger(d.changes) /\ AmountsAreRight(d.changes)
    /\ credited => ids \subseteq OutputIds
    /\ ~ credited => ids \subseteq InputIds
    /\ \A id \in ids : \E x \in d.changes : x.row = id /\ Counts(x)

(* Nothing but the changes differs; each row has one less that counts.     *)
HasReversed(d, ids, e) ==
    /\ e \in Tables /\ e.outputs = d.outputs /\ e.inputs = d.inputs /\ e.tips = d.tips
    /\ Ledger(e.changes) /\ AmountsAreRight(e.changes)
    /\ \A x \in d.changes : x.row \notin ids => x \in e.changes
    /\ \A z \in e.changes : Counts(z) =>
          /\ z \in d.changes
          /\ z.row \in ids => \E x \in d.changes : x.row = z.row /\ Counts(x) /\ x # z
    /\ \A z \in e.changes : \E x \in d.changes : x.row = z.row
    /\ IsFiniteSet(d.changes) /\ IsFiniteSet(ids) => IsFiniteSet(e.changes)

(* The reversal of the changes of some rows leaves a ledger.               *)
LEMMA ReverseKeeps ==
    ASSUME NEW d, NEW ids, NEW credited \in BOOLEAN, Reversible(d, ids, credited)
    PROVE  HasReversed(d, ids, ReverseChanges(d, ids, credited))
<1> USE DEF Reversible
<1>0. PICK e : e = ReverseChanges(d, ids, credited)
    OBVIOUS
<1>1. PICK C : C = d.changes
    OBVIOUS
<1>2. PICK m \in Nat : \A x \in C : x.n <= m
    BY <1>1 DEF Ledger, Bounded
<1>3. PICK last : last = [id \in ids |-> CHOOSE x \in C :
                            x.row = id /\ Counts(x) /\ get_balance_change_id(d, id) = x.n + 1]
    OBVIOUS
<1>4. /\ last \in [ids -> C]
      /\ \A id \in ids : /\ last[id] \in C /\ last[id].row = id /\ Counts(last[id])
                         /\ get_balance_change_id(d, id) = last[id].n + 1
    <2> SUFFICES ASSUME NEW id \in ids
                 PROVE  /\ last[id] \in C /\ last[id].row = id /\ Counts(last[id])
                        /\ get_balance_change_id(d, id) = last[id].n + 1
        BY <1>3
    <2>1. \E x \in C : x.row = id /\ Counts(x) /\ get_balance_change_id(d, id) = x.n + 1
        BY <1>1, BalanceChangeId
    <2> QED BY <1>3, <2>1
<1>5. /\ C \subseteq ChangeRows
      /\ \A x, y \in C : x.row = y.row /\ x.n = y.n => x = y
      /\ \A x \in C : x.n \in Nat
    BY <1>1 DEF Ledger, ChangeRows
<1>6. PICK undo : undo = [id \in ids |->
                            Change(d, id, IF credited THEN 0 ELSE Value[id[1]],
                                          IF credited THEN Value[id[1]] ELSE 0,
                                          get_balance_change_id(d, id))]
    OBVIOUS
<1>7. ASSUME NEW id \in ids
      PROVE  /\ undo[id] \in ChangeRows /\ undo[id].n <= m + 1
             /\ undo[id].row = id /\ undo[id].of = last[id].n + 1
             /\ ~ undo[id].reversed
             /\ undo[id].credit = last[id].debit /\ undo[id].debit = last[id].credit
             /\ \A x \in C : x.row = id => x.n < undo[id].n
    <2>1. id \in OutputIds \cup InputIds /\ id[1] \in Coins /\ Value[id[1]] \in Nat
        BY IdTypes, BlockConstants DEF Coins
    <2>2. PICK credit \in Nat : credit = IF credited THEN 0 ELSE Value[id[1]]
        BY <2>1
    <2>3. PICK debit \in Nat : debit = IF credited THEN Value[id[1]] ELSE 0
        BY <2>1
    <2>4. PICK of \in Nat : of = last[id].n + 1 /\ of = get_balance_change_id(d, id)
        BY <1>4, <1>5
    <2>5. undo[id] = Change(d, id, credit, debit, of)
        BY <1>6, <2>2, <2>3, <2>4
    <2>6. IsNewChange(undo[id], d, id, credit, debit, of)
        BY <2>1, <2>5, ChangeIsNew
    <2>7. last[id].debit = credit /\ last[id].credit = debit
        <3>1. last[id] \in d.changes /\ last[id].row = id /\ ~ IsReversal(last[id])
            BY <1>1, <1>4 DEF Counts
        <3>2. CASE credited
            <4>1. id \in OutputIds
                BY <3>2
            <4> QED BY <2>2, <2>3, <3>1, <3>2, <4>1 DEF AmountsAreRight
        <3>3. CASE ~ credited
            <4>1. id \in InputIds
                BY <3>3
            <4> QED BY <2>2, <2>3, <3>1, <3>3, <4>1 DEF AmountsAreRight
        <3> QED BY <3>2, <3>3
    <2> QED BY <1>1, <1>2, <2>4, <2>6, <2>7 DEF IsNewChange
<1>8. undo \in [ids -> ChangeRows]
    BY <1>6, <1>7
<1>9. PICK D : D = WithReversals(C, ids, last, undo)
    OBVIOUS
<1>10. e = [d EXCEPT !.changes = D]
    <2>1. \A x \in C : (x.row \in ids /\ x.n + 1 = get_balance_change_id(d, x.row))
                          <=> (x.row \in ids /\ x = last[x.row])
        <3> SUFFICES ASSUME NEW x \in C, x.row \in ids
                     PROVE  x.n + 1 = last[x.row].n + 1 <=> x = last[x.row]
            BY <1>4
        <3>1. last[x.row] \in C /\ last[x.row].row = x.row
            BY <1>4
        <3>2. x.n \in Nat /\ last[x.row].n \in Nat
            BY <1>5, <3>1
        <3> QED BY <1>5, <3>1, <3>2
    <2>2. {IF x.row \in ids /\ x.n + 1 = get_balance_change_id(d, x.row)
             THEN [x EXCEPT !.reversed = TRUE] ELSE x : x \in C}
          = {IF x.row \in ids /\ x = last[x.row]
               THEN [x EXCEPT !.reversed = TRUE] ELSE x : x \in C}
        <3>1. \A x \in C : (IF x.row \in ids /\ x.n + 1 = get_balance_change_id(d, x.row)
                              THEN [x EXCEPT !.reversed = TRUE] ELSE x)
                           = (IF x.row \in ids /\ x = last[x.row]
                                THEN [x EXCEPT !.reversed = TRUE] ELSE x)
            BY <2>1
        <3> QED BY ONLY <3>1
    <2>3. {undo[id] : id \in ids}
          = {Change(d, id, IF credited THEN 0 ELSE Value[id[1]],
                           IF credited THEN Value[id[1]] ELSE 0,
                           get_balance_change_id(d, id)) : id \in ids}
        BY <1>6
    <2> QED BY <1>0, <1>1, <1>9, <2>2, <2>3 DEF ReverseChanges, WithReversals
<1>11. Reverses(C, ids, last, undo)
    <2>1. m + 1 \in Nat
        OBVIOUS
    <2> QED BY <1>4, <1>7, <1>8, <2>1 DEF Reverses
<1>12. Ledger(D) /\ AreReversed(C, ids, last, D)
    BY <1>1, <1>9, <1>11, ReversedInLedger
<1>13. /\ e \in Tables /\ e.outputs = d.outputs /\ e.inputs = d.inputs /\ e.tips = d.tips
       /\ e.changes = D
    <2>1. D \in SUBSET ChangeRows
        BY <1>12 DEF Ledger
    <2> QED BY <1>10, <2>1 DEF Tables
<1>14. AmountsAreRight(D)
    BY <1>1, <1>12 DEF AmountsAreRight, AreReversed
<1>15. \A z \in D : Counts(z) =>
          /\ z \in C
          /\ z.row \in ids => \E x \in C : x.row = z.row /\ Counts(x) /\ x # z
    BY <1>4, <1>12 DEF AreReversed
<1>16. ASSUME IsFiniteSet(C), IsFiniteSet(ids) PROVE IsFiniteSet(D)
    <2>1. PICK mark : mark = [x \in C |-> IF x.row \in ids /\ x = last[x.row]
                                            THEN [x EXCEPT !.reversed = TRUE] ELSE x]
        OBVIOUS
    <2>2. IsFiniteSet({mark[x] : x \in C}) /\ IsFiniteSet({undo[id] : id \in ids})
        BY <1>16, ImageIsFinite
    <2>3. D = {mark[x] : x \in C} \cup {undo[id] : id \in ids}
        BY <1>9, <2>1 DEF WithReversals
    <2> QED BY <2>2, <2>3, FS_Union
<1> QED BY <1>0, <1>1, <1>12, <1>13, <1>14, <1>15, <1>16 DEF AreReversed, HasReversed
-----------------------------------------------------------------------------
(* The rollback                                                            *)

(* An id is of its type, and names one row.                                *)
LEMMA Ids ==
    /\ \A r \in OutputRows : OutputId(r) \in OutputIds /\ OutputId(r)[1] = r.coin
    /\ \A r, s \in OutputRows : OutputId(r) = OutputId(s) => r.coin = s.coin /\ r.n = s.n
    /\ \A i \in InputRows : InputId(i) \in InputIds /\ InputId(i)[1] = i.output[1]
    /\ \A i, j \in InputRows : InputId(i) = InputId(j) => i.output = j.output /\ i.n = j.n
<1>1. \A r \in OutputRows : r.coin \in Coins /\ r.n \in Nat
    BY DEF OutputRows
<1>2. \A i \in InputRows : /\ i.output \in OutputIds /\ i.n \in Nat
                           /\ i.output[1] \in Coins /\ i.output[2] \in Nat
                           /\ i.output = <<i.output[1], i.output[2]>>
    BY DEF InputRows, OutputIds
<1>3. \A i, j \in InputRows : InputId(i) = InputId(j) => i.output = j.output /\ i.n = j.n
    <2> SUFFICES ASSUME NEW i \in InputRows, NEW j \in InputRows, InputId(i) = InputId(j)
                 PROVE  i.output = j.output /\ i.n = j.n
        OBVIOUS
    <2>1. i.output[1] = j.output[1] /\ i.output[2] = j.output[2] /\ i.n = j.n
        BY DEF InputId
    <2> QED BY <1>2, <2>1
<1>4. \A i \in InputRows : InputId(i) \in InputIds /\ InputId(i)[1] = i.output[1]
    BY <1>2 DEF InputId, InputIds
<1>5. \A r \in OutputRows : OutputId(r) \in OutputIds /\ OutputId(r)[1] = r.coin
    BY <1>1 DEF OutputId, OutputIds
<1>6. \A r, s \in OutputRows : OutputId(r) = OutputId(s) => r.coin = s.coin /\ r.n = s.n
    BY DEF OutputId
<1> QED BY <1>3, <1>4, <1>5, <1>6

(* Inputs are deleted with the newest of their debits.                     *)
LEMMA InputsDeleted ==
    ASSUME NEW d, Sound(d), NEW h \in Nat, NEW f, f = soft_delete_inputs_from_height(d, h)
    PROVE  /\ Sound(f) /\ f.outputs = d.outputs /\ f.tips = d.tips
           /\ \A i \in Active(f.inputs) : i \in Active(d.inputs) /\ i.height < h
           /\ \A i \in Active(d.inputs) : i.height < h => i \in Active(f.inputs)
           /\ DebitedOnce(d) => DebitedOnce(f)
           /\ Finite(d) => Finite(f)
<1>1. PICK hit : hit = {i \in Active(d.inputs) : i.height >= h}
    OBVIOUS
<1>2. PICK ids : ids = {InputId(i) : i \in hit}
    OBVIOUS
<1>3. PICK e : e = ReverseChanges(d, ids, FALSE)
    OBVIOUS
<1>4. PICK img : img = [i \in d.inputs |-> IF i \in hit THEN [i EXCEPT !.deleted = TRUE] ELSE i]
    OBVIOUS
<1>5. PICK J : J = {img[i] : i \in d.inputs}
    OBVIOUS
<1>6. f = [e EXCEPT !.inputs = J]
    <2>1. e.inputs = d.inputs
        BY <1>3 DEF ReverseChanges, Sound, Tables
    <2>2. J = {IF i \in hit THEN [i EXCEPT !.deleted = TRUE] ELSE i : i \in e.inputs}
        BY <1>4, <1>5, <2>1
    <2> QED BY <1>1, <1>2, <1>3, <2>1, <2>2 DEF soft_delete_inputs_from_height
<1>7. /\ d \in Tables /\ d.inputs \subseteq InputRows /\ d.outputs \subseteq OutputRows
      /\ d.changes \subseteq ChangeRows
    BY DEF Sound, Tables
<1>8. \A i \in d.inputs :
         /\ img[i] \in InputRows /\ img[i].output = i.output /\ img[i].n = i.n
         /\ i \in hit => img[i].deleted
         /\ i \notin hit => img[i] = i
    <2> SUFFICES ASSUME NEW i \in d.inputs
                 PROVE  /\ img[i] \in InputRows /\ img[i].output = i.output /\ img[i].n = i.n
                        /\ i \in hit => img[i].deleted
                        /\ i \notin hit => img[i] = i
        OBVIOUS
    <2>1. i \in InputRows
        BY <1>7
    <2>2. /\ [i EXCEPT !.deleted = TRUE] \in InputRows
          /\ [i EXCEPT !.deleted = TRUE].output = i.output
          /\ [i EXCEPT !.deleted = TRUE].n = i.n
          /\ [i EXCEPT !.deleted = TRUE].deleted
        BY ONLY <2>1 DEF InputRows
    <2> QED BY <1>4, <2>1, <2>2
<1>9. \A i \in d.inputs : i \in hit <=> ~ i.deleted /\ i.height >= h
    BY <1>1 DEF Active
<1>10. \A i, j \in d.inputs : InputId(i) = InputId(j) => i = j
    BY <1>7, Ids DEF Sound, InputsAreKeyed
<1>11. hit \subseteq d.inputs /\ ids \subseteq InputIds
    BY <1>1, <1>2, <1>7, Ids DEF Active
<1>12. \A id \in ids : \E x \in d.changes : x.row = id /\ Counts(x)
    BY <1>1, <1>2 DEF Sound, Debited
<1>13. /\ e \in Tables /\ e.outputs = d.outputs /\ e.inputs = d.inputs /\ e.tips = d.tips
       /\ Ledger(e.changes) /\ AmountsAreRight(e.changes)
       /\ \A x \in d.changes : x.row \notin ids => x \in e.changes
       /\ \A z \in e.changes : Counts(z) =>
             /\ z \in d.changes
             /\ z.row \in ids => \E x \in d.changes : x.row = z.row /\ Counts(x) /\ x # z
       /\ \A z \in e.changes : \E x \in d.changes : x.row = z.row
       /\ IsFiniteSet(d.changes) /\ IsFiniteSet(ids) => IsFiniteSet(e.changes)
    <2>1. Reversible(d, ids, FALSE)
        BY <1>11, <1>12 DEF Sound, Reversible
    <2>2. HasReversed(d, ids, e)
        BY <1>3, <2>1, ReverseKeeps
    <2> QED BY <2>2 DEF HasReversed
<1>14. /\ f \in Tables /\ f.outputs = d.outputs /\ f.inputs = J /\ f.tips = d.tips
       /\ f.changes = e.changes
    <2>1. J \in SUBSET InputRows
        BY <1>5, <1>8
    <2> QED BY <1>6, <1>13, <2>1 DEF Tables
<1>15. InputsAreKeyed(J)
    <2>1. Bounded(J)
        <3>1. PICK m \in Nat : \A i \in d.inputs : i.n <= m
            BY DEF Sound, InputsAreKeyed, Bounded
        <3> QED BY <1>5, <1>8, <3>1 DEF Bounded
    <2>2. ASSUME NEW i \in J, NEW j \in J, i.output = j.output, i.n = j.n
          PROVE  i = j
        <3>1. PICK k \in d.inputs : i = img[k]
            BY <1>5
        <3>2. PICK l \in d.inputs : j = img[l]
            BY <1>5
        <3>3. k = l
            BY <1>8, <2>2, <3>1, <3>2 DEF Sound, InputsAreKeyed
        <3> QED BY <3>1, <3>2, <3>3
    <2> QED BY <2>1, <2>2 DEF InputsAreKeyed
<1>16. \A i \in d.inputs : img[i] \in J /\ InputId(img[i]) = InputId(i)
    BY <1>5, <1>8 DEF InputId
<1>17. ChangesAreOfRows(f)
    <2> SUFFICES ASSUME NEW z \in e.changes
                 PROVE  \/ \E r \in d.outputs : z.row = OutputId(r)
                        \/ \E i \in J : z.row = InputId(i)
        BY <1>14 DEF ChangesAreOfRows
    <2>1. PICK x \in d.changes : x.row = z.row
        BY <1>13
    <2> QED BY <1>16, <2>1 DEF Sound, ChangesAreOfRows
<1>18. Credited(f)
    <2> SUFFICES ASSUME NEW r \in d.outputs
                 PROVE  /\ r.deleted => \A x \in e.changes : x.row = OutputId(r) => ~ Counts(x)
                        /\ ~ r.deleted =>
                              \E x \in e.changes :
                                 /\ x.row = OutputId(r) /\ Counts(x)
                                 /\ \A y \in e.changes : y.row = OutputId(r) /\ Counts(y) => y = x
        BY <1>14 DEF Credited
    <2>1. OutputId(r) \notin ids
        BY <1>7, <1>11, Ids, IdTypes
    <2>2. CASE r.deleted
        BY <1>13, <2>2 DEF Sound, Credited
    <2>3. CASE ~ r.deleted
        <3>1. PICK x \in d.changes :
                 /\ x.row = OutputId(r) /\ Counts(x)
                 /\ \A y \in d.changes : y.row = OutputId(r) /\ Counts(y) => y = x
            BY <2>3 DEF Sound, Credited
        <3>2. x \in e.changes
            BY <1>13, <2>1, <3>1
        <3> QED BY <1>13, <2>3, <3>1, <3>2
    <2> QED BY <2>2, <2>3
<1>19. \A i \in Active(J) : i \in d.inputs /\ i \notin hit /\ ~ i.deleted
    BY <1>5, <1>8 DEF Active
<1>20. Debited(f)
    <2> SUFFICES ASSUME NEW i \in Active(J)
                 PROVE  \E x \in e.changes : x.row = InputId(i) /\ Counts(x)
        BY <1>14 DEF Debited
    <2>1. i \in Active(d.inputs) /\ i \in d.inputs /\ i \notin hit
        BY <1>19 DEF Active
    <2>2. InputId(i) \notin ids
        BY <1>2, <1>10, <1>11, <2>1
    <2>3. PICK x \in d.changes : x.row = InputId(i) /\ Counts(x)
        BY <2>1 DEF Sound, Debited
    <2> QED BY <1>13, <2>2, <2>3
<1>21. Sound(f)
    BY <1>13, <1>14, <1>15, <1>17, <1>18, <1>20 DEF Sound
<1>22. \A i \in Active(J) : i \in Active(d.inputs) /\ i.height < h
    <2> SUFFICES ASSUME NEW i \in Active(J) PROVE i \in Active(d.inputs) /\ i.height < h
        OBVIOUS
    <2>1. i \in d.inputs /\ ~ i.deleted /\ ~ (i.height >= h)
        BY <1>9, <1>19
    <2>2. i.height \in Nat
        BY <1>7, <2>1 DEF InputRows
    <2> QED BY <2>1, <2>2 DEF Active
<1>23. ASSUME NEW i \in Active(d.inputs), i.height < h PROVE i \in Active(J)
    <2>1. i \in d.inputs /\ ~ i.deleted /\ i.height \in Nat
        BY <1>7 DEF Active, InputRows
    <2>2. i \notin hit
        BY <1>9, <1>23, <2>1
    <2> QED BY <1>8, <1>16, <2>1, <2>2 DEF Active
<1>24. ASSUME DebitedOnce(d) PROVE DebitedOnce(f)
    <2> SUFFICES ASSUME NEW k \in J
                 PROVE  /\ k.deleted => \A x \in e.changes : x.row = InputId(k) => ~ Counts(x)
                        /\ \A x, y \in e.changes :
                              x.row = InputId(k) /\ y.row = InputId(k) /\ Counts(x) /\ Counts(y)
                                 => x = y
        BY <1>14 DEF DebitedOnce
    <2>1. PICK i \in d.inputs : k = img[i] /\ InputId(k) = InputId(i)
        BY <1>5, <1>16
    <2>2. \A x, y \in d.changes :
             x.row = InputId(i) /\ y.row = InputId(i) /\ Counts(x) /\ Counts(y) => x = y
        BY <1>24, <2>1 DEF DebitedOnce
    <2>3. CASE i \in hit
        <3>1. InputId(i) \in ids
            BY <1>2, <2>3
        <3> QED BY <1>13, <2>1, <2>2, <3>1
    <2>4. CASE i \notin hit
        <3>1. k.deleted => \A x \in d.changes : x.row = InputId(i) => ~ Counts(x)
            BY <1>8, <1>24, <2>1, <2>4 DEF DebitedOnce
        <3> QED BY <1>13, <2>1, <2>2, <3>1
    <2> QED BY <2>3, <2>4
<1>25. ASSUME Finite(d) PROVE Finite(f)
    <2>1. IsFiniteSet(d.inputs) /\ IsFiniteSet(d.changes) /\ IsFiniteSet(d.outputs)
        BY <1>25 DEF Finite
    <2>2. IsFiniteSet(hit)
        BY <1>11, <2>1, FS_Subset
    <2>3. PICK idOf : idOf = [i \in hit |-> InputId(i)]
        OBVIOUS
    <2>4. ids = {idOf[i] : i \in hit}
        BY <1>2, <2>3
    <2>5. IsFiniteSet(ids) /\ IsFiniteSet(J)
        BY <1>5, <2>1, <2>2, <2>4, ImageIsFinite
    <2> QED BY <1>13, <1>14, <2>1, <2>5 DEF Finite
<1> QED BY <1>14, <1>21, <1>22, <1>23, <1>24, <1>25

(* Outputs are deleted with their credit.                                  *)
LEMMA OutputsDeleted ==
    ASSUME NEW d, Sound(d), NEW h \in Nat, NEW f, f = soft_delete_outputs_from_height(d, h)
    PROVE  /\ Sound(f) /\ f.inputs = d.inputs /\ f.tips = d.tips
           /\ \A r \in Active(f.outputs) : r \in Active(d.outputs) /\ r.height < h
           /\ \A r \in Active(d.outputs) : r.height < h => r \in Active(f.outputs)
           /\ DebitedOnce(d) => DebitedOnce(f)
           /\ Finite(d) => Finite(f)
<1>1. PICK hit : hit = {r \in Active(d.outputs) : r.height >= h}
    OBVIOUS
<1>2. PICK ids : ids = {OutputId(r) : r \in hit}
    OBVIOUS
<1>3. PICK e : e = ReverseChanges(d, ids, TRUE)
    OBVIOUS
<1>4. PICK img : img = [r \in d.outputs |-> IF r \in hit THEN [r EXCEPT !.deleted = TRUE] ELSE r]
    OBVIOUS
<1>5. PICK J : J = {img[r] : r \in d.outputs}
    OBVIOUS
<1>6. f = [e EXCEPT !.outputs = J]
    <2>1. e.outputs = d.outputs
        BY <1>3 DEF ReverseChanges, Sound, Tables
    <2>2. J = {IF r \in hit THEN [r EXCEPT !.deleted = TRUE] ELSE r : r \in e.outputs}
        BY <1>4, <1>5, <2>1
    <2> QED BY <1>1, <1>2, <1>3, <2>1, <2>2 DEF soft_delete_outputs_from_height
<1>7. /\ d \in Tables /\ d.inputs \subseteq InputRows /\ d.outputs \subseteq OutputRows
      /\ d.changes \subseteq ChangeRows
    BY DEF Sound, Tables
<1>8. \A r \in d.outputs :
         /\ img[r] \in OutputRows /\ img[r].coin = r.coin /\ img[r].n = r.n
         /\ r \in hit => img[r].deleted
         /\ r \notin hit => img[r] = r
    <2> SUFFICES ASSUME NEW r \in d.outputs
                 PROVE  /\ img[r] \in OutputRows /\ img[r].coin = r.coin /\ img[r].n = r.n
                        /\ r \in hit => img[r].deleted
                        /\ r \notin hit => img[r] = r
        OBVIOUS
    <2>1. r \in OutputRows
        BY <1>7
    <2>2. /\ [r EXCEPT !.deleted = TRUE] \in OutputRows
          /\ [r EXCEPT !.deleted = TRUE].coin = r.coin
          /\ [r EXCEPT !.deleted = TRUE].n = r.n
          /\ [r EXCEPT !.deleted = TRUE].deleted
        BY ONLY <2>1 DEF OutputRows
    <2> QED BY <1>4, <2>1, <2>2
<1>9. \A r \in d.outputs : r \in hit <=> ~ r.deleted /\ r.height >= h
    BY <1>1 DEF Active
<1>10. \A r, s \in d.outputs : OutputId(r) = OutputId(s) => r = s
    BY <1>7, Ids DEF Sound, OutputsAreKeyed
<1>11. hit \subseteq d.outputs /\ ids \subseteq OutputIds
    BY <1>1, <1>2, <1>7, Ids DEF Active
<1>12. \A id \in ids : \E x \in d.changes : x.row = id /\ Counts(x)
    <2>1. \A r \in hit : r \in d.outputs /\ ~ r.deleted
        BY <1>9, <1>11
    <2> QED BY <1>2, <2>1 DEF Sound, Credited
<1>13. HasReversed(d, ids, e)
    <2>1. Reversible(d, ids, TRUE)
        BY <1>11, <1>12 DEF Sound, Reversible
    <2> QED BY <1>3, <2>1, ReverseKeeps
<1>14. /\ f \in Tables /\ f.inputs = d.inputs /\ f.outputs = J /\ f.tips = d.tips
       /\ f.changes = e.changes
    <2>1. J \in SUBSET OutputRows
        BY <1>5, <1>8
    <2> QED BY <1>6, <1>13, <2>1 DEF Tables, HasReversed
<1>15. OutputsAreKeyed(J)
    <2>1. Bounded(J)
        <3>1. PICK m \in Nat : \A r \in d.outputs : r.n <= m
            BY DEF Sound, OutputsAreKeyed, Bounded
        <3> QED BY <1>5, <1>8, <3>1 DEF Bounded
    <2>2. ASSUME NEW r \in J, NEW s \in J, r.coin = s.coin, r.n = s.n
          PROVE  r = s
        <3>1. PICK k \in d.outputs : r = img[k]
            BY <1>5
        <3>2. PICK l \in d.outputs : s = img[l]
            BY <1>5
        <3>3. k = l
            BY <1>8, <2>2, <3>1, <3>2 DEF Sound, OutputsAreKeyed
        <3> QED BY <3>1, <3>2, <3>3
    <2> QED BY <2>1, <2>2 DEF OutputsAreKeyed
<1>16. \A r \in d.outputs : img[r] \in J /\ OutputId(img[r]) = OutputId(r)
    BY <1>5, <1>8 DEF OutputId
<1>17. ChangesAreOfRows(f)
    <2> SUFFICES ASSUME NEW z \in e.changes
                 PROVE  \/ \E r \in J : z.row = OutputId(r)
                        \/ \E i \in d.inputs : z.row = InputId(i)
        BY <1>14 DEF ChangesAreOfRows
    <2>1. PICK x \in d.changes : x.row = z.row
        BY <1>13 DEF HasReversed
    <2> QED BY <1>16, <2>1 DEF Sound, ChangesAreOfRows
<1>18. Credited(f)
    <2> SUFFICES ASSUME NEW s \in J
                 PROVE  /\ s.deleted => \A x \in e.changes : x.row = OutputId(s) => ~ Counts(x)
                        /\ ~ s.deleted =>
                              \E x \in e.changes :
                                 /\ x.row = OutputId(s) /\ Counts(x)
                                 /\ \A y \in e.changes : y.row = OutputId(s) /\ Counts(y) => y = x
        BY <1>14 DEF Credited
    <2>1. PICK r \in d.outputs : s = img[r] /\ OutputId(s) = OutputId(r)
        BY <1>5, <1>16
    <2>2. CASE r \in hit
        <3>1. s.deleted /\ ~ r.deleted /\ OutputId(s) \in ids
            BY <1>2, <1>8, <1>9, <2>1, <2>2
        <3>2. PICK x \in d.changes : \A y \in d.changes : y.row = OutputId(r) /\ Counts(y) => y = x
            BY <3>1 DEF Sound, Credited
        <3>3. ASSUME NEW z \in e.changes, z.row = OutputId(s), Counts(z)
              PROVE  FALSE
            <4>1. z \in d.changes /\ \E w \in d.changes : w.row = z.row /\ Counts(w) /\ w # z
                BY <1>13, <3>1, <3>3 DEF HasReversed
            <4> QED BY <2>1, <3>2, <3>3, <4>1
        <3> QED BY <3>1, <3>3
    <2>3. CASE r \notin hit
        <3>1. s = r /\ OutputId(r) \notin ids
            BY <1>2, <1>8, <1>10, <1>11, <2>1, <2>3
        <3>2. CASE r.deleted
            BY <1>13, <3>1, <3>2 DEF Sound, Credited, HasReversed
        <3>3. CASE ~ r.deleted
            <4>1. PICK x \in d.changes :
                     /\ x.row = OutputId(r) /\ Counts(x)
                     /\ \A y \in d.changes : y.row = OutputId(r) /\ Counts(y) => y = x
                BY <3>3 DEF Sound, Credited
            <4>2. x \in e.changes
                BY <1>13, <3>1, <4>1 DEF HasReversed
            <4> QED BY <1>13, <3>1, <3>3, <4>1, <4>2 DEF HasReversed
        <3> QED BY <3>1, <3>2, <3>3
    <2> QED BY <2>2, <2>3
<1>19. Debited(f)
    <2> SUFFICES ASSUME NEW i \in Active(d.inputs)
                 PROVE  \E x \in e.changes : x.row = InputId(i) /\ Counts(x)
        BY <1>14 DEF Debited
    <2>1. InputId(i) \notin ids
        BY <1>7, <1>11, Ids, IdTypes DEF Active
    <2>2. PICK x \in d.changes : x.row = InputId(i) /\ Counts(x)
        BY DEF Sound, Debited
    <2> QED BY <1>13, <2>1, <2>2 DEF HasReversed
<1>20. Sound(f)
    BY <1>13, <1>14, <1>15, <1>17, <1>18, <1>19 DEF Sound, HasReversed
<1>21. ASSUME NEW r \in Active(J) PROVE r \in Active(d.outputs) /\ r.height < h
    <2>1. r \in d.outputs /\ r \notin hit /\ ~ r.deleted
        BY <1>5, <1>8 DEF Active
    <2>2. ~ (r.height >= h) /\ r.height \in Nat
        BY <1>7, <1>9, <2>1 DEF OutputRows
    <2> QED BY <2>1, <2>2 DEF Active
<1>22. ASSUME NEW r \in Active(d.outputs), r.height < h PROVE r \in Active(J)
    <2>1. r \in d.outputs /\ ~ r.deleted /\ r.height \in Nat
        BY <1>7 DEF Active, OutputRows
    <2>2. r \notin hit
        BY <1>9, <1>22, <2>1
    <2>3. r \in J
        BY <1>8, <1>16, <2>1, <2>2
    <2> QED BY <2>1, <2>3 DEF Active
<1>23. ASSUME DebitedOnce(d) PROVE DebitedOnce(f)
    BY <1>13, <1>14, <1>23 DEF DebitedOnce, HasReversed
<1>24. ASSUME Finite(d) PROVE Finite(f)
    <2>1. IsFiniteSet(d.inputs) /\ IsFiniteSet(d.changes) /\ IsFiniteSet(d.outputs)
        BY <1>24 DEF Finite
    <2>2. IsFiniteSet(hit)
        BY <1>11, <2>1, FS_Subset
    <2>3. PICK idOf : idOf = [r \in hit |-> OutputId(r)]
        OBVIOUS
    <2>4. ids = {idOf[r] : r \in hit}
        BY <1>2, <2>3
    <2>5. IsFiniteSet(ids) /\ IsFiniteSet(J)
        BY <1>5, <2>1, <2>2, <2>4, ImageIsFinite
    <2> QED BY <1>13, <1>14, <2>1, <2>5 DEF Finite, HasReversed
<1> QED BY <1>14, <1>20, <1>21, <1>22, <1>23, <1>24

(* A rollback keeps the tables sound and leaves nothing at or above its    *)
(* height.                                                                 *)
LEMMA RollbackKeeps ==
    ASSUME NEW d, Sound(d), OnRecord(d), NEW h \in Nat, NEW g, g = rollback_from_height(d, h)
    PROVE  /\ Sound(g) /\ OnRecord(g) /\ g.tips = {b \in d.tips : Height[b] < h}
           /\ Spends(d) => Spends(g)
           /\ Matches(d) => Matches(g)
<1>1. PICK e : e = soft_delete_inputs_from_height(d, h)
    OBVIOUS
<1>2. /\ Sound(e) /\ e.outputs = d.outputs /\ e.tips = d.tips
      /\ \A i \in Active(e.inputs) : i \in Active(d.inputs) /\ i.height < h
      /\ \A i \in Active(d.inputs) : i.height < h => i \in Active(e.inputs)
      /\ DebitedOnce(d) => DebitedOnce(e)
      /\ Finite(d) => Finite(e)
    BY <1>1, InputsDeleted
<1>3. PICK f : f = soft_delete_outputs_from_height(e, h)
    OBVIOUS
<1>4. /\ Sound(f) /\ f.inputs = e.inputs /\ f.tips = e.tips
      /\ \A r \in Active(f.outputs) : r \in Active(e.outputs) /\ r.height < h
      /\ \A r \in Active(e.outputs) : r.height < h => r \in Active(f.outputs)
      /\ DebitedOnce(e) => DebitedOnce(f)
      /\ Finite(e) => Finite(f)
    BY <1>2, <1>3, OutputsDeleted
<1>5. g = [f EXCEPT !.tips = {b \in f.tips : Height[b] < h}]
    BY <1>1, <1>3 DEF rollback_from_height, delete_scanned_tip_blocks_from_height
<1>6. /\ g \in Tables /\ g.outputs = f.outputs /\ g.inputs = f.inputs /\ g.changes = f.changes
      /\ g.tips = {b \in d.tips : Height[b] < h}
    BY <1>2, <1>4, <1>5 DEF Sound, Tables
<1>7. Sound(g)
    BY <1>4, <1>6 DEF Sound, ChangesAreOfRows, Credited, Debited
<1>8. OnRecord(g)
    <2> SUFFICES ASSUME NEW r \in Active(f.outputs)
                 PROVE  \E b \in g.tips : r.height = Height[b]
        BY <1>6 DEF OnRecord, HeightsIn
    <2>1. r \in Active(d.outputs) /\ r.height < h
        BY <1>2, <1>4
    <2>2. PICK b \in d.tips : r.height = Height[b]
        BY <2>1 DEF OnRecord, HeightsIn
    <2> QED BY <1>6, <2>1, <2>2
<1>9. ASSUME Spends(d) PROVE Spends(g)
    <2> SUFFICES ASSUME NEW i \in Active(e.inputs)
                 PROVE  \E r \in Active(f.outputs) :
                           OutputId(r) = i.output /\ r.status = "SPENT" /\ r.height <= i.height
        BY <1>4, <1>6 DEF Spends
    <2>1. i \in Active(d.inputs) /\ i.height < h
        BY <1>2
    <2>2. PICK r \in Active(d.outputs) :
             OutputId(r) = i.output /\ r.status = "SPENT" /\ r.height <= i.height
        BY <1>9, <2>1 DEF Spends
    <2>3. r.height \in Nat /\ i.height \in Nat
        BY <2>1, <2>2 DEF Active, Sound, Tables, OutputRows, InputRows
    <2>4. r.height < h
        BY <2>1, <2>2, <2>3
    <2>5. r \in Active(f.outputs)
        BY <1>2, <1>4, <2>4
    <2> QED BY <2>2, <2>5
<1>10. ASSUME Matches(d) PROVE Matches(g)
    <2>1. MinedIn(d, d.tips) /\ SpentIn(d, d.tips) /\ DebitedOnce(d) /\ Finite(d)
        BY <1>10 DEF Matches
    <2>2. /\ \A r \in Active(g.outputs) : r \in Active(d.outputs) /\ r.height < h
          /\ \A r \in Active(d.outputs) : r.height < h => r \in Active(g.outputs)
          /\ \A i \in Active(g.inputs) : i \in Active(d.inputs) /\ i.height < h
          /\ \A i \in Active(d.inputs) : i.height < h => i \in Active(g.inputs)
        BY <1>2, <1>4, <1>6
    <2>3. MinedIn(g, g.tips)
        <3>1. \A r, s \in Active(g.outputs) : r.coin = s.coin => r = s
            BY <2>1, <2>2 DEF MinedIn
        <3>2. \A r \in Active(g.outputs) :
                 r.block \in g.tips /\ r.height = Height[r.block] /\ r.coin \in Outs[r.block]
            BY <1>6, <2>1, <2>2 DEF MinedIn
        <3>3. ASSUME NEW b \in g.tips, NEW c \in Outs[b]
              PROVE  \E r \in Active(g.outputs) : r.coin = c /\ r.block = b
            BY <1>6, <2>1, <2>2, <3>3 DEF MinedIn
        <3> QED BY <3>1, <3>2, <3>3 DEF MinedIn
    <2>4. SpentIn(g, g.tips)
        <3>1. \A i, j \in Active(g.inputs) : i.output = j.output => i = j
            BY <2>1, <2>2 DEF SpentIn
        <3>2. \A i \in Active(g.inputs) :
                 i.block \in g.tips /\ i.height = Height[i.block] /\ i.output[1] \in Ins[i.block]
            BY <1>6, <2>1, <2>2 DEF SpentIn
        <3>3. ASSUME NEW b \in g.tips, NEW r \in Active(g.outputs), r.coin \in Ins[b]
              PROVE  \E i \in Active(g.inputs) : i.output = OutputId(r) /\ i.block = b
            <4>1. PICK i \in Active(d.inputs) : i.output = OutputId(r) /\ i.block = b
                BY <1>6, <2>1, <2>2, <3>3 DEF SpentIn
            <4>2. i.height < h
                BY <1>6, <2>1, <4>1 DEF SpentIn
            <4> QED BY <2>2, <4>1, <4>2
        <3> QED BY <3>1, <3>2, <3>3 DEF SpentIn
    <2>5. DebitedOnce(g) /\ Finite(g)
        BY <1>2, <1>4, <1>6, <2>1 DEF DebitedOnce, Finite
    <2> QED BY <2>3, <2>4, <2>5 DEF Matches
<1> QED BY <1>6, <1>7, <1>8, <1>9, <1>10
-----------------------------------------------------------------------------
(* A block                                                                 *)

(* The credit of an output, or the debit of an input.                      *)
Original(d, id) ==
    Change(d, id, IF id \in OutputIds THEN Value[id[1]] ELSE 0,
                  IF id \in OutputIds THEN 0 ELSE Value[id[1]], 0)

(* What may be said of the original changes `new` of the rows `ids`.       *)
AreOriginals(d, ids, new) ==
    /\ Ledger(d.changes \cup new) /\ AmountsAreRight(d.changes \cup new)
    /\ \A x \in new : Counts(x) /\ x.row \in ids
    /\ \A id \in ids : \E x \in new : x.row = id
    /\ \A x, y \in new : x.row = y.row => x = y

(* They may be added to a ledger.                                          *)
LEMMA OriginalsAdded ==
    ASSUME NEW d, Ledger(d.changes), AmountsAreRight(d.changes),
           NEW ids \in SUBSET (OutputIds \cup InputIds)
    PROVE  AreOriginals(d, ids, {Original(d, id) : id \in ids})
<1>1. PICK m \in Nat : \A x \in d.changes : x.n <= m
    BY DEF Ledger, Bounded
<1>2. PICK new : new = {Original(d, id) : id \in ids}
    OBVIOUS
<1>3. ASSUME NEW id \in ids, NEW x, x = Original(d, id)
      PROVE  /\ x \in ChangeRows /\ x.of = 0 /\ ~ x.reversed /\ x.n <= m + 1 /\ x.row = id
             /\ \A y \in d.changes : id = y.row => y.n < x.n
             /\ id \in OutputIds => x.credit = Value[id[1]] /\ x.debit = 0
             /\ id \in InputIds => x.credit = 0 /\ x.debit = Value[id[1]]
    <2>1. id \in OutputIds \cup InputIds /\ id[1] \in Coins /\ Value[id[1]] \in Nat
        BY IdTypes, BlockConstants DEF Coins
    <2>2. PICK credit \in Nat : credit = IF id \in OutputIds THEN Value[id[1]] ELSE 0
        BY <2>1
    <2>3. PICK debit \in Nat : debit = IF id \in OutputIds THEN 0 ELSE Value[id[1]]
        BY <2>1
    <2>4. x = Change(d, id, credit, debit, 0)
        BY <1>3, <2>2, <2>3 DEF Original
    <2>5. IsNewChange(x, d, id, credit, debit, 0)
        BY <2>1, <2>4, ChangeIsNew
    <2>6. id \in InputIds => id \notin OutputIds
        BY IdTypes
    <2> QED BY <1>1, <2>2, <2>3, <2>5, <2>6 DEF IsNewChange
<1>4. ASSUME NEW x \in new
      PROVE  /\ x \in ChangeRows /\ x.of = 0 /\ ~ x.reversed /\ x.n <= m + 1
             /\ x.row \in ids /\ x = Original(d, x.row)
             /\ \A y \in d.changes : x.row = y.row => y.n < x.n
             /\ x.row \in OutputIds => x.credit = Value[x.row[1]] /\ x.debit = 0
             /\ x.row \in InputIds => x.credit = 0 /\ x.debit = Value[x.row[1]]
    <2>1. PICK id \in ids : x = Original(d, id)
        BY <1>2
    <2> QED BY <1>3, <2>1
<1>5. /\ new \in SUBSET ChangeRows /\ m + 1 \in Nat
      /\ \A x \in new : x.of = 0 /\ ~ x.reversed /\ x.n <= m + 1
      /\ \A x \in new : \A y \in d.changes : x.row = y.row => y.n < x.n
      /\ \A x, y \in new : x.row = y.row => x = y
    BY <1>4
<1>6. Ledger(d.changes \cup new)
    BY <1>5, AddedToLedger
<1>7. AmountsAreRight(d.changes \cup new)
    BY <1>4 DEF AmountsAreRight
<1>8. \A x \in new : Counts(x) /\ x.row \in ids
    BY <1>4 DEF Counts, IsReversal
<1>9. \A id \in ids : \E x \in new : x.row = id
    BY <1>2, <1>3
<1> QED BY <1>2, <1>5, <1>6, <1>7, <1>8, <1>9 DEF AreOriginals

(* No block of T spends what b has mined or spends.                        *)
NotMinedAfter(T, b) == \A u \in T : Ins[u] \cap Outs[b] = {}
NotSpentAgain(T, b) == \A u \in T : Ins[u] \cap Ins[b] = {}

(* The outputs of a block are added with a credit each.                    *)
LEMMA OutputsAdded ==
    ASSUME NEW d, Sound(d), NEW b \in Blocks, NEW f, f = process_outputs(d, b)
    PROVE  /\ Sound(f) /\ f.inputs = d.inputs /\ f.tips = d.tips
           /\ Active(d.outputs) \subseteq Active(f.outputs)
           /\ \A r \in Active(f.outputs) : r \in Active(d.outputs) \/ r.height = Height[b]
           /\ \A T : MinedIn(d, T) /\ ~ insert_output_fails(d, b) => MinedIn(f, T \cup {b})
           /\ \A T : SpentIn(d, T) /\ NotMinedAfter(T, b) => SpentIn(f, T)
           /\ DebitedOnce(d) => DebitedOnce(f)
           /\ Finite(d) => Finite(f)
<1>1. /\ d \in Tables /\ d.inputs \subseteq InputRows /\ d.outputs \subseteq OutputRows
      /\ d.changes \subseteq ChangeRows
    BY DEF Sound, Tables
<1>2. PICK num : num = [c \in Outs[b] |-> NextNumber({r \in d.outputs : r.coin = c})]
    OBVIOUS
<1>3. PICK row : row = [c \in Outs[b] |->
                          [coin |-> c, n |-> num[c], height |-> Height[b], block |-> b,
                           status |-> "UNSPENT", confirmed |-> NoBlock, deleted |-> FALSE]]
    OBVIOUS
<1>4. PICK new : new = {row[c] : c \in Outs[b]}
    OBVIOUS
<1>5. PICK ids : ids = {OutputId(r) : r \in new}
    OBVIOUS
<1>6. PICK credits : credits = {Original(d, id) : id \in ids}
    OBVIOUS
<1>7. PICK m \in Nat : \A r \in d.outputs : r.n <= m
    BY DEF Sound, OutputsAreKeyed, Bounded
<1>8. ASSUME NEW c \in Outs[b]
      PROVE  /\ row[c] \in OutputRows /\ row[c].coin = c /\ row[c].height = Height[b]
             /\ row[c].block = b
             /\ ~ row[c].deleted /\ row[c].n <= m + 1
             /\ \A r \in d.outputs : r.coin = c => r.n < row[c].n
    <2>1. PICK same : same = {r \in d.outputs : r.coin = c}
        OBVIOUS
    <2>2. (\A r \in same : r.n \in Nat) /\ \A r \in same : r.n <= m
        BY <1>1, <1>7, <2>1 DEF OutputRows
    <2>3. /\ NextNumber(same) \in Nat /\ NextNumber(same) <= m + 1
          /\ \A r \in same : r.n < NextNumber(same)
        BY <2>2, NextIsFresh
    <2>4. num[c] = NextNumber(same)
        BY <1>2, <2>1
    <2>5. num[c] \in Nat /\ num[c] <= m + 1 /\ \A r \in d.outputs : r.coin = c => r.n < num[c]
        BY <2>1, <2>3, <2>4
    <2>6. c \in Coins /\ Height[b] \in Nat
        BY BlockConstants DEF Coins
    <2>7. row[c] = [coin |-> c, n |-> num[c], height |-> Height[b], block |-> b,
                    status |-> "UNSPENT", confirmed |-> NoBlock, deleted |-> FALSE]
        BY <1>3
    <2>8. row[c] \in OutputRows
        BY ONLY <2>5, <2>6, <2>7, b \in Blocks DEF OutputRows
    <2> QED BY <2>5, <2>7, <2>8
<1>9. \A r \in new : /\ r \in OutputRows /\ r = row[r.coin] /\ r.coin \in Outs[b]
                     /\ r.height = Height[b] /\ r.block = b /\ ~ r.deleted /\ r.n <= m + 1
                     /\ \A s \in d.outputs : s.coin = r.coin => s.n < r.n
    BY <1>4, <1>8
<1>10. f = [d EXCEPT !.outputs = d.outputs \cup new, !.changes = d.changes \cup credits]
    <2>1. new = {[coin |-> c, n |-> NextNumber({r \in d.outputs : r.coin = c}),
                  height |-> Height[b], block |-> b, status |-> "UNSPENT",
                  confirmed |-> NoBlock, deleted |-> FALSE] : c \in Outs[b]}
        BY <1>2, <1>3, <1>4
    <2>2. credits = {Change(d, OutputId(r), Value[r.coin], 0, 0) : r \in new}
        <3>1. \A r \in new : OutputId(r) \in OutputIds /\ OutputId(r)[1] = r.coin
            BY <1>9, Ids
        <3>2. \A r \in new : Original(d, OutputId(r)) = Change(d, OutputId(r), Value[r.coin], 0, 0)
            BY <3>1 DEF Original
        <3>3. credits = {Original(d, OutputId(r)) : r \in new}
            BY <1>5, <1>6
        <3> QED BY ONLY <3>2, <3>3
    <2> QED BY <2>1, <2>2 DEF process_outputs
<1>11. ids \in SUBSET (OutputIds \cup InputIds)
    BY <1>5, <1>9, Ids
<1>12. AreOriginals(d, ids, credits)
    BY <1>6, <1>11, OriginalsAdded DEF Sound
<1>13. /\ f \in Tables /\ f.inputs = d.inputs /\ f.outputs = d.outputs \cup new
       /\ f.tips = d.tips /\ f.changes = d.changes \cup credits
    <2>1. d.outputs \cup new \in SUBSET OutputRows /\ d.changes \cup credits \in SUBSET ChangeRows
        BY <1>1, <1>9, <1>12 DEF AreOriginals, Ledger
    <2> QED BY <1>10, <2>1, <1>1 DEF Tables
<1>14. OutputsAreKeyed(f.outputs)
    <2>1. m + 1 \in Nat /\ \A r \in f.outputs : r.n <= m + 1
        BY <1>1, <1>7, <1>9, <1>13 DEF OutputRows
    <2>2. ASSUME NEW r \in f.outputs, NEW s \in f.outputs, r.coin = s.coin, r.n = s.n
          PROVE  r = s
        <3>1. r.n \in Nat /\ s.n \in Nat
            BY <1>1, <1>9, <1>13 DEF OutputRows
        <3>2. CASE r \in d.outputs /\ s \in d.outputs
            BY <2>2, <3>2 DEF Sound, OutputsAreKeyed
        <3>3. CASE r \in new /\ s \in new
            BY <1>9, <2>2, <3>3
        <3>4. CASE r \in d.outputs /\ s \in new
            BY <1>9, <2>2, <3>1, <3>4
        <3>5. CASE r \in new /\ s \in d.outputs
            BY <1>9, <2>2, <3>1, <3>5
        <3> QED BY <1>13, <3>2, <3>3, <3>4, <3>5
    <2> QED BY <2>1, <2>2 DEF OutputsAreKeyed, Bounded
<1>15. \A r, s \in f.outputs : OutputId(r) = OutputId(s) => r = s
    <2>1. f.outputs \subseteq OutputRows
        BY <1>13 DEF Tables
    <2> QED BY <1>14, <2>1, Ids DEF OutputsAreKeyed
<1>16. \A x \in d.changes : x.row \notin ids
    <2> SUFFICES ASSUME NEW x \in d.changes, NEW r \in new, x.row = OutputId(r) PROVE FALSE
        BY <1>5
    <2>1. CASE \E s \in d.outputs : x.row = OutputId(s)
        <3>1. PICK s \in d.outputs : OutputId(r) = OutputId(s)
            BY <2>1
        <3>2. s.coin = r.coin /\ s.n = r.n /\ s.n \in Nat
            BY <1>1, <1>9, <3>1, Ids DEF OutputRows
        <3> QED BY <1>9, <3>2
    <2>2. CASE \E i \in d.inputs : x.row = InputId(i)
        <3>1. PICK i \in d.inputs : x.row = InputId(i)
            BY <2>2
        <3>2. x.row \in InputIds
            BY <1>1, <3>1, Ids
        <3>3. x.row \in OutputIds
            BY <1>9, Ids
        <3> QED BY <3>2, <3>3, IdTypes
    <2> QED BY <2>1, <2>2 DEF Sound, ChangesAreOfRows
<1>17. ChangesAreOfRows(f)
    BY <1>5, <1>12, <1>13 DEF Sound, ChangesAreOfRows, AreOriginals
<1>18. Credited(f)
    <2> SUFFICES ASSUME NEW r \in f.outputs
                 PROVE  /\ r.deleted => \A x \in f.changes : x.row = OutputId(r) => ~ Counts(x)
                        /\ ~ r.deleted =>
                              \E x \in f.changes :
                                 /\ x.row = OutputId(r) /\ Counts(x)
                                 /\ \A y \in f.changes : y.row = OutputId(r) /\ Counts(y) => y = x
        BY DEF Credited
    <2>1. CASE r \in new
        <3>1. PICK x \in credits : x.row = OutputId(r) /\ Counts(x)
            BY <1>5, <1>12, <2>1 DEF AreOriginals
        <3>2. \A y \in f.changes : y.row = OutputId(r) => y = x
            BY <1>5, <1>12, <1>13, <1>16, <2>1, <3>1 DEF AreOriginals
        <3> QED BY <1>9, <1>13, <2>1, <3>1, <3>2
    <2>2. CASE r \in d.outputs /\ r \notin new
        <3>1. OutputId(r) \notin ids
            BY <1>5, <1>13, <1>15, <2>2
        <3>2. \A x \in credits : x.row # OutputId(r)
            BY <1>12, <3>1 DEF AreOriginals
        <3>3. CASE r.deleted
            BY <1>13, <2>2, <3>2, <3>3 DEF Sound, Credited
        <3>4. CASE ~ r.deleted
            <4>1. PICK x \in d.changes :
                     /\ x.row = OutputId(r) /\ Counts(x)
                     /\ \A y \in d.changes : y.row = OutputId(r) /\ Counts(y) => y = x
                BY <2>2, <3>4 DEF Sound, Credited
            <4> QED BY <1>13, <3>2, <3>4, <4>1
        <3> QED BY <3>3, <3>4
    <2> QED BY <1>13, <2>1, <2>2
<1>19. Debited(f)
    BY <1>13 DEF Sound, Debited
<1>20. Sound(f)
    BY <1>12, <1>13, <1>14, <1>17, <1>18, <1>19 DEF Sound, AreOriginals
<1>21. Active(d.outputs) \subseteq Active(f.outputs)
    BY <1>13 DEF Active
<1>22. \A r \in Active(f.outputs) : r \in Active(d.outputs) \/ r \in new
    BY <1>13 DEF Active
<1>23. \A r \in Active(f.outputs) : r \in Active(d.outputs) \/ r.height = Height[b]
    BY <1>9, <1>22
<1>24. ASSUME NEW T, MinedIn(d, T), ~ insert_output_fails(d, b) PROVE MinedIn(f, T \cup {b})
    <2>1. \A r \in Active(d.outputs) : r.coin \notin Outs[b]
        BY <1>24 DEF insert_output_fails
    <2>2. ASSUME NEW r \in Active(f.outputs), NEW s \in Active(f.outputs), r.coin = s.coin
          PROVE  r = s
        <3>1. CASE r \in Active(d.outputs) /\ s \in Active(d.outputs)
            BY <1>24, <2>2, <3>1 DEF MinedIn
        <3>2. CASE r \in new /\ s \in new
            BY <1>9, <2>2, <3>2
        <3>3. CASE ~ (r \in Active(d.outputs) <=> s \in Active(d.outputs))
            BY <1>9, <1>22, <2>1, <2>2, <3>3
        <3> QED BY <1>22, <3>1, <3>2, <3>3
    <2>3. ASSUME NEW r \in Active(f.outputs)
          PROVE  r.block \in T \cup {b} /\ r.height = Height[r.block] /\ r.coin \in Outs[r.block]
        BY <1>9, <1>22, <1>24 DEF MinedIn
    <2>4. ASSUME NEW u \in T \cup {b}, NEW c \in Outs[u]
          PROVE  \E r \in Active(f.outputs) : r.coin = c /\ r.block = u
        <3>1. CASE u = b
            <4>1. row[c] \in new
                BY <1>4, <3>1
            <4> QED BY <1>8, <1>13, <3>1, <4>1 DEF Active
        <3>2. CASE u \in T
            BY <1>21, <1>24, <3>2 DEF MinedIn
        <3> QED BY <3>1, <3>2
    <2> QED BY <2>2, <2>3, <2>4 DEF MinedIn
<1>25. ASSUME NEW T, SpentIn(d, T), NotMinedAfter(T, b) PROVE SpentIn(f, T)
    <2>1. ASSUME NEW u \in T, NEW r \in Active(f.outputs), r.coin \in Ins[u]
          PROVE  \E i \in Active(f.inputs) : i.output = OutputId(r) /\ i.block = u
        <3>1. r \notin new
            BY <1>9, <1>25, <2>1 DEF NotMinedAfter
        <3>2. r \in Active(d.outputs)
            BY <1>22, <3>1
        <3> QED BY <1>13, <1>25, <2>1, <3>2 DEF SpentIn
    <2> QED BY <1>13, <1>25, <2>1 DEF SpentIn
<1>26. ASSUME DebitedOnce(d) PROVE DebitedOnce(f)
    <2>1. ASSUME NEW i \in d.inputs, NEW x \in f.changes, x.row = InputId(i) PROVE x \in d.changes
        <3>1. x.row \in InputIds
            BY <1>1, <2>1, Ids
        <3>2. \A y \in credits : y.row \in OutputIds
            BY <1>5, <1>9, <1>12, Ids DEF AreOriginals
        <3> QED BY <1>13, <3>1, <3>2, IdTypes
    <2> QED BY <1>13, <1>26, <2>1 DEF DebitedOnce
<1>27. ASSUME Finite(d) PROVE Finite(f)
    <2>1. IsFiniteSet(Outs[b])
        BY OutputsAreFinite
    <2>2. IsFiniteSet(new)
        BY <1>4, <2>1, ImageIsFinite
    <2>3. PICK idOf : idOf = [r \in new |-> OutputId(r)]
        OBVIOUS
    <2>4. ids = {idOf[r] : r \in new}
        BY <1>5, <2>3
    <2>5. IsFiniteSet(ids)
        BY <2>2, <2>4, ImageIsFinite
    <2>6. PICK creditOf : creditOf = [id \in ids |-> Original(d, id)]
        OBVIOUS
    <2>7. credits = {creditOf[id] : id \in ids}
        BY <1>6, <2>6
    <2>8. IsFiniteSet(credits)
        BY <2>5, <2>7, ImageIsFinite
    <2>9. IsFiniteSet(d.outputs \cup new) /\ IsFiniteSet(d.changes \cup credits)
        BY <1>27, <2>2, <2>8, FS_Union DEF Finite
    <2> QED BY <1>13, <1>27, <2>9 DEF Finite
<1> QED BY <1>13, <1>20, <1>21, <1>23, <1>24, <1>25, <1>26, <1>27

(* Rows of outputs are rewritten: only the status may become SPENT, and    *)
(* the confirmation be set.                                                *)
Relabels(d, img) ==
    \A r \in d.outputs :
        /\ img[r] \in OutputRows /\ img[r].coin = r.coin /\ img[r].n = r.n
        /\ img[r].height = r.height /\ img[r].block = r.block /\ img[r].deleted = r.deleted
        /\ r.status = "SPENT" => img[r].status = "SPENT"

WithOutputs(d, img) == [d EXCEPT !.outputs = {img[r] : r \in d.outputs}]

(* The outputs are those of the same blocks, and so are the inputs.        *)
SameBlocks(d, f) ==
    /\ \A T : MinedIn(d, T) => MinedIn(f, T)
    /\ \A T : SpentIn(d, T) => SpentIn(f, T)
    /\ DebitedOnce(d) => DebitedOnce(f)
    /\ Finite(d) => Finite(f)

HasRelabelled(d, img, f) ==
    /\ Sound(f) /\ f.inputs = d.inputs /\ f.tips = d.tips
    /\ f.outputs = {img[r] : r \in d.outputs}
    /\ \A r \in Active(f.outputs) : \E s \in Active(d.outputs) : r = img[s]
    /\ Spends(d) => Spends(f)
    /\ SameBlocks(d, f)

(* That changes nothing of what makes the tables sound.                    *)
LEMMA OutputsRelabelled ==
    ASSUME NEW d, Sound(d), NEW img, Relabels(d, img)
    PROVE  HasRelabelled(d, img, WithOutputs(d, img))
<1>0. PICK f : f = WithOutputs(d, img)
    OBVIOUS
<1>1. PICK J : J = {img[r] : r \in d.outputs}
    OBVIOUS
<1>2. /\ d \in Tables /\ d.inputs \subseteq InputRows /\ d.outputs \subseteq OutputRows
      /\ d.changes \subseteq ChangeRows
    BY DEF Sound, Tables
<1>3. /\ f \in Tables /\ f.inputs = d.inputs /\ f.outputs = J /\ f.tips = d.tips
      /\ f.changes = d.changes
    <2>1. J \in SUBSET OutputRows
        BY <1>1 DEF Relabels
    <2> QED BY <1>0, <1>1, <1>2, <2>1 DEF Tables, WithOutputs
<1>4. \A r \in d.outputs : img[r] \in J /\ OutputId(img[r]) = OutputId(r)
    BY <1>1 DEF Relabels, OutputId
<1>5. OutputsAreKeyed(J)
    <2>1. Bounded(J)
        <3>1. PICK m \in Nat : \A r \in d.outputs : r.n <= m
            BY DEF Sound, OutputsAreKeyed, Bounded
        <3> QED BY <1>1, <3>1 DEF Bounded, Relabels
    <2>2. ASSUME NEW r \in J, NEW s \in J, r.coin = s.coin, r.n = s.n
          PROVE  r = s
        <3>1. PICK k \in d.outputs : r = img[k]
            BY <1>1
        <3>2. PICK l \in d.outputs : s = img[l]
            BY <1>1
        <3>3. k = l
            BY <2>2, <3>1, <3>2 DEF Sound, OutputsAreKeyed, Relabels
        <3> QED BY <3>1, <3>2, <3>3
    <2> QED BY <2>1, <2>2 DEF OutputsAreKeyed
<1>6. ChangesAreOfRows(f)
    <2> SUFFICES ASSUME NEW x \in d.changes
                 PROVE  \/ \E r \in J : x.row = OutputId(r)
                        \/ \E i \in d.inputs : x.row = InputId(i)
        BY <1>3 DEF ChangesAreOfRows
    <2> QED BY <1>4 DEF Sound, ChangesAreOfRows
<1>7. Credited(f)
    <2> SUFFICES ASSUME NEW s \in J
                 PROVE  /\ s.deleted => \A x \in d.changes : x.row = OutputId(s) => ~ Counts(x)
                        /\ ~ s.deleted =>
                              \E x \in d.changes :
                                 /\ x.row = OutputId(s) /\ Counts(x)
                                 /\ \A y \in d.changes : y.row = OutputId(s) /\ Counts(y) => y = x
        BY <1>3 DEF Credited
    <2>1. PICK r \in d.outputs : s = img[r] /\ OutputId(s) = OutputId(r) /\ s.deleted = r.deleted
        BY <1>1, <1>4 DEF Relabels
    <2> QED BY <2>1 DEF Sound, Credited
<1>8. Debited(f)
    BY <1>3 DEF Sound, Debited
<1>9. Sound(f)
    BY <1>3, <1>5, <1>6, <1>7, <1>8 DEF Sound
<1>10. \A r \in Active(J) : \E s \in Active(d.outputs) : r = img[s]
    BY <1>1 DEF Active, Relabels
<1>11. ASSUME Spends(d) PROVE Spends(f)
    <2> SUFFICES ASSUME NEW i \in Active(d.inputs)
                 PROVE  \E r \in Active(J) :
                           OutputId(r) = i.output /\ r.status = "SPENT" /\ r.height <= i.height
        BY <1>3 DEF Spends
    <2>1. PICK r \in Active(d.outputs) :
             OutputId(r) = i.output /\ r.status = "SPENT" /\ r.height <= i.height
        BY <1>11 DEF Spends
    <2>2. r \in d.outputs /\ ~ r.deleted
        BY <2>1 DEF Active
    <2>3. /\ img[r] \in J /\ OutputId(img[r]) = OutputId(r) /\ img[r].height = r.height
          /\ ~ img[r].deleted /\ img[r].status = "SPENT"
        BY <1>4, <2>1, <2>2 DEF Relabels
    <2> QED BY <2>1, <2>3 DEF Active
<1>12. \A r \in Active(J) : \E s \in Active(d.outputs) :
          /\ r = img[s] /\ r.coin = s.coin /\ OutputId(r) = OutputId(s)
          /\ r.height = s.height /\ r.block = s.block
    BY <1>4, <1>10 DEF Active, Relabels
<1>13. \A s \in Active(d.outputs) : \E r \in Active(J) : r.coin = s.coin /\ r.block = s.block
    BY <1>4 DEF Active, Relabels
<1>14. ASSUME NEW T, MinedIn(d, T) PROVE MinedIn(f, T)
    <2>1. ASSUME NEW r \in Active(J), NEW s \in Active(J), r.coin = s.coin PROVE r = s
        BY <1>12, <1>14, <2>1 DEF MinedIn
    <2>2. ASSUME NEW r \in Active(J)
          PROVE  r.block \in T /\ r.height = Height[r.block] /\ r.coin \in Outs[r.block]
        BY <1>12, <1>14 DEF MinedIn
    <2>3. ASSUME NEW b \in T, NEW c \in Outs[b]
          PROVE  \E r \in Active(J) : r.coin = c /\ r.block = b
        BY <1>13, <1>14 DEF MinedIn
    <2> QED BY <1>3, <2>1, <2>2, <2>3 DEF MinedIn
<1>15. ASSUME NEW T, SpentIn(d, T) PROVE SpentIn(f, T)
    <2>1. ASSUME NEW b \in T, NEW r \in Active(J), r.coin \in Ins[b]
          PROVE  \E i \in Active(d.inputs) : i.output = OutputId(r) /\ i.block = b
        BY <1>12, <1>15, <2>1 DEF SpentIn
    <2> QED BY <1>3, <1>15, <2>1 DEF SpentIn
<1>16. DebitedOnce(d) => DebitedOnce(f)
    BY <1>3 DEF DebitedOnce
<1>17. Finite(d) => Finite(f)
    BY <1>1, <1>3, ImageIsFinite DEF Finite
<1>18. SameBlocks(d, f)
    BY <1>14, <1>15, <1>16, <1>17 DEF SameBlocks
<1> QED BY <1>0, <1>1, <1>3, <1>9, <1>10, <1>11, <1>18 DEF HasRelabelled

(* What process_inputs may not break.                                      *)
HasSpent(d, b, f) ==
    /\ Sound(f) /\ f.tips = d.tips
    /\ \A r \in Active(f.outputs) : \E s \in Active(d.outputs) : r.height = s.height
    /\ Spends(d) /\ HeightsIn(d, 0 .. Height[b]) => Spends(f)
    /\ \A T : MinedIn(d, T) => MinedIn(f, T)
    /\ \A T : SpentIn(d, T) /\ NotSpentAgain(T, b) =>
          SpentIn(f, T \cup {b}) /\ (DebitedOnce(d) => DebitedOnce(f))
    /\ Finite(d) => Finite(f)

(* The inputs of a block are added, or found, with a debit each.           *)
LEMMA InputsAdded ==
    ASSUME NEW d, Sound(d), NEW b \in Blocks, NEW f, f = process_inputs(d, b)
    PROVE  HasSpent(d, b, f)
<1> DEFINE InputsOf(r) == {i \in d.inputs : i.output = OutputId(r)}
<1>1. /\ d \in Tables /\ d.inputs \subseteq InputRows /\ d.outputs \subseteq OutputRows
      /\ d.changes \subseteq ChangeRows
    BY DEF Sound, Tables
<1>2. PICK spent : spent = {r \in Active(d.outputs) : r.coin \in Ins[b]}
    OBVIOUS
<1>3. PICK fresh : fresh = {r \in spent : Active(InputsOf(r)) = {}}
    OBVIOUS
<1>4. PICK num : num = [r \in fresh |-> NextNumber(InputsOf(r))]
    OBVIOUS
<1>5. PICK row : row = [r \in fresh |->
                          [output |-> OutputId(r), n |-> num[r], height |-> Height[b],
                           block |-> b, deleted |-> FALSE]]
    OBVIOUS
<1>6. PICK new : new = {row[r] : r \in fresh}
    OBVIOUS
<1>7. PICK inputs : inputs = d.inputs \cup new
    OBVIOUS
<1>8. PICK paid : paid = {j \in Active(inputs) : \E r \in spent : j.output = OutputId(r)}
    OBVIOUS
<1>9. PICK ids : ids = {InputId(i) : i \in paid}
    OBVIOUS
<1>10. PICK debits : debits = {Original(d, id) : id \in ids}
    OBVIOUS
<1>11. PICK img : img = [r \in d.outputs |->
                           IF r \in spent THEN [r EXCEPT !.status = "SPENT"] ELSE r]
    OBVIOUS
<1>12. PICK e : e = [d EXCEPT !.inputs = inputs, !.changes = d.changes \cup debits]
    OBVIOUS
<1>13. PICK m \in Nat : \A i \in d.inputs : i.n <= m
    BY DEF Sound, InputsAreKeyed, Bounded
<1>14. /\ fresh \subseteq spent /\ spent \subseteq d.outputs /\ spent \subseteq OutputRows
       /\ \A r \in spent : ~ r.deleted /\ r \in Active(d.outputs)
    BY <1>1, <1>2, <1>3 DEF Active
<1>15. ASSUME NEW r \in fresh
       PROVE  /\ row[r] \in InputRows /\ row[r].output = OutputId(r) /\ row[r].block = b
              /\ row[r].height = Height[b] /\ ~ row[r].deleted /\ row[r].n <= m + 1
              /\ \A i \in d.inputs : i.output = OutputId(r) => i.n < row[r].n
    <2>1. PICK same : same = InputsOf(r)
        OBVIOUS
    <2>2. (\A i \in same : i.n \in Nat) /\ \A i \in same : i.n <= m
        BY <1>1, <1>13, <2>1 DEF InputRows
    <2>3. /\ NextNumber(same) \in Nat /\ NextNumber(same) <= m + 1
          /\ \A i \in same : i.n < NextNumber(same)
        BY <2>2, NextIsFresh
    <2>4. num[r] = NextNumber(same)
        BY <1>4, <2>1
    <2>5. /\ num[r] \in Nat /\ num[r] <= m + 1
          /\ \A i \in d.inputs : i.output = OutputId(r) => i.n < num[r]
        BY <2>1, <2>3, <2>4
    <2>6. OutputId(r) \in OutputIds /\ Height[b] \in Nat
        BY <1>14, Ids, BlockConstants
    <2>7. row[r] = [output |-> OutputId(r), n |-> num[r], height |-> Height[b],
                    block |-> b, deleted |-> FALSE]
        BY <1>5
    <2>8. row[r] \in InputRows
        BY ONLY <2>5, <2>6, <2>7, b \in Blocks DEF InputRows
    <2> QED BY <2>5, <2>7, <2>8
<1> HIDE DEF InputsOf
<1>16. ASSUME NEW i \in new
       PROVE  /\ i \in InputRows /\ i.height = Height[b] /\ i.block = b
             /\ ~ i.deleted /\ i.n <= m + 1
              /\ \E r \in fresh : i = row[r] /\ i.output = OutputId(r)
              /\ \A j \in d.inputs : j.output = i.output => j.n < i.n
    <2>1. PICK r \in fresh : i = row[r]
        BY <1>6
    <2> QED BY <1>15, <2>1
<1>17. /\ inputs \subseteq InputRows /\ paid \subseteq Active(inputs) /\ paid \subseteq inputs
       /\ paid \subseteq InputRows /\ ids \subseteq InputIds
    <2>1. inputs \subseteq InputRows
        BY <1>1, <1>7, <1>16
    <2>2. paid \subseteq Active(inputs) /\ paid \subseteq inputs
        BY <1>8 DEF Active
    <2> QED BY <1>9, <2>1, <2>2, Ids
<1>18. f = [e EXCEPT !.outputs = {img[r] : r \in e.outputs}]
    <2>1. new = {[output |-> OutputId(r),
                  n |-> NextNumber({i \in d.inputs : i.output = OutputId(r)}),
                  height |-> Height[b], block |-> b, deleted |-> FALSE] :
                     r \in {s \in spent : Active({i \in d.inputs : i.output = OutputId(s)}) = {}}}
        BY <1>3, <1>4, <1>5, <1>6 DEF InputsOf
    <2>2. debits = {Change(d, InputId(i), 0, Value[i.output[1]], 0) : i \in paid}
        <3>1. \A i \in paid : /\ InputId(i) \in InputIds /\ InputId(i) \notin OutputIds
                              /\ InputId(i)[1] = i.output[1]
            BY <1>17, Ids, IdTypes
        <3>2. \A i \in paid : Original(d, InputId(i))
                              = Change(d, InputId(i), 0, Value[i.output[1]], 0)
            BY <3>1 DEF Original
        <3>3. debits = {Original(d, InputId(i)) : i \in paid}
            BY <1>9, <1>10
        <3> QED BY ONLY <3>2, <3>3
    <2>3. e.outputs = d.outputs
        BY <1>1, <1>12 DEF Tables
    <2>4. {img[r] : r \in e.outputs}
          = {IF r \in spent THEN [r EXCEPT !.status = "SPENT"] ELSE r : r \in d.outputs}
        BY <1>11, <2>3
    <2>5. f = [d EXCEPT !.inputs = inputs, !.changes = d.changes \cup debits,
                        !.outputs = {img[r] : r \in e.outputs}]
        <3> DEFINE S == {r \in Active(d.outputs) : r.coin \in Ins[b]}
                   N == {[output |-> OutputId(r),
                          n |-> NextNumber({i \in d.inputs : i.output = OutputId(r)}),
                          height |-> Height[b], block |-> b, deleted |-> FALSE] :
                     r \in {s \in S : Active({i \in d.inputs : i.output = OutputId(s)}) = {}}}
                   I == d.inputs \cup N
                   P == {j \in Active(I) : \E r \in S : j.output = OutputId(r)}
                   B == {Change(d, InputId(i), 0, Value[i.output[1]], 0) : i \in P}
                   O == {IF r \in S THEN [r EXCEPT !.status = "SPENT"] ELSE r : r \in d.outputs}
        <3>1. f = [d EXCEPT !.inputs = I, !.changes = d.changes \cup B, !.outputs = O]
            BY DEF process_inputs
        <3>2. S = spent
            BY <1>2
        <3> HIDE DEF S
        <3>3. N = new
            BY <2>1, <3>2
        <3> HIDE DEF N
        <3>4. I = inputs
            BY <1>7, <3>3
        <3> HIDE DEF I
        <3>5. P = paid
            BY <1>8, <3>2, <3>4
        <3> HIDE DEF P
        <3>6. B = debits
            BY <2>2, <3>5
        <3>7. O = {img[r] : r \in e.outputs}
            BY <2>4, <3>2
        <3> HIDE DEF B, O
        <3> QED BY ONLY <3>1, <3>4, <3>6, <3>7
    <2> QED BY <1>1, <1>12, <2>5 DEF Tables
<1>19. AreOriginals(d, ids, debits)
    <2>1. ids \in SUBSET (OutputIds \cup InputIds)
        BY <1>17
    <2> QED BY <1>10, <2>1, OriginalsAdded DEF Sound
<1>20. /\ e \in Tables /\ e.inputs = inputs /\ e.outputs = d.outputs
       /\ e.tips = d.tips /\ e.changes = d.changes \cup debits
    <2>1. inputs \in SUBSET InputRows /\ d.changes \cup debits \in SUBSET ChangeRows
        BY <1>17, <1>19 DEF AreOriginals, Ledger
    <2> QED BY <1>1, <1>12, <2>1 DEF Tables
<1>21. InputsAreKeyed(inputs)
    <2>1. m + 1 \in Nat /\ \A i \in inputs : i.n <= m + 1
        BY <1>1, <1>7, <1>13, <1>16 DEF InputRows
    <2>2. ASSUME NEW i \in inputs, NEW j \in inputs, i.output = j.output, i.n = j.n
          PROVE  i = j
        <3>1. i.n \in Nat /\ j.n \in Nat
            BY <1>17 DEF InputRows
        <3>2. CASE i \in d.inputs /\ j \in d.inputs
            BY <2>2, <3>2 DEF Sound, InputsAreKeyed
        <3>3. CASE i \in new /\ j \in new
            <4>1. PICK r \in fresh : i = row[r] /\ i.output = OutputId(r)
                BY <1>16, <3>3
            <4>2. PICK s \in fresh : j = row[s] /\ j.output = OutputId(s)
                BY <1>16, <3>3
            <4>3. r.coin = s.coin /\ r.n = s.n /\ r \in d.outputs /\ s \in d.outputs
                BY <1>14, <2>2, <4>1, <4>2, Ids
            <4>4. r = s
                BY <4>3 DEF Sound, OutputsAreKeyed
            <4> QED BY <4>1, <4>2, <4>4
        <3>4. CASE i \in d.inputs /\ j \in new
            BY <1>16, <2>2, <3>1, <3>4
        <3>5. CASE i \in new /\ j \in d.inputs
            BY <1>16, <2>2, <3>1, <3>5
        <3> QED BY <1>7, <3>2, <3>3, <3>4, <3>5
    <2> QED BY <2>1, <2>2 DEF InputsAreKeyed, Bounded
<1>22. ChangesAreOfRows(e)
    <2> SUFFICES ASSUME NEW x \in d.changes \cup debits
                 PROVE  \/ \E r \in d.outputs : x.row = OutputId(r)
                        \/ \E i \in inputs : x.row = InputId(i)
        BY <1>20 DEF ChangesAreOfRows
    <2>1. CASE x \in d.changes
        BY <1>7, <2>1 DEF Sound, ChangesAreOfRows
    <2>2. CASE x \in debits
        BY <1>9, <1>17, <1>19, <2>2 DEF AreOriginals
    <2> QED BY <2>1, <2>2
<1>23. Credited(e)
    <2> SUFFICES ASSUME NEW r \in d.outputs
                 PROVE  /\ r.deleted => \A x \in e.changes : x.row = OutputId(r) => ~ Counts(x)
                        /\ ~ r.deleted =>
                              \E x \in e.changes :
                                 /\ x.row = OutputId(r) /\ Counts(x)
                                 /\ \A y \in e.changes : y.row = OutputId(r) /\ Counts(y) => y = x
        BY <1>20 DEF Credited
    <2>1. OutputId(r) \notin ids
        BY <1>1, <1>17, Ids, IdTypes
    <2>2. \A x \in debits : x.row # OutputId(r)
        BY <1>19, <2>1 DEF AreOriginals
    <2>3. CASE r.deleted
        BY <1>20, <2>2, <2>3 DEF Sound, Credited
    <2>4. CASE ~ r.deleted
        <3>1. PICK x \in d.changes :
                 /\ x.row = OutputId(r) /\ Counts(x)
                 /\ \A y \in d.changes : y.row = OutputId(r) /\ Counts(y) => y = x
            BY <2>4 DEF Sound, Credited
        <3> QED BY <1>20, <2>2, <2>4, <3>1
    <2> QED BY <2>3, <2>4
<1>24. Debited(e)
    <2> SUFFICES ASSUME NEW i \in Active(inputs)
                 PROVE  \E x \in d.changes \cup debits : x.row = InputId(i) /\ Counts(x)
        BY <1>20 DEF Debited
    <2>1. CASE i \in new
        <3>1. PICK r \in fresh : i.output = OutputId(r)
            BY <1>16, <2>1
        <3>2. i \in paid
            BY <1>8, <1>14, <3>1
        <3> QED BY <1>9, <1>19, <3>2 DEF AreOriginals
    <2>2. CASE i \in d.inputs
        <3>1. i \in Active(d.inputs)
            BY <2>2 DEF Active
        <3> QED BY <3>1 DEF Sound, Debited
    <2> QED BY <1>7, <2>1, <2>2 DEF Active
<1>25. Sound(e)
    BY <1>19, <1>20, <1>21, <1>22, <1>23, <1>24 DEF Sound, AreOriginals
<1>26. ASSUME NEW r \in d.outputs
       PROVE  /\ img[r] \in OutputRows /\ img[r].coin = r.coin /\ img[r].n = r.n
              /\ img[r].height = r.height /\ img[r].block = r.block
              /\ img[r].deleted = r.deleted
              /\ r.status = "SPENT" => img[r].status = "SPENT"
              /\ r \in spent => img[r].status = "SPENT"
    <2>1. r \in OutputRows
        BY <1>1
    <2>2. /\ [r EXCEPT !.status = "SPENT"] \in OutputRows
          /\ [r EXCEPT !.status = "SPENT"].coin = r.coin
          /\ [r EXCEPT !.status = "SPENT"].n = r.n
          /\ [r EXCEPT !.status = "SPENT"].height = r.height
          /\ [r EXCEPT !.status = "SPENT"].block = r.block
          /\ [r EXCEPT !.status = "SPENT"].deleted = r.deleted
          /\ [r EXCEPT !.status = "SPENT"].status = "SPENT"
        BY ONLY <2>1 DEF OutputRows
    <2> QED BY <1>11, <2>1, <2>2
<1>27. Relabels(e, img)
    BY <1>20, <1>26 DEF Relabels
<1>28. /\ Sound(f) /\ f.inputs = e.inputs /\ f.tips = e.tips
       /\ f.outputs = {img[r] : r \in e.outputs}
       /\ \A r \in Active(f.outputs) : \E s \in Active(e.outputs) : r = img[s]
       /\ SameBlocks(e, f)
    <2>1. f = WithOutputs(e, img)
        BY <1>18 DEF WithOutputs
    <2> QED BY <1>25, <1>27, <2>1, OutputsRelabelled DEF HasRelabelled
<1>29. \A r \in Active(f.outputs) : \E s \in Active(d.outputs) : r.height = s.height
    <2> SUFFICES ASSUME NEW r \in Active(f.outputs)
                 PROVE  \E s \in Active(d.outputs) : r.height = s.height
        OBVIOUS
    <2>1. PICK s \in Active(d.outputs) : r = img[s]
        BY <1>20, <1>28
    <2> QED BY <1>26, <2>1 DEF Active
<1>30. ASSUME Spends(d), HeightsIn(d, 0 .. Height[b]) PROVE Spends(f)
    <2> SUFFICES ASSUME NEW i \in Active(inputs)
                 PROVE  \E r \in Active(f.outputs) :
                           OutputId(r) = i.output /\ r.status = "SPENT" /\ r.height <= i.height
        BY <1>20, <1>28 DEF Spends
    <2>1. \A r \in d.outputs : ~ r.deleted => img[r] \in Active(f.outputs)
        BY <1>20, <1>26, <1>28 DEF Active
    <2>2. \A r \in d.outputs : OutputId(img[r]) = OutputId(r)
        BY <1>26 DEF OutputId
    <2>3. CASE i \in d.inputs
        <3>1. i \in Active(d.inputs)
            BY <2>3 DEF Active
        <3>2. PICK r \in Active(d.outputs) :
                 OutputId(r) = i.output /\ r.status = "SPENT" /\ r.height <= i.height
            BY <1>30, <3>1 DEF Spends
        <3>3. r \in d.outputs /\ ~ r.deleted
            BY <3>2 DEF Active
        <3> QED BY <1>26, <2>1, <2>2, <3>2, <3>3
    <2>4. CASE i \in new
        <3>1. PICK r \in fresh : i.output = OutputId(r) /\ i.height = Height[b]
            BY <1>16, <2>4
        <3>2. r \in spent /\ r \in d.outputs /\ ~ r.deleted /\ r \in Active(d.outputs)
            BY <1>14, <3>1
        <3>3. r.height <= Height[b]
            BY <1>30, <3>2 DEF HeightsIn
        <3> QED BY <1>26, <2>1, <2>2, <3>1, <3>2, <3>3
    <2> QED BY <1>7, <2>3, <2>4 DEF Active
<1>31. ASSUME NEW T, MinedIn(d, T) PROVE MinedIn(f, T)
    <2>1. MinedIn(e, T)
        BY <1>20, <1>31 DEF MinedIn
    <2> QED BY <1>28, <2>1 DEF SameBlocks
<1>32. \A i \in Active(inputs) : i \in Active(d.inputs) \/ i \in new
    BY <1>7 DEF Active
<1>33. ASSUME NEW T, SpentIn(d, T), NotSpentAgain(T, b)
       PROVE  SpentIn(f, T \cup {b}) /\ (DebitedOnce(d) => DebitedOnce(f))
    <2>1. ASSUME NEW r \in spent, NEW i \in Active(d.inputs) PROVE i.output # OutputId(r)
        <3>1. i.block \in T /\ i.output[1] \in Ins[i.block]
            BY <1>33 DEF SpentIn
        <3>2. r.coin \in Ins[b] /\ OutputId(r)[1] = r.coin
            BY <1>2, <1>14, Ids
        <3> QED BY <1>33, <3>1, <3>2 DEF NotSpentAgain
    <2>2. fresh = spent
        BY <1>3, <2>1 DEF Active, InputsOf
    <2>3. new \subseteq Active(inputs) /\ Active(d.inputs) \subseteq Active(inputs)
        BY <1>7, <1>16 DEF Active
    <2>4. paid = new
        <3>1. \A i \in paid : i \in new
            BY <1>8, <1>32, <2>1
        <3>2. \A i \in new : i \in paid
            BY <1>8, <1>14, <1>16, <2>3
        <3> QED BY <3>1, <3>2
    <2>5. ASSUME NEW i \in Active(inputs), NEW j \in Active(inputs), i.output = j.output
          PROVE  i = j
        <3>1. CASE i \in Active(d.inputs) /\ j \in Active(d.inputs)
            BY <1>33, <2>5, <3>1 DEF SpentIn
        <3>2. CASE i \in new /\ j \in new
            <4>1. PICK r \in fresh : i = row[r] /\ i.output = OutputId(r)
                BY <1>16, <3>2
            <4>2. PICK s \in fresh : j = row[s] /\ j.output = OutputId(s)
                BY <1>16, <3>2
            <4>3. r.coin = s.coin /\ r.n = s.n /\ r \in d.outputs /\ s \in d.outputs
                BY <1>14, <2>5, <4>1, <4>2, Ids
            <4>4. r = s
                BY <4>3 DEF Sound, OutputsAreKeyed
            <4> QED BY <4>1, <4>2, <4>4
        <3>3. CASE i \in Active(d.inputs) /\ j \in new
            BY <1>14, <1>16, <2>1, <2>5, <3>3
        <3>4. CASE i \in new /\ j \in Active(d.inputs)
            BY <1>14, <1>16, <2>1, <2>5, <3>4
        <3> QED BY <1>32, <3>1, <3>2, <3>3, <3>4
    <2>6. ASSUME NEW i \in Active(inputs)
          PROVE  /\ i.block \in T \cup {b} /\ i.height = Height[i.block]
                 /\ i.output[1] \in Ins[i.block]
        <3>1. CASE i \in Active(d.inputs)
            BY <1>33, <3>1 DEF SpentIn
        <3>2. CASE i \in new
            <4>1. PICK r \in spent : i.output = OutputId(r)
                BY <1>14, <1>16, <3>2
            <4> QED BY <1>2, <1>14, <1>16, <3>2, <4>1, Ids
        <3> QED BY <1>32, <3>1, <3>2
    <2>7. ASSUME NEW u \in T \cup {b}, NEW r \in Active(d.outputs), r.coin \in Ins[u]
          PROVE  \E i \in Active(inputs) : i.output = OutputId(r) /\ i.block = u
        <3>1. CASE u \in T
            BY <1>33, <2>3, <2>7, <3>1 DEF SpentIn
        <3>2. CASE u = b
            <4>1. r \in fresh
                BY <1>2, <2>2, <2>7, <3>2
            <4>2. row[r] \in new
                BY <1>6, <4>1
            <4> QED BY <1>15, <2>3, <3>2, <4>1, <4>2
        <3> QED BY <3>1, <3>2
    <2>8. SpentIn(e, T \cup {b})
        BY <1>20, <2>5, <2>6, <2>7 DEF SpentIn
    <2>9. ASSUME DebitedOnce(d) PROVE DebitedOnce(e)
        <3> SUFFICES ASSUME NEW i \in inputs
                     PROVE  /\ i.deleted =>
                                  \A x \in e.changes : x.row = InputId(i) => ~ Counts(x)
                            /\ \A x, y \in e.changes :
                                  /\ x.row = InputId(i) /\ y.row = InputId(i)
                                  /\ Counts(x) /\ Counts(y)
                                  => x = y
            BY <1>20 DEF DebitedOnce
        <3>1. CASE i \in d.inputs
            <4>1. InputId(i) \notin ids
                <5> SUFFICES ASSUME NEW j \in new, InputId(j) = InputId(i) PROVE FALSE
                    BY <1>9, <2>4
                <5>1. i \in InputRows /\ j \in InputRows
                    BY <1>1, <1>16, <3>1
                <5>2. i.output = j.output /\ i.n = j.n /\ i.n \in Nat
                    BY <5>1, Ids DEF InputRows
                <5> QED BY <1>16, <3>1, <5>2
            <4>2. \A x \in e.changes : x.row = InputId(i) => x \in d.changes
                BY <1>19, <1>20, <4>1 DEF AreOriginals
            <4> QED BY <2>9, <3>1, <4>2 DEF DebitedOnce
        <3>2. CASE i \in new
            <4>1. \A x \in d.changes : x.row # InputId(i)
                <5> SUFFICES ASSUME NEW x \in d.changes, x.row = InputId(i) PROVE FALSE
                    OBVIOUS
                <5>1. i \in InputRows /\ InputId(i) \in InputIds
                    BY <1>16, <3>2, Ids
                <5>2. PICK j \in d.inputs : InputId(j) = InputId(i)
                    BY <1>1, <5>1, Ids, IdTypes DEF Sound, ChangesAreOfRows
                <5>3. j \in InputRows
                    BY <1>1
                <5>4. i.output = j.output /\ i.n = j.n /\ i.n \in Nat
                    BY <5>1, <5>2, <5>3, Ids DEF InputRows
                <5> QED BY <1>16, <3>2, <5>4
            <4> QED BY <1>16, <1>19, <1>20, <3>2, <4>1 DEF AreOriginals
        <3> QED BY <1>7, <3>1, <3>2
    <2> QED BY <1>28, <2>8, <2>9 DEF SameBlocks
<1>34. ASSUME Finite(d) PROVE Finite(f)
    <2>1. IsFiniteSet(d.inputs) /\ IsFiniteSet(d.changes) /\ IsFiniteSet(d.outputs)
        BY <1>34 DEF Finite
    <2>2. IsFiniteSet(fresh)
        BY <1>14, <2>1, FS_Subset
    <2>3. IsFiniteSet(new)
        BY <1>6, <2>2, ImageIsFinite
    <2>4. IsFiniteSet(inputs)
        BY <1>7, <2>1, <2>3, FS_Union
    <2>5. IsFiniteSet(paid)
        BY <1>17, <2>4, FS_Subset
    <2>6. PICK idOf : idOf = [i \in paid |-> InputId(i)]
        OBVIOUS
    <2>7. ids = {idOf[i] : i \in paid}
        BY <1>9, <2>6
    <2>8. IsFiniteSet(ids)
        BY <2>5, <2>7, ImageIsFinite
    <2>9. PICK debitOf : debitOf = [id \in ids |-> Original(d, id)]
        OBVIOUS
    <2>10. debits = {debitOf[id] : id \in ids}
        BY <1>10, <2>9
    <2>11. IsFiniteSet(debits)
        BY <2>8, <2>10, ImageIsFinite
    <2>12. Finite(e)
        BY <1>20, <2>1, <2>4, <2>11, FS_Union DEF Finite
    <2> QED BY <1>28, <2>12 DEF SameBlocks
<1> QED BY <1>20, <1>28, <1>29, <1>30, <1>31, <1>33, <1>34 DEF HasSpent

(* Confirmations are labels only.                                          *)
LEMMA ConfirmationsProcessed ==
    ASSUME NEW d, Sound(d), NEW b \in Blocks, NEW f, f = process_confirmations(d, b)
    PROVE  /\ Sound(f) /\ f.tips = d.tips
           /\ OnRecord(d) => OnRecord(f)
           /\ Spends(d) => Spends(f)
           /\ SameBlocks(d, f)
<1>1. PICK min : min = IF Height[b] >= Confirmations THEN Height[b] - Confirmations ELSE 0
    OBVIOUS
<1>2. PICK ripe : ripe = {r.coin : r \in {s \in Active(d.outputs) :
                                            s.height <= min /\ s.confirmed = NoBlock}}
    OBVIOUS
<1>3. PICK img : img = [r \in d.outputs |->
                          IF r.coin \in ripe THEN [r EXCEPT !.confirmed = b] ELSE r]
    OBVIOUS
<1>4. f = WithOutputs(d, img)
    <2>1. {img[r] : r \in d.outputs}
          = {IF r.coin \in ripe THEN [r EXCEPT !.confirmed = b] ELSE r : r \in d.outputs}
        BY <1>3
    <2> QED BY <1>1, <1>2, <2>1, ZenonT(30) DEF process_confirmations, WithOutputs
<1>5. Relabels(d, img)
    <2> SUFFICES ASSUME NEW r \in d.outputs
                 PROVE  /\ img[r] \in OutputRows /\ img[r].coin = r.coin /\ img[r].n = r.n
                        /\ img[r].height = r.height /\ img[r].block = r.block
                        /\ img[r].deleted = r.deleted
                        /\ r.status = "SPENT" => img[r].status = "SPENT"
        BY DEF Relabels
    <2>1. r \in OutputRows
        BY DEF Sound, Tables
    <2>2. /\ [r EXCEPT !.confirmed = b] \in OutputRows
          /\ [r EXCEPT !.confirmed = b].coin = r.coin
          /\ [r EXCEPT !.confirmed = b].n = r.n
          /\ [r EXCEPT !.confirmed = b].height = r.height
          /\ [r EXCEPT !.confirmed = b].block = r.block
          /\ [r EXCEPT !.confirmed = b].deleted = r.deleted
          /\ [r EXCEPT !.confirmed = b].status = r.status
        BY ONLY <2>1, b \in Blocks DEF OutputRows
    <2> QED BY <1>3, <2>1, <2>2
<1>6. HasRelabelled(d, img, f)
    BY <1>4, <1>5, OutputsRelabelled
<1>7. ASSUME OnRecord(d) PROVE OnRecord(f)
    <2> SUFFICES ASSUME NEW r \in Active(f.outputs)
                 PROVE  r.height \in {Height[t] : t \in d.tips}
        BY <1>6 DEF OnRecord, HeightsIn, HasRelabelled
    <2>1. PICK s \in Active(d.outputs) : r = img[s]
        BY <1>6 DEF HasRelabelled
    <2>2. r.height = s.height
        BY <1>5, <2>1 DEF Relabels, Active
    <2> QED BY <1>7, <2>1, <2>2 DEF OnRecord, HeightsIn
<1> QED BY <1>6, <1>7 DEF HasRelabelled

(* b may follow the blocks of T.                                          *)
Follows(T, b) == NotMinedAfter(T, b) /\ NotSpentAgain(T, b)

(* What a block at the height of the highest block on record, or above it, *)
(* may not break.                                                          *)
HasProcessed(d, b, g) ==
    /\ Sound(g) /\ g.tips = d.tips \cup {b}
    /\ OnRecord(d) => OnRecord(g)
    /\ OnRecord(d) /\ Spends(d) /\ (\A t \in d.tips : Height[t] <= Height[b]) => Spends(g)
    /\ Matches(d) /\ ~ insert_output_fails(d, b) /\ Follows(d.tips, b) => Matches(g)

(* A block keeps the tables sound.                                         *)
LEMMA BlockProcessed ==
    ASSUME NEW d, Sound(d), NEW b \in Blocks
    PROVE  HasProcessed(d, b, process_block(d, b))
<1>1. PICK e : e = process_outputs(d, b)
    OBVIOUS
<1>2. /\ Sound(e) /\ e.inputs = d.inputs /\ e.tips = d.tips
      /\ Active(d.outputs) \subseteq Active(e.outputs)
      /\ \A r \in Active(e.outputs) : r \in Active(d.outputs) \/ r.height = Height[b]
      /\ \A T : MinedIn(d, T) /\ ~ insert_output_fails(d, b) => MinedIn(e, T \cup {b})
      /\ \A T : SpentIn(d, T) /\ NotMinedAfter(T, b) => SpentIn(e, T)
      /\ DebitedOnce(d) => DebitedOnce(e)
      /\ Finite(d) => Finite(e)
    BY <1>1, OutputsAdded
<1>3. PICK f : f = process_inputs(e, b)
    OBVIOUS
<1>4. HasSpent(e, b, f)
    BY <1>2, <1>3, InputsAdded
<1>5. PICK g : g = record_scanned_block(f, b)
    OBVIOUS
<1>6. /\ g \in Tables /\ g.outputs = f.outputs /\ g.inputs = f.inputs /\ g.changes = f.changes
      /\ g.tips = d.tips \cup {b}
    BY <1>2, <1>4, <1>5 DEF record_scanned_block, HasSpent, Sound, Tables
<1>7. Sound(g)
    BY <1>4, <1>6 DEF HasSpent, Sound, ChangesAreOfRows, Credited, Debited
<1>8. ASSUME OnRecord(d) PROVE OnRecord(g)
    <2> SUFFICES ASSUME NEW r \in Active(f.outputs)
                 PROVE  \E t \in d.tips \cup {b} : r.height = Height[t]
        BY <1>6 DEF OnRecord, HeightsIn
    <2>1. PICK s \in Active(e.outputs) : r.height = s.height
        BY <1>4 DEF HasSpent
    <2> QED BY <1>2, <1>8, <2>1 DEF OnRecord, HeightsIn
<1>9. ASSUME OnRecord(d), Spends(d), \A t \in d.tips : Height[t] <= Height[b]
      PROVE  Spends(g)
    <2>1. Spends(e)
        BY <1>2, <1>9 DEF Spends
    <2>2. HeightsIn(e, 0 .. Height[b])
        <3> SUFFICES ASSUME NEW r \in Active(e.outputs) PROVE r.height \in 0 .. Height[b]
            BY DEF HeightsIn
        <3>1. Height[b] \in Nat /\ d.tips \subseteq Blocks /\ \A t \in d.tips : Height[t] \in Nat
            BY BlockConstants DEF Sound, Tables
        <3>2. CASE r.height = Height[b]
            BY <3>1, <3>2
        <3>3. CASE r \in Active(d.outputs)
            <4>1. PICK t \in d.tips : r.height = Height[t]
                BY <1>9, <3>3 DEF OnRecord, HeightsIn
            <4> QED BY <1>9, <3>1, <4>1
        <3> QED BY <1>2, <3>2, <3>3
    <2> QED BY <1>4, <1>6, <2>1, <2>2 DEF HasSpent, Spends
<1>10. PICK p : p = process_confirmations(g, b)
    OBVIOUS
<1>11. /\ Sound(p) /\ p.tips = g.tips /\ (OnRecord(g) => OnRecord(p))
       /\ Spends(g) => Spends(p)
       /\ SameBlocks(g, p)
    BY <1>7, <1>10, ConfirmationsProcessed
<1>12. p = process_block(d, b)
    BY <1>1, <1>3, <1>5, <1>10 DEF process_block
<1>13. ASSUME Matches(d), ~ insert_output_fails(d, b), Follows(d.tips, b) PROVE Matches(p)
    <2>1. /\ MinedIn(f, d.tips \cup {b}) /\ SpentIn(f, d.tips \cup {b}) /\ DebitedOnce(f)
          /\ Finite(f)
        BY <1>2, <1>4, <1>13 DEF HasSpent, Matches, Follows
    <2>2. MinedIn(g, p.tips) /\ SpentIn(g, p.tips) /\ DebitedOnce(g) /\ Finite(g)
        BY <1>6, <1>11, <2>1 DEF MinedIn, SpentIn, DebitedOnce, Finite
    <2> QED BY <1>11, <2>2 DEF Matches, SameBlocks
<1>14. HasProcessed(d, b, p)
    BY <1>6, <1>8, <1>9, <1>11, <1>13 DEF HasProcessed
<1> QED BY <1>12, <1>14
-----------------------------------------------------------------------------
(* A batch                                                                 *)

(* One block of process_blocks.                                            *)
Processed(s, b, from) ==
    IF Height[b] < from THEN s
    ELSE [ok |-> s.ok /\ ~ insert_output_fails(s.d, b), d |-> process_block(s.d, b)]

(* g[k] is the outcome of the first k blocks.                              *)
IsRun(g, d, batch, from, n) ==
    g = [k \in 0 .. n |-> IF k = 0 THEN [ok |-> TRUE, d |-> d]
                                   ELSE Processed(g[k - 1], batch[k], from)]

(* The recursive function of process_blocks exists.                        *)
LEMMA RunExists ==
    ASSUME NEW d, NEW batch, NEW from, NEW n \in Nat
    PROVE  \E g : IsRun(g, d, batch, from, n)
<1>1. PICK bad : bad = {k \in Nat : ~ \E g : IsRun(g, d, batch, from, k)}
    OBVIOUS
<1>2. SUFFICES ASSUME bad # {} PROVE FALSE
    BY <1>1
<1>3. PICK m : m = Min(bad)
    OBVIOUS
<1>4. m \in Nat /\ m \in bad /\ \A k \in bad : m <= k
    BY <1>1, <1>2, <1>3, Smallest
<1>5. ~ \E g : IsRun(g, d, batch, from, m)
    BY <1>1, <1>4
<1>6. CASE m = 0
    <2>1. PICK g : g = [k \in 0 .. 0 |-> [ok |-> TRUE, d |-> d]]
        OBVIOUS
    <2>2. \A k \in 0 .. 0 : k = 0
        OBVIOUS
    <2>3. g = [k \in 0 .. 0 |-> IF k = 0 THEN [ok |-> TRUE, d |-> d]
                                         ELSE Processed(g[k - 1], batch[k], from)]
        BY <2>1, <2>2
    <2> QED BY <1>5, <1>6, <2>3 DEF IsRun
<1>7. CASE m # 0
    <2>1. PICK p \in Nat : m = p + 1
        <3>1. m - 1 \in Nat /\ m = (m - 1) + 1
            BY <1>4, <1>7
        <3> QED BY <3>1
    <2>2. p \notin bad
        BY <1>4, <2>1
    <2>3. PICK g : IsRun(g, d, batch, from, p)
        BY <1>1, <2>2
    <2>4. PICK f : f = [k \in 0 .. m |-> IF k = m THEN Processed(g[p], batch[m], from) ELSE g[k]]
        OBVIOUS
    <2>5. ASSUME NEW k \in 0 .. m
          PROVE  f[k] = IF k = 0 THEN [ok |-> TRUE, d |-> d]
                                 ELSE Processed(f[k - 1], batch[k], from)
        <3>1. CASE k = m
            <4>1. k - 1 = p /\ p \in 0 .. m /\ p # m
                BY <1>4, <2>1, <3>1
            <4>2. f[p] = g[p]
                BY <2>4, <4>1
            <4> QED BY <1>7, <2>4, <3>1, <4>1, <4>2
        <3>2. CASE k = 0
            <4>1. k \in 0 .. p /\ k # m
                BY <1>7, <2>1, <3>2
            <4>2. g[k] = [ok |-> TRUE, d |-> d]
                BY <2>3, <3>2, <4>1 DEF IsRun
            <4> QED BY <2>4, <3>2, <4>1, <4>2
        <3>3. CASE k # 0 /\ k # m
            <4>1. k \in 0 .. p /\ k - 1 \in 0 .. m /\ k - 1 # m
                BY <2>1, <3>3
            <4>2. g[k] = Processed(g[k - 1], batch[k], from)
                BY <2>3, <3>3, <4>1 DEF IsRun
            <4>3. f[k - 1] = g[k - 1] /\ f[k] = g[k]
                BY <2>4, <3>3, <4>1
            <4> QED BY <3>3, <4>2, <4>3
        <3> QED BY <3>1, <3>2, <3>3
    <2>6. f = [k \in 0 .. m |-> IF k = 0 THEN [ok |-> TRUE, d |-> d]
                                         ELSE Processed(f[k - 1], batch[k], from)]
        BY ONLY <2>4, <2>5
    <2> QED BY <1>5, <2>6 DEF IsRun
<1> QED BY <1>6, <1>7

(* process_blocks returns the last outcome.                                *)
LEMMA RunOfBatch ==
    ASSUME NEW d, NEW batch \in Seq(Blocks), NEW from
    PROVE  \E g : /\ IsRun(g, d, batch, from, Len(batch))
                  /\ process_blocks(d, batch, from) = g[Len(batch)]
<1>1. PICK g : g = CHOOSE f : IsRun(f, d, batch, from, Len(batch))
    OBVIOUS
<1>2. Len(batch) \in Nat
    OBVIOUS
<1>3. IsRun(g, d, batch, from, Len(batch))
    BY <1>1, <1>2, RunExists
<1>4. process_blocks(d, batch, from) = g[Len(batch)]
    BY <1>1 DEF process_blocks, IsRun, Processed
<1> QED BY <1>3, <1>4

(* What holds of the outcome of the first k blocks.                        *)
HasProcessedUpTo(d, batch, from, k, e) ==
    /\ Sound(e) /\ OnRecord(e) /\ d.tips \subseteq e.tips
    /\ \A j \in 1 .. k : from <= Height[batch[j]] => batch[j] \in e.tips
    /\ \A t \in e.tips : t \in d.tips \/ \E j \in 1 .. k : t = batch[j]
    /\ Spends(d) /\ (\A t \in d.tips : Height[t] <= from) /\ Ascending(batch) => Spends(e)

(* It holds of all of them.                                                *)
LEMMA BatchProcessed ==
    ASSUME NEW d, Sound(d), OnRecord(d), NEW batch \in Seq(Blocks), NEW from \in Nat
    PROVE  HasProcessedUpTo(d, batch, from, Len(batch), process_blocks(d, batch, from).d)
<1>1. PICK n \in Nat : n = Len(batch)
    OBVIOUS
<1>2. PICK g : IsRun(g, d, batch, from, n) /\ process_blocks(d, batch, from) = g[n]
    BY <1>1, RunOfBatch
<1>3. PICK bad : bad = {k \in 0 .. n : ~ HasProcessedUpTo(d, batch, from, k, g[k].d)}
    OBVIOUS
<1>4. CASE bad = {}
    <2>1. n \in 0 .. n
        OBVIOUS
    <2>2. HasProcessedUpTo(d, batch, from, n, g[n].d)
        BY <1>3, <1>4, <2>1
    <2> QED BY <1>1, <1>2, <2>2
<1>5. CASE bad # {}
    <2>1. PICK m : m = Min(bad)
        OBVIOUS
    <2>2. m \in 0 .. n /\ m \in bad /\ \A k \in bad : m <= k
        <3>1. bad \in SUBSET Nat
            BY <1>3
        <3> QED BY <1>3, <1>5, <2>1, <3>1, Smallest
    <2>3. ~ HasProcessedUpTo(d, batch, from, m, g[m].d)
        BY <1>3, <2>2
    <2>4. CASE m = 0
        <3>1. g[0] = [ok |-> TRUE, d |-> d]
            BY <1>2, <2>2, <2>4 DEF IsRun
        <3>2. g[0].d = d
            BY <3>1
        <3> QED BY <2>3, <2>4, <3>2 DEF HasProcessedUpTo
    <2>5. CASE m # 0
        <3>1. PICK p \in 0 .. n : m = p + 1
            <4>1. m - 1 \in 0 .. n /\ m = (m - 1) + 1
                BY <2>2, <2>5
            <4> QED BY <4>1
        <3>2. HasProcessedUpTo(d, batch, from, p, g[p].d)
            BY <1>3, <2>2, <3>1
        <3>3. PICK b \in Blocks : b = batch[m]
            BY <1>1, <2>2, <2>5
        <3>4. PICK e : e = g[p].d
            OBVIOUS
        <3>5. g[m] = Processed(g[p], b, from)
            <4>1. m - 1 = p
                BY <3>1
            <4> QED BY <1>2, <2>2, <2>5, <3>3, <4>1 DEF IsRun
        <3>6. CASE Height[b] < from
            <4>1. g[m].d = e
                BY <3>4, <3>5, <3>6 DEF Processed
            <4>2. 1 .. p \subseteq 1 .. m
                BY <3>1
            <4>3. ASSUME NEW j \in 1 .. m, from <= Height[batch[j]] PROVE batch[j] \in e.tips
                <5>1. j # m
                    BY <3>3, <3>6, <4>3, BlockConstants
                <5>2. j \in 1 .. p
                    BY <3>1, <5>1
                <5> QED BY <3>2, <3>4, <4>3, <5>2 DEF HasProcessedUpTo
            <4> QED BY <2>3, <3>2, <3>4, <4>1, <4>2, <4>3 DEF HasProcessedUpTo
        <3>7. CASE ~ (Height[b] < from)
            <4>1. g[m].d = process_block(e, b)
                BY <3>4, <3>5, <3>7 DEF Processed
            <4>2. HasProcessed(e, b, g[m].d)
                BY <3>2, <3>4, <4>1, BlockProcessed DEF HasProcessedUpTo
            <4>3. \A t \in g[m].d.tips : t \in d.tips \/ \E j \in 1 .. m : t = batch[j]
                <5>1. m \in 1 .. m /\ 1 .. p \subseteq 1 .. m
                    BY <2>2, <2>5, <3>1
                <5> QED BY <3>2, <3>3, <3>4, <4>2, <5>1 DEF HasProcessed, HasProcessedUpTo
            <4>4. ASSUME Spends(d), \A t \in d.tips : Height[t] <= from, Ascending(batch)
                  PROVE  Spends(g[m].d)
                <5>1. Spends(e)
                    BY <3>2, <3>4, <4>4 DEF HasProcessedUpTo
                <5>2. ASSUME NEW t \in e.tips PROVE Height[t] <= Height[b]
                    <6>1. t \in Blocks /\ Height[t] \in Nat /\ Height[b] \in Nat
                        BY <3>2, <3>4, BlockConstants DEF HasProcessedUpTo, Sound, Tables
                    <6>2. CASE t \in d.tips
                        BY <3>7, <4>4, <6>1, <6>2
                    <6>3. CASE \E j \in 1 .. p : t = batch[j]
                        <7>1. PICK j \in 1 .. p : t = batch[j]
                            BY <6>3
                        <7>2. j \in DOMAIN batch /\ m \in DOMAIN batch /\ j < m
                            BY <1>1, <2>2, <2>5, <3>1
                        <7> QED BY <3>3, <4>4, <6>1, <7>1, <7>2 DEF Ascending
                    <6> QED BY <3>2, <3>4, <6>2, <6>3 DEF HasProcessedUpTo
                <5> QED BY <3>2, <3>4, <4>2, <5>1, <5>2 DEF HasProcessed, HasProcessedUpTo
            <4>5. ASSUME NEW j \in 1 .. m, from <= Height[batch[j]] PROVE batch[j] \in g[m].d.tips
                <5>1. CASE j = m
                    BY <3>3, <4>2, <5>1 DEF HasProcessed
                <5>2. CASE j # m
                    <6>1. j \in 1 .. p
                        BY <3>1, <5>2
                    <6> QED BY <3>2, <3>4, <4>2, <4>5, <6>1 DEF HasProcessed, HasProcessedUpTo
                <5> QED BY <5>1, <5>2
            <4> QED BY <2>3, <3>2, <3>4, <4>2, <4>3, <4>4, <4>5 DEF HasProcessed, HasProcessedUpTo
        <3> QED BY <3>6, <3>7
    <2> QED BY <2>4, <2>5
<1> QED BY <1>4, <1>5

(* Every block of the batch may follow those before it.                    *)
FollowsAll(d, batch) ==
    \A k \in DOMAIN batch :
        Follows(d.tips, batch[k]) /\ \A j \in 1 .. (k - 1) : Follows({batch[j]}, batch[k])

(* What is said of the first k blocks when no insert has been refused.     *)
HasMatchedUpTo(d, batch, k, s) ==
    /\ Sound(s.d) /\ \A t \in s.d.tips : t \in d.tips \/ \E j \in 1 .. k : t = batch[j]
    /\ s.ok => Matches(s.d)

(* A batch that is accepted keeps the tables and the record in step.       *)
LEMMA BatchMatches ==
    ASSUME NEW d, Sound(d), Matches(d), NEW batch \in Seq(Blocks), NEW from \in Nat,
           FollowsAll(d, batch), NEW res, res = process_blocks(d, batch, from), res.ok
    PROVE  Matches(res.d)
<1>1. PICK n \in Nat : n = Len(batch)
    OBVIOUS
<1>2. PICK g : IsRun(g, d, batch, from, n) /\ res = g[n]
    BY <1>1, RunOfBatch
<1>3. PICK bad : bad = {k \in 0 .. n : ~ HasMatchedUpTo(d, batch, k, g[k])}
    OBVIOUS
<1>4. CASE bad = {}
    <2>1. HasMatchedUpTo(d, batch, n, g[n])
        BY <1>3, <1>4, n \in 0 .. n
    <2> QED BY <1>2, <2>1 DEF HasMatchedUpTo
<1>5. CASE bad # {}
    <2>1. PICK m : m = Min(bad)
        OBVIOUS
    <2>2. m \in 0 .. n /\ m \in bad /\ \A k \in bad : m <= k
        <3>1. bad \in SUBSET Nat
            BY <1>3
        <3> QED BY <1>3, <1>5, <2>1, <3>1, Smallest
    <2>3. ~ HasMatchedUpTo(d, batch, m, g[m])
        BY <1>3, <2>2
    <2>4. CASE m = 0
        <3>1. g[0] = [ok |-> TRUE, d |-> d]
            BY <1>2, <2>2, <2>4 DEF IsRun
        <3>2. g[0].d = d
            BY <3>1
        <3> QED BY <2>3, <2>4, <3>2 DEF HasMatchedUpTo
    <2>5. CASE m # 0
        <3>1. PICK p \in 0 .. n : m = p + 1
            <4>1. m - 1 \in 0 .. n /\ m = (m - 1) + 1
                BY <2>2, <2>5
            <4> QED BY <4>1
        <3>2. PICK s : s = g[p]
            OBVIOUS
        <3>3. HasMatchedUpTo(d, batch, p, s)
            BY <1>3, <2>2, <3>1, <3>2
        <3>4. PICK b \in Blocks : b = batch[m]
            BY <1>1, <2>2, <2>5
        <3>5. g[m] = Processed(s, b, from)
            <4>1. m - 1 = p
                BY <3>1
            <4> QED BY <1>2, <2>2, <2>5, <3>2, <3>4, <4>1 DEF IsRun
        <3>6. 1 .. p \subseteq 1 .. m /\ m \in 1 .. m /\ \A j \in 1 .. p : j \in 1 .. (m - 1)
            BY <2>2, <2>5, <3>1
        <3>7. CASE Height[b] < from
            <4>1. g[m] = s
                BY <3>5, <3>7 DEF Processed
            <4> QED BY <2>3, <3>3, <3>6, <4>1 DEF HasMatchedUpTo
        <3>8. CASE ~ (Height[b] < from)
            <4>1. PICK e : e = process_block(s.d, b)
                OBVIOUS
            <4>2. g[m].d = e /\ (g[m].ok => s.ok /\ ~ insert_output_fails(s.d, b))
                <5>1. PICK ok : ok = (s.ok /\ ~ insert_output_fails(s.d, b))
                    OBVIOUS
                <5>2. g[m] = [ok |-> ok, d |-> e]
                    BY <3>5, <3>8, <4>1, <5>1 DEF Processed
                <5>3. g[m].d = e /\ g[m].ok = ok
                    BY <5>2
                <5> QED BY <5>1, <5>3
            <4>3. HasProcessed(s.d, b, e)
                BY <3>3, <4>1, BlockProcessed DEF HasMatchedUpTo
            <4>4. \A t \in e.tips : t \in d.tips \/ \E j \in 1 .. m : t = batch[j]
                BY <3>3, <3>4, <3>6, <4>3 DEF HasProcessed, HasMatchedUpTo
            <4>5. Follows(s.d.tips, b)
                <5>1. m \in DOMAIN batch
                    BY <1>1, <2>2, <2>5
                <5>2. Follows(d.tips, b) /\ \A j \in 1 .. p : Follows({batch[j]}, b)
                    BY <3>4, <3>6, <5>1 DEF FollowsAll
                <5>3. ASSUME NEW t \in s.d.tips
                      PROVE  Ins[t] \cap Outs[b] = {} /\ Ins[t] \cap Ins[b] = {}
                    <6>1. CASE t \in d.tips
                        BY <5>2, <6>1 DEF Follows, NotMinedAfter, NotSpentAgain
                    <6>2. CASE \E j \in 1 .. p : t = batch[j]
                        BY <5>2, <6>2 DEF Follows, NotMinedAfter, NotSpentAgain
                    <6> QED BY <3>3, <6>1, <6>2 DEF HasMatchedUpTo
                <5> QED BY <5>3 DEF Follows, NotMinedAfter, NotSpentAgain
            <4> QED BY <2>3, <3>3, <4>2, <4>3, <4>4, <4>5 DEF HasProcessed, HasMatchedUpTo
        <3> QED BY <3>7, <3>8
    <2> QED BY <2>4, <2>5
<1> QED BY <1>4, <1>5
-----------------------------------------------------------------------------
(* The steps of the scanner                                                *)

(* The height of a block is its place in the chain.                        *)
LEMMA ChainHeights ==
    ASSUME NEW c \in Chains
    PROVE  /\ c \in Seq(Blocks) /\ Tip(c) \in Nat /\ Len(c) = Tip(c) + 1
           /\ \A h \in Nat : h <= Tip(c) => At(c, h) \in Blocks /\ Height[At(c, h)] = h
<1>1. c \in Seq(Blocks) /\ c # <<>> /\ Len(c) \in Nat \ {0}
    BY ChainConstants
<1>2. Tip(c) \in Nat /\ Len(c) = Tip(c) + 1
    BY <1>1 DEF Tip
<1>3. ASSUME NEW h \in Nat, h <= Tip(c) PROVE At(c, h) \in Blocks /\ Height[At(c, h)] = h
    <2>1. h + 1 \in DOMAIN c /\ h + 1 \in 1 .. Len(c)
        BY <1>1, <1>2, <1>3
    <2>2. c[h + 1] \in Blocks /\ Height[c[h + 1]] + 1 = h + 1
        BY <1>1, <2>1, ChainConstants
    <2>3. Height[c[h + 1]] \in Nat
        BY <2>2, BlockConstants
    <2> QED BY <2>2, <2>3 DEF At
<1> QED BY <1>1, <1>2, <1>3

(* Nothing is fetched yet, or any more.                                    *)
LEMMA ClosedIsInOrder ==
    cursor' = NoBlock /\ queue' = <<>> => StreamIsClosed' /\ StreamIsInOrder'
BY DEF StreamIsClosed, StreamIsInOrder

(* The empty queue is of its type.                                         *)
LEMMA EmptyQueue == <<>> \in Seq(Seq(Blocks) \ {<<>>})
OBVIOUS

(* Init establishes the invariant.                                         *)
LEMMA InitHolds == Init => IInv
<1> SUFFICES ASSUME Init PROVE IInv
    OBVIOUS
<1> USE DEF Init
<1>1. db = Empty /\ db \in Tables /\ db.outputs = {} /\ db.inputs = {} /\ db.changes = {}
      /\ db.tips = {}
    BY DEF Empty, Tables
<1>2. TypeOK
    BY <1>1, EmptyQueue DEF TypeOK
<1>3. Sound(db)
    <2>1. 0 \in Nat
        OBVIOUS
    <2> QED BY <1>1, <2>1 DEF Sound, OutputsAreKeyed, InputsAreKeyed, Bounded, Ledger,
               ChangesAreOfRows, AmountsAreRight, Credited, Debited, Active
<1>4. OnRecord(db) /\ Spends(db)
    BY <1>1 DEF OnRecord, HeightsIn, Spends, Active
<1>5. StreamIsClosed /\ StreamIsInOrder /\ RecordIsBelow
    BY DEF StreamIsClosed, StreamIsInOrder, RecordIsBelow
<1> QED BY <1>2, <1>3, <1>4, <1>5 DEF IInv

(* The tables are left alone.                                              *)
LEMMA TablesKept ==
    db' = db /\ Sound(db) /\ OnRecord(db) => Sound(db') /\ OnRecord(db')
OBVIOUS

(* A fork found between two batches never raises the next height.          *)
LEMMA CheckTipHolds == IInv /\ CheckTip => IInv'
<1> SUFFICES ASSUME IInv, CheckTip PROVE IInv'
    OBVIOUS
<1> USE DEF IInv
<1>1. PICK b \in unchecked :
         /\ \A u \in unchecked : Height[u] <= Height[b]
         /\ \/ /\ pc' = "settle"
               /\ next' = IF forked \/ why = "prepare" THEN Height[b] + 1 ELSE next
               /\ UNCHANGED <<unchecked, forked>>
            \/ /\ forked' = TRUE
               /\ unchecked' = unchecked \ {b}
               /\ \/ unchecked = {b} /\ pc' = "settle" /\ next' = 0
                  \/ UNCHANGED <<pc, next>>
    BY DEF CheckTip
<1>2. /\ pc = "check" /\ b \in Blocks /\ Height[b] \in Nat
      /\ chain' = chain /\ db' = db /\ why' = why /\ since' = since
      /\ cursor' = cursor /\ queue' = queue /\ raced' = raced /\ polled' = polled
      /\ behind' = behind /\ reorgs' = reorgs /\ events' = events
    BY BlockConstants DEF CheckTip, TypeOK, stream, counts
<1>3. TypeOK'
    <2>1. next' \in Nat
        BY <1>1, <1>2 DEF TypeOK
    <2>2. unchecked' \subseteq Blocks /\ forked' \in BOOLEAN /\ pc' \in {"check", "settle"}
        BY <1>1, <1>2 DEF TypeOK
    <2> QED BY <1>2, <2>1, <2>2 DEF TypeOK
<1>4. Sound(db') /\ OnRecord(db')
    BY <1>2
<1>5. pc' \in {"check", "settle"}
    BY <1>1, <1>2
<1>6. StreamIsClosed'
    BY <1>2, <1>5 DEF StreamIsClosed, Streaming
<1>7. ASSUME ~ behind PROVE StreamIsInOrder' /\ RecordIsBelow' /\ Spends(db')
    <2>1. /\ unchecked \subseteq db.tips /\ (~ forked => unchecked = db.tips)
          /\ \A t \in db.tips : t \in Blocks /\ Height[t] \in Nat
          /\ why = "poll" => \A t \in db.tips : Height[t] <= next
          /\ why = "batch" => \A t \in db.tips : Height[t] < next
        BY <1>2, <1>7, BlockConstants DEF RecordIsBelow, TypeOK, Tables
    <2>2. why # "batch" => cursor = NoBlock /\ queue = <<>>
        BY <1>2 DEF StreamIsClosed, Streaming
    <2>3. why = "batch" => next' <= next /\ next' \in Nat /\ next \in Nat
        BY <1>1, <1>2, <2>1 DEF TypeOK
    <2>4. StreamIsInOrder'
        <3>1. CASE why # "batch"
            BY <1>2, <2>2, <3>1 DEF StreamIsInOrder
        <3>2. CASE why = "batch"
            <4>1. \A k \in DOMAIN queue : \A i \in DOMAIN queue[k] :
                     next <= Height[queue[k][i]] /\ Height[queue[k][i]] \in Nat
                BY <1>7, BlockConstants DEF StreamIsInOrder, TypeOK
            <4>2. cursor # NoBlock => Position \in Nat /\ next <= Position
                BY <1>7, BlockConstants DEF StreamIsInOrder, TypeOK, Position
            <4>3. /\ \A k \in DOMAIN queue : \A i \in DOMAIN queue[k] :
                        next' <= Height[queue[k][i]]
                  /\ cursor # NoBlock => next' <= Position
                BY <2>3, <3>2, <4>1, <4>2
            <4> QED BY <1>2, <1>7, <4>3 DEF StreamIsInOrder, Position
        <3> QED BY <3>1, <3>2
    <2>5. RecordIsBelow'
        <3>1. ASSUME pc' = "check"
              PROVE  unchecked' \subseteq db.tips /\ forked' = TRUE /\ next' = next
            BY <1>1, <2>1, <3>1
        <3>2. ASSUME pc' = "settle", ~ forked', why # "batch"
              PROVE  \A t \in db.tips : Height[t] <= next'
            <4>1. /\ unchecked = db.tips
                  /\ next' = IF why = "prepare" THEN Height[b] + 1 ELSE next
                BY <1>1, <2>1, <3>2
            <4>2. CASE why = "prepare"
                BY <1>1, <1>2, <2>1, <4>1, <4>2
            <4>3. CASE why # "prepare"
                BY <2>1, <3>2, <4>1, <4>3 DEF TypeOK
            <4> QED BY <4>2, <4>3
        <3>3. ASSUME pc' = "settle", ~ forked', why = "batch"
              PROVE  \A t \in db.tips : Height[t] < next'
            BY <1>1, <2>1, <3>3
        <3>4. why = "poll" /\ pc' = "check" => \A t \in db.tips : Height[t] <= next'
            BY <2>1, <3>1
        <3>5. why = "batch" /\ pc' = "check" => \A t \in db.tips : Height[t] < next'
            BY <2>1, <3>1
        <3> QED BY <1>2, <1>5, <3>1, <3>2, <3>3, <3>4, <3>5 DEF RecordIsBelow
    <2> QED BY <1>2, <1>7, <2>4, <2>5
<1> QED BY <1>2, <1>3, <1>4, <1>6, <1>7

(* The rollback leaves no block at the next height or above.               *)
LEMMA SettleHolds == IInv /\ Settle => IInv'
<1> SUFFICES ASSUME IInv, Settle PROVE IInv'
    OBVIOUS
<1> USE DEF IInv
<1>1. /\ pc = "settle" /\ unchecked' = {} /\ forked' = FALSE
      /\ db' = IF forked THEN rollback_from_height(db, next) ELSE db
      /\ next' = IF why = "prepare" /\ next = 0 THEN Birthday ELSE next
      /\ since' = IF why = "prepare" THEN 0 ELSE since
      /\ chain' = chain /\ why' = why /\ raced' = raced /\ polled' = polled
      /\ behind' = behind /\ reorgs' = reorgs /\ events' = events
    BY DEF Settle, counts
<1>2. \/ why = "batch" /\ pc' = "stream" /\ cursor' = cursor /\ queue' = queue
      \/ why # "batch" /\ pc' = "open" /\ cursor' = NoBlock /\ queue' = <<>>
    BY DEF Settle, OpenStream, stream
<1>3. next \in Nat /\ next' \in Nat /\ Birthday \in Nat
    BY <1>1, ChainConstants DEF TypeOK
<1>4. /\ Sound(db') /\ OnRecord(db') /\ (Spends(db) => Spends(db'))
      /\ forked => \A t \in db'.tips : Height[t] < next
      /\ ~ forked => db' = db
    <2>1. CASE forked
        <3>1. PICK g : g = rollback_from_height(db, next)
            OBVIOUS
        <3>2. /\ Sound(g) /\ OnRecord(g) /\ g.tips = {t \in db.tips : Height[t] < next}
              /\ Spends(db) => Spends(g)
            BY <1>3, <3>1, RollbackKeeps
        <3>3. db' = g
            BY <1>1, <2>1, <3>1
        <3> QED BY <2>1, <3>2, <3>3
    <2>2. CASE ~ forked
        BY <1>1, <2>2
    <2> QED BY <2>1, <2>2
<1>5. TypeOK'
    BY <1>1, <1>2, <1>3, <1>4, EmptyQueue DEF TypeOK, Sound
<1>6. StreamIsClosed'
    BY <1>2 DEF StreamIsClosed, Streaming
<1>7. ASSUME ~ behind PROVE StreamIsInOrder' /\ RecordIsBelow' /\ Spends(db')
    <2>1. StreamIsInOrder'
        <3>1. CASE why = "batch"
            <4>1. cursor' = cursor /\ queue' = queue /\ next' = next
                BY <1>1, <1>2, <3>1
            <4> QED BY <1>7, <4>1 DEF StreamIsInOrder, Position
        <3>2. CASE why # "batch"
            BY <1>2, <3>2, ClosedIsInOrder
        <3> QED BY <3>1, <3>2
    <2>2. ASSUME NEW t \in db'.tips PROVE Height[t] <= next'
        <3>1. Height[t] \in Nat
            BY <1>4, BlockConstants DEF Sound, Tables
        <3>2. CASE forked
            <4>1. Height[t] < next
                BY <1>4, <3>2
            <4> QED BY <1>1, <1>3, <3>1, <4>1
        <3>3. CASE ~ forked
            <4>1. t \in db.tips
                BY <1>4, <3>3
            <4>2. Height[t] <= next
                <5>1. CASE why = "batch"
                    BY <1>1, <1>3, <1>7, <3>1, <3>3, <4>1, <5>1 DEF RecordIsBelow
                <5>2. CASE why # "batch"
                    BY <1>1, <1>7, <3>3, <4>1, <5>2 DEF RecordIsBelow
                <5> QED BY <5>1, <5>2
            <4> QED BY <1>1, <1>3, <3>1, <4>2
        <3> QED BY <3>2, <3>3
    <2>3. RecordIsBelow'
        BY <1>2, <2>2 DEF RecordIsBelow
    <2> QED BY <1>4, <1>7, <2>1, <2>3
<1> QED BY <1>1, <1>4, <1>5, <1>6, <1>7

(* A cycle starts without a stream.                                        *)
LEMMA StartCycleHolds == IInv /\ StartCycle => IInv'
<1> SUFFICES ASSUME IInv, StartCycle PROVE IInv'
    OBVIOUS
<1> USE DEF IInv
<1>1. /\ pc = "idle" /\ chain' = chain /\ db' = db /\ raced' = raced /\ polled' = polled
      /\ behind' = behind /\ reorgs' = reorgs /\ events' = events
    BY DEF StartCycle, counts
<1>2. cursor = NoBlock /\ queue = <<>>
    BY <1>1 DEF StreamIsClosed, Streaming
<1>3. \/ /\ db.tips = {} /\ pc' = "open" /\ cursor' = NoBlock /\ queue' = <<>>
         /\ next' = Birthday /\ since' = 0 /\ UNCHANGED <<why, unchecked, forked>>
      \/ /\ pc' = "check" /\ why' = "prepare" /\ unchecked' = db.tips /\ forked' = FALSE
         /\ next' = next /\ since' = since /\ cursor' = NoBlock /\ queue' = <<>>
    BY <1>2 DEF StartCycle, OpenStream, BeginCheck, stream
<1>4. TypeOK'
    <2>1. /\ next' \in Nat /\ since' \in Nat /\ pc' \in {"open", "check"}
          /\ cursor' = NoBlock /\ queue' = <<>>
        BY <1>3, ChainConstants DEF TypeOK
    <2>2. /\ why' \in {"prepare", "batch", "poll"}
          /\ unchecked' \subseteq Blocks /\ forked' \in BOOLEAN
        BY <1>3 DEF TypeOK, Tables
    <2> QED BY <1>1, <2>1, <2>2, EmptyQueue DEF TypeOK
<1>5. StreamIsClosed' /\ StreamIsInOrder'
    BY <1>3, ClosedIsInOrder
<1>6. RecordIsBelow'
    BY <1>1, <1>3 DEF RecordIsBelow
<1>7. Sound(db') /\ OnRecord(db') /\ (~ behind' => Spends(db'))
    BY <1>1
<1> QED BY <1>4, <1>5, <1>6, <1>7

(* The download starts at the next height.                                 *)
LEMMA OpenDownloadHolds == IInv /\ OpenDownload => IInv'
<1> SUFFICES ASSUME IInv, OpenDownload PROVE IInv'
    OBVIOUS
<1> USE DEF IInv
<1>1. /\ pc = "open" /\ pc' = "stream" /\ chain' = chain /\ db' = db /\ raced' = raced
      /\ polled' = polled /\ behind' = behind /\ reorgs' = reorgs /\ events' = events
      /\ why' = why /\ unchecked' = unchecked /\ forked' = forked /\ next' = next
      /\ since' = since /\ queue' = queue
      /\ cursor' = IF next > Tip(chain) THEN NoBlock
                                        ELSE [header |-> At(chain, next), offset |-> 0]
    BY DEF OpenDownload, counts
<1>2. queue = <<>> /\ next \in Nat /\ Tip(chain) \in Nat
    BY <1>1, ChainHeights DEF StreamIsClosed, Streaming, TypeOK
<1>3. ASSUME cursor' # NoBlock
      PROVE  cursor' \in [header : Blocks, offset : Nat] /\ Position' = next
    <2>1. cursor' = [header |-> At(chain, next), offset |-> 0] /\ next <= Tip(chain)
        BY <1>1, <1>2, <1>3
    <2>2. At(chain, next) \in Blocks /\ Height[At(chain, next)] = next
        BY <1>2, <2>1, ChainHeights DEF TypeOK
    <2> QED BY <1>2, <2>1, <2>2 DEF Position
<1>4. TypeOK'
    BY <1>1, <1>3 DEF TypeOK
<1>5. StreamIsClosed'
    BY <1>1 DEF StreamIsClosed, Streaming
<1>6. StreamIsInOrder'
    BY <1>1, <1>2, <1>3 DEF StreamIsInOrder
<1>7. ~ behind => RecordIsBelow'
    BY <1>1 DEF RecordIsBelow
<1> QED BY <1>1, <1>4, <1>5, <1>6, <1>7

(* The stream ends, and the cycle with it.                                 *)
LEMMA FetchRefusedHolds == IInv /\ FetchRefused => IInv'
<1> SUFFICES ASSUME IInv, FetchRefused PROVE IInv'
    OBVIOUS
<1> USE DEF IInv
<1>1. /\ pc' = "idle" /\ cursor' = NoBlock /\ queue' = <<>>
      /\ chain' = chain /\ db' = db /\ why' = why /\ unchecked' = unchecked
      /\ forked' = forked /\ next' = next /\ since' = since
      /\ raced' = raced /\ polled' = polled /\ behind' = behind /\ reorgs' = reorgs
      /\ events' = events
    BY DEF FetchRefused, counts
<1>2. TypeOK'
    BY <1>1, EmptyQueue DEF TypeOK
<1>3. StreamIsClosed' /\ StreamIsInOrder' /\ RecordIsBelow'
    BY <1>1, ClosedIsInOrder DEF RecordIsBelow
<1> QED BY <1>1, <1>2, <1>3

(* A poll steps back to a recorded block at most, or is marked as behind.  *)
LEMMA EndStreamHolds == IInv /\ EndStream => IInv'
<1> SUFFICES ASSUME IInv, EndStream PROVE IInv'
    OBVIOUS
<1> USE DEF IInv
<1>1. /\ pc = "stream" /\ cursor' = NoBlock /\ queue' = <<>>
      /\ chain' = chain /\ db' = db /\ since' = since /\ raced' = raced /\ reorgs' = reorgs
    BY DEF EndStream
<1>2. StreamIsClosed' /\ StreamIsInOrder'
    BY <1>1, ClosedIsInOrder
<1>3. CASE /\ pc' = "idle" /\ UNCHANGED <<why, unchecked, forked, next, polled, behind, events>>
    <2>1. TypeOK'
        BY <1>1, <1>3, EmptyQueue DEF TypeOK
    <2>2. RecordIsBelow'
        BY <1>3 DEF RecordIsBelow
    <2> QED BY <1>1, <1>2, <1>3, <2>1, <2>2
<1>4. CASE Event /\ wait_for_next_poll_cycle
    <2>1. /\ events' = events + 1 /\ next' = Monus(next, 1) /\ polled' = TRUE
          /\ behind' = (behind \/ \E b \in db.tips : Height[b] > Monus(next, 1))
          /\ \/ db.tips = {} /\ pc' = "open" /\ UNCHANGED <<why, unchecked, forked>>
             \/ pc' = "check" /\ why' = "poll" /\ unchecked' = db.tips /\ forked' = FALSE
        BY <1>4 DEF Event, wait_for_next_poll_cycle, BeginCheck
    <2>2. next' \in Nat /\ events' \in Nat /\ behind' \in BOOLEAN
        BY <2>1 DEF TypeOK, Monus
    <2>3. TypeOK'
        BY <1>1, <2>1, <2>2, EmptyQueue DEF TypeOK, Tables
    <2>4. ASSUME ~ behind' PROVE RecordIsBelow' /\ Spends(db')
        <3>1. ~ behind /\ \A b \in db.tips : ~ (Height[b] > next')
            BY <2>1, <2>4
        <3>2. \A b \in db.tips : Height[b] <= next'
            BY <2>2, <3>1, BlockConstants DEF TypeOK, Tables
        <3> QED BY <1>1, <2>1, <3>1, <3>2 DEF RecordIsBelow
    <2> QED BY <1>1, <1>2, <2>3, <2>4
<1> QED BY <1>3, <1>4 DEF EndStream

(* A failure drops the stream and keeps the tables.                        *)
LEMMA FailHolds == IInv /\ Fail => IInv'
<1> SUFFICES ASSUME IInv, Fail PROVE IInv'
    OBVIOUS
<1> USE DEF IInv
<1>1. /\ cursor' = NoBlock /\ queue' = <<>> /\ unchecked' = {} /\ forked' = FALSE
      /\ events' = events + 1 /\ chain' = chain /\ db' = db /\ why' = why /\ next' = next
      /\ since' = since /\ raced' = raced /\ polled' = polled /\ behind' = behind
      /\ reorgs' = reorgs /\ (pc' \in {"stopped", "idle"} \/ (pc' = "open" /\ pc = "open"))
    BY DEF Fail, Event
<1>2. TypeOK'
    <2>1. pc' \in {"stopped", "idle", "open"} /\ events' \in Nat
        BY <1>1 DEF TypeOK
    <2> QED BY <1>1, <2>1, EmptyQueue DEF TypeOK
<1>3. StreamIsClosed' /\ StreamIsInOrder'
    BY <1>1, ClosedIsInOrder
<1>4. ~ behind => RecordIsBelow'
    BY <1>1 DEF RecordIsBelow
<1> QED BY <1>1, <1>2, <1>3, <1>4

(* A restart finds the tables as they were committed.                      *)
LEMMA RestartHolds == IInv /\ Restart => IInv'
<1> SUFFICES ASSUME IInv, Restart PROVE IInv'
    OBVIOUS
<1> USE DEF IInv
<1>1. /\ pc = "stopped" /\ pc' = "idle" /\ cursor' = cursor /\ queue' = queue
      /\ chain' = chain /\ db' = db /\ why' = why /\ unchecked' = unchecked
      /\ forked' = forked /\ next' = next /\ since' = since
      /\ raced' = raced /\ polled' = polled /\ behind' = behind /\ reorgs' = reorgs
      /\ events' = events
    BY DEF Restart, counts, stream
<1>2. cursor' = NoBlock /\ queue' = <<>>
    BY <1>1 DEF StreamIsClosed, Streaming
<1>3. TypeOK'
    BY <1>1 DEF TypeOK
<1>4. StreamIsClosed' /\ StreamIsInOrder' /\ RecordIsBelow'
    BY <1>1, <1>2, ClosedIsInOrder DEF RecordIsBelow
<1> QED BY <1>1, <1>3, <1>4

(* A re-scan that is not cut short is a rollback to any height.            *)
LEMMA RescanHolds ==
    ASSUME NEW h \in RescanHeights PROVE IInv /\ Rescan(h) /\ ~ torn' => IInv'
<1> SUFFICES ASSUME IInv, Rescan(h), ~ torn' PROVE IInv'
    OBVIOUS
<1> USE DEF IInv
<1>1. /\ pc \in {"idle", "stopped"} /\ pc' = "idle" /\ cursor' = cursor /\ queue' = queue
      /\ chain' = chain /\ db' = rollback_from_height(db, h) /\ why' = why
      /\ unchecked' = unchecked
      /\ forked' = forked /\ next' = next /\ since' = since
      /\ raced' = raced /\ polled' = polled /\ behind' = behind /\ reorgs' = reorgs
      /\ events' = events + 1
    BY DEF Rescan, Event, stream
<1>2. cursor' = NoBlock /\ queue' = <<>>
    BY <1>1 DEF StreamIsClosed, Streaming
<1>3. Sound(db') /\ OnRecord(db') /\ (Spends(db) => Spends(db'))
    <2>1. h \in Nat
        BY ChainConstants
    <2> QED BY <1>1, <2>1, RollbackKeeps
<1>4. TypeOK'
    BY <1>1, <1>3 DEF TypeOK, Sound
<1>5. StreamIsClosed' /\ StreamIsInOrder' /\ RecordIsBelow'
    BY <1>1, <1>2, ClosedIsInOrder DEF RecordIsBelow
<1> QED BY <1>1, <1>3, <1>4, <1>5

(* What the node does, and a step that does nothing.                       *)
LEMMA NodeHolds ==
    ASSUME IInv, chain' \in Chains, raced' \in BOOLEAN, reorgs' \in Nat,
           UNCHANGED <<db, pc, why, unchecked, forked, next, since, cursor, queue, polled,
                       behind, events>>
    PROVE  IInv'
<1> USE DEF IInv
<1>1. TypeOK'
    BY DEF TypeOK
<1>2. StreamIsClosed'
    BY DEF StreamIsClosed, Streaming
<1>3. ~ behind => StreamIsInOrder' /\ RecordIsBelow'
    BY DEF StreamIsInOrder, RecordIsBelow, Position
<1> QED BY <1>1, <1>2, <1>3

(* A batch of blocks from the place of the request up to `to`.             *)
IsFetched(batch, to) ==
    /\ batch \in Seq(Blocks) /\ batch # <<>> /\ to \in Nat /\ Position <= to
    /\ queue' = Append(queue, batch)
    /\ Len(batch) = to + 1 - Position
    /\ \A i \in DOMAIN batch : /\ i \in Nat /\ i >= 1 /\ Position + i <= to + 1
                               /\ Height[batch[i]] \in Nat
                               /\ Height[batch[i]] + 1 = Position + i
                               /\ OnChain(chain, batch[i])
    /\ \/ cursor' = NoBlock
       \/ cursor' \in [header : Blocks, offset : Nat] /\ Position' = to + 1

(* The node answers with such a batch, or there is nothing above the tip.  *)
LEMMA BatchIsFetched ==
    IInv /\ FetchBatch =>
        \/ cursor' = NoBlock /\ queue' = queue
        \/ \E batch, to : IsFetched(batch, to)
<1> SUFFICES ASSUME IInv, FetchBatch
             PROVE  \/ cursor' = NoBlock /\ queue' = queue
                    \/ \E batch, to : IsFetched(batch, to)
    OBVIOUS
<1> USE DEF IInv
<1>1. cursor # NoBlock
    BY DEF FetchBatch
<1>2. PICK from : from = Position
    OBVIOUS
<1>3. /\ cursor \in [header : Blocks, offset : Nat] /\ from \in Nat /\ Tip(chain) \in Nat
      /\ next \in Nat /\ chain \in Chains /\ Height[cursor.header] \in Nat
    BY <1>1, <1>2, ChainHeights, BlockConstants DEF TypeOK, Position
<1>4. CASE from > Tip(chain)
    BY <1>2, <1>4 DEF FetchBatch, Position
<1>5. CASE ~ (from > Tip(chain))
    <2>1. PICK to \in from .. (from + MaxBatch - 1) :
             /\ to <= Tip(chain)
             /\ queue' = Append(queue, SubSeq(chain, from + 1, to + 1))
             /\ cursor' \in {NoBlock, [cursor EXCEPT !.offset = @ + (to + 1 - from)]} \cup
                            (IF to < Tip(chain) THEN {[header |-> At(chain, to + 1), offset |-> 0]}
                                                ELSE {})
        BY <1>2, <1>5 DEF FetchBatch, Position
    <2>2. to \in Nat /\ from <= to
        BY <1>3, <2>1, ChainConstants
    <2>3. cursor' = NoBlock \/ (cursor' \in [header : Blocks, offset : Nat] /\ Position' = to + 1)
        <3>1. CASE cursor' = [cursor EXCEPT !.offset = @ + (to + 1 - from)]
            <4>1. to + 1 - from \in Nat
                BY <1>3, <2>2
            <4>2. /\ cursor' \in [header : Blocks, offset : Nat]
                  /\ cursor'.header = cursor.header
                  /\ cursor'.offset = cursor.offset + (to + 1 - from)
                BY <1>3, <3>1, <4>1
            <4>3. Height[cursor.header] + (cursor.offset + (to + 1 - from)) = to + 1
                BY <1>2, <1>3, <2>2 DEF Position
            <4> QED BY <4>2, <4>3 DEF Position
        <3>2. CASE to < Tip(chain) /\ cursor' = [header |-> At(chain, to + 1), offset |-> 0]
            <4>1. to + 1 \in Nat /\ to + 1 <= Tip(chain)
                BY <1>3, <2>2, <3>2
            <4>2. At(chain, to + 1) \in Blocks /\ Height[At(chain, to + 1)] = to + 1
                BY <1>3, <4>1, ChainHeights
            <4> QED BY <2>2, <3>2, <4>2 DEF Position
        <3> QED BY <2>1, <3>1, <3>2
    <2>4. PICK batch : batch = SubSeq(chain, from + 1, to + 1)
        OBVIOUS
    <2>5. /\ batch \in Seq(Blocks) /\ batch # <<>> /\ Len(batch) = to + 1 - from
          /\ \A i \in DOMAIN batch : i \in Nat /\ Height[batch[i]] + 1 = from + i /\ i >= 1
                                     /\ from + i <= to + 1 /\ Height[batch[i]] \in Nat
                                     /\ OnChain(chain, batch[i])
        <3>1. /\ chain \in Seq(Blocks) /\ Len(chain) = Tip(chain) + 1
              /\ \A h \in Nat : h <= Tip(chain) =>
                    At(chain, h) \in Blocks /\ Height[At(chain, h)] = h
            BY <1>3, ChainHeights
        <3>2. /\ from + 1 \in 1 .. Len(chain) /\ to + 1 \in 1 .. Len(chain)
            BY <1>3, <2>1, <2>2, <3>1, SMTT(30)
        <3>3. /\ Len(batch) = to + 1 - from
              /\ \A i \in 1 .. Len(batch) : batch[i] = chain[from + i]
            BY <1>3, <2>2, <2>4, <3>1, <3>2
        <3>4. batch \in Seq(Blocks)
            BY <2>4, <3>1, <3>2
        <3>5. ASSUME NEW i \in DOMAIN batch
              PROVE  i \in Nat /\ Height[batch[i]] + 1 = from + i /\ i >= 1
                     /\ from + i <= to + 1 /\ Height[batch[i]] \in Nat
                     /\ OnChain(chain, batch[i])
            <4>1. i \in 1 .. (to + 1 - from) /\ i \in 1 .. Len(batch)
                BY <3>3, <3>4
            <4>2. PICK h \in Nat : h + 1 = from + i /\ h <= Tip(chain) /\ i \in Nat /\ i >= 1
                                   /\ from + i <= to + 1
                <5>1. from + i - 1 \in Nat /\ (from + i - 1) + 1 = from + i
                      /\ from + i - 1 <= Tip(chain) /\ i \in Nat /\ i >= 1 /\ from + i <= to + 1
                    <6>1. from \in Nat /\ to \in Nat /\ Tip(chain) \in Nat /\ to <= Tip(chain)
                        BY <1>3, <2>1, <2>2
                    <6>2. i \in Nat /\ i >= 1 /\ from + i <= to + 1
                        BY ONLY <4>1, <6>1
                    <6> QED BY ONLY <6>1, <6>2
                <5> QED BY <5>1
            <4>3. batch[i] = At(chain, h)
                BY <3>3, <4>1, <4>2 DEF At
            <4>4. Height[batch[i]] = h
                BY <3>1, <4>2, <4>3
            <4> QED BY <3>1, <4>2, <4>3, <4>4 DEF OnChain
        <3>6. batch # <<>>
            BY <1>3, <2>2, <3>3
        <3> QED BY <3>3, <3>4, <3>5, <3>6
    <2>6. IsFetched(batch, to)
        BY <1>2, <2>1, <2>2, <2>3, <2>4, <2>5 DEF IsFetched
    <2> QED BY <2>6
<1> QED BY <1>4, <1>5

(* A batch continues where the one before it ends.                         *)
LEMMA FetchBatchHolds == IInv /\ FetchBatch => IInv'
<1> SUFFICES ASSUME IInv, FetchBatch PROVE IInv'
    OBVIOUS
<1> USE DEF IInv
<1>1. /\ pc' = pc /\ chain' = chain /\ db' = db /\ why' = why /\ unchecked' = unchecked
      /\ forked' = forked /\ next' = next /\ since' = since
      /\ raced' = raced /\ polled' = polled /\ behind' = behind /\ reorgs' = reorgs
      /\ events' = events /\ cursor # NoBlock
    BY DEF FetchBatch, counts
<1>2. PICK from : from = Position
    OBVIOUS
<1>3. /\ cursor \in [header : Blocks, offset : Nat] /\ from \in Nat /\ Tip(chain) \in Nat
      /\ next \in Nat /\ chain \in Chains /\ Height[cursor.header] \in Nat
    BY <1>1, <1>2, ChainHeights, BlockConstants DEF TypeOK, Position
<1>4. Streaming
    BY <1>1 DEF StreamIsClosed
<1>5. StreamIsClosed'
    BY <1>1, <1>4 DEF StreamIsClosed, Streaming
<1>6. RecordIsBelow => RecordIsBelow'
    BY <1>1 DEF RecordIsBelow
<1>7. CASE cursor' = NoBlock /\ queue' = queue
    <2>2. TypeOK'
        BY <1>1, <1>7 DEF TypeOK
    <2>3. StreamIsInOrder => StreamIsInOrder'
        BY <1>1, <1>7 DEF StreamIsInOrder
    <2> QED BY <1>1, <1>5, <1>6, <2>2, <2>3
<1>8. CASE \E batch, to : IsFetched(batch, to)
    <2>1. PICK batch, to : IsFetched(batch, to)
        BY <1>8
    <2>2. to \in Nat /\ from <= to
        BY <1>2, <2>1 DEF IsFetched
    <2>3. cursor' = NoBlock \/ (cursor' \in [header : Blocks, offset : Nat] /\ Position' = to + 1)
        BY <2>1 DEF IsFetched
    <2>5. /\ batch \in Seq(Blocks) /\ batch # <<>> /\ queue' = Append(queue, batch)
          /\ \A i \in DOMAIN batch : i \in Nat /\ Height[batch[i]] + 1 = from + i /\ i >= 1
                                     /\ from + i <= to + 1 /\ Height[batch[i]] \in Nat
        BY <1>2, <2>1 DEF IsFetched
    <2>6. /\ queue \in Seq(Seq(Blocks) \ {<<>>}) /\ batch \in Seq(Blocks) \ {<<>>}
          /\ queue' = Append(queue, batch)
        BY <2>5 DEF TypeOK
    <2>7. /\ queue' \in Seq(Seq(Blocks) \ {<<>>})
          /\ DOMAIN queue' = 1 .. (Len(queue) + 1) /\ DOMAIN queue = 1 .. Len(queue)
          /\ \A k \in DOMAIN queue : queue'[k] = queue[k]
          /\ queue'[Len(queue) + 1] = batch /\ Len(queue) \in Nat
        BY <2>6
    <2>8. TypeOK'
        BY <1>1, <2>3, <2>7 DEF TypeOK
    <2>9. ASSUME StreamIsInOrder PROVE StreamIsInOrder'
        <3>1. next <= from
            BY <1>1, <1>2, <2>9 DEF StreamIsInOrder
        <3>2. \A k \in DOMAIN queue :
                 /\ Ascending(queue[k])
                 /\ \A i \in DOMAIN queue[k] :
                       /\ next <= Height[queue[k][i]] /\ Height[queue[k][i]] \in Nat
                       /\ Height[queue[k][i]] < from
                       /\ \A l \in DOMAIN queue : k < l =>
                             \A j \in DOMAIN queue[l] : Height[queue[k][i]] < Height[queue[l][j]]
            <4>1. \A k \in DOMAIN queue : \A i \in DOMAIN queue[k] :
                     queue[k][i] \in Blocks /\ Height[queue[k][i]] \in Nat
                BY BlockConstants DEF TypeOK
            <4> QED BY <1>1, <1>2, <2>9, <4>1 DEF StreamIsInOrder
        <3>3. Ascending(batch)
            <4> SUFFICES ASSUME NEW j \in DOMAIN batch, NEW k \in DOMAIN batch, j < k
                         PROVE  Height[batch[j]] < Height[batch[k]]
                BY DEF Ascending
            <4>1. /\ j \in Nat /\ Height[batch[j]] + 1 = from + j /\ Height[batch[j]] \in Nat
                  /\ k \in Nat /\ Height[batch[k]] + 1 = from + k /\ Height[batch[k]] \in Nat
                BY <2>5
            <4> QED BY <1>3, <4>1
        <3>4. \A i \in DOMAIN batch : from <= Height[batch[i]] /\ Height[batch[i]] < to + 1
            BY <1>3, <2>2, <2>5
        <3>5. ASSUME NEW k \in DOMAIN queue'
              PROVE  /\ Ascending(queue'[k])
                     /\ \A i \in DOMAIN queue'[k] :
                           /\ next' <= Height[queue'[k][i]]
                           /\ cursor' # NoBlock => Height[queue'[k][i]] < Position'
                           /\ \A l \in DOMAIN queue' : k < l =>
                                 \A j \in DOMAIN queue'[l] :
                                    Height[queue'[k][i]] < Height[queue'[l][j]]
            <4>1. CASE k = Len(queue) + 1
                <5>1. queue'[k] = batch /\ \A l \in DOMAIN queue' : ~ (k < l)
                    BY <2>7, <4>1
                <5>2. \A i \in DOMAIN batch : next <= Height[batch[i]]
                    BY <1>3, <2>5, <3>1, <3>4
                <5> QED BY <1>1, <2>3, <3>3, <3>4, <5>1, <5>2
            <4>2. CASE k # Len(queue) + 1
                <5>1. k \in DOMAIN queue /\ queue'[k] = queue[k]
                    BY <2>7, <4>2
                <5>2. ASSUME NEW i \in DOMAIN queue[k], NEW l \in DOMAIN queue', k < l,
                             NEW j \in DOMAIN queue'[l]
                      PROVE  Height[queue[k][i]] < Height[queue'[l][j]]
                    <6>1. CASE l = Len(queue) + 1
                        <7>1. j \in DOMAIN batch /\ queue'[l] = batch
                            BY <2>7, <5>2, <6>1
                        <7>2. from <= Height[batch[j]] /\ Height[batch[j]] \in Nat
                            BY <2>5, <3>4, <7>1
                        <7>3. Height[queue[k][i]] < from /\ Height[queue[k][i]] \in Nat
                            BY <3>2, <5>1
                        <7> QED BY <1>3, <7>1, <7>2, <7>3
                    <6>2. CASE l # Len(queue) + 1
                        <7>1. l \in DOMAIN queue /\ queue'[l] = queue[l]
                            BY <2>7, <6>2
                        <7> QED BY <3>2, <5>1, <5>2, <7>1
                    <6> QED BY <6>1, <6>2
                <5>3. \A i \in DOMAIN queue[k] :
                         next <= Height[queue[k][i]] /\ Height[queue[k][i]] < to + 1
                    BY <1>3, <2>2, <3>2, <5>1
                <5> QED BY <1>1, <2>3, <3>2, <5>1, <5>2, <5>3
            <4> QED BY <4>1, <4>2
        <3>6. cursor' # NoBlock => next' <= Position'
            BY <1>1, <1>3, <2>2, <2>3, <3>1
        <3> QED BY <3>5, <3>6 DEF StreamIsInOrder
    <2> QED BY <1>1, <1>5, <1>6, <2>8, <2>9
<1> QED BY <1>7, <1>8, BatchIsFetched

(* The blocks of a batch are above all that are on record.                 *)
LEMMA ProcessBatchHolds == IInv /\ ProcessBatch => IInv'
<1> SUFFICES ASSUME IInv, ProcessBatch PROVE IInv'
    OBVIOUS
<1> USE DEF IInv
<1>1. /\ pc = "stream" /\ queue # <<>> /\ chain' = chain
      /\ raced' = raced /\ polled' = polled /\ behind' = behind /\ reorgs' = reorgs
      /\ events' = events
    BY DEF ProcessBatch, counts
<1>2. PICK batch : batch = Head(queue)
    OBVIOUS
<1>3. PICK res : res = process_blocks(db, batch, next)
    OBVIOUS
<1>4. CASE ~ res.ok
    <2>1. /\ pc' = "stopped" /\ cursor' = NoBlock /\ queue' = <<>>
          /\ UNCHANGED <<db, next, since, why, unchecked, forked>>
        BY <1>2, <1>3, <1>4 DEF ProcessBatch
    <2>2. TypeOK'
        BY <1>1, <2>1, EmptyQueue DEF TypeOK
    <2>3. StreamIsClosed' /\ StreamIsInOrder' /\ RecordIsBelow'
        BY <2>1, ClosedIsInOrder DEF RecordIsBelow
    <2> QED BY <1>1, <2>1, <2>2, <2>3
<1>5. CASE res.ok
    <2>1. /\ db' = res.d /\ next' = Height[Last(batch)] + 1 /\ queue' = Tail(queue)
          /\ cursor' = cursor
          /\ \/ /\ since' = 0 /\ pc' = "check" /\ why' = "batch"
                /\ unchecked' = res.d.tips /\ forked' = FALSE
             \/ since' = since + Len(batch) /\ UNCHANGED <<pc, why, unchecked, forked>>
        BY <1>2, <1>3, <1>5 DEF ProcessBatch
    <2>2. queue \in Seq(Seq(Blocks) \ {<<>>}) /\ next \in Nat
        BY DEF TypeOK
    <2>3. /\ 1 \in DOMAIN queue /\ batch = queue[1] /\ batch \in Seq(Blocks) /\ batch # <<>>
          /\ queue' \in Seq(Seq(Blocks) \ {<<>>})
          /\ \A k \in DOMAIN queue' : /\ k + 1 \in DOMAIN queue /\ queue'[k] = queue[k + 1]
                                      /\ k \in Nat /\ 1 < k + 1
        BY <1>1, <1>2, <2>1, <2>2
    <2>4. PICK n \in Nat : n = Len(batch) /\ n >= 1
        BY <2>3
    <2>5. PICK top : top = batch[n]
        OBVIOUS
    <2>6. /\ DOMAIN batch = 1 .. n /\ n \in DOMAIN batch /\ 1 \in DOMAIN batch
          /\ \A i \in DOMAIN batch : batch[i] \in Blocks /\ Height[batch[i]] \in Nat
          /\ top \in Blocks /\ Height[top] \in Nat /\ next' = Height[top] + 1
        BY <2>1, <2>3, <2>4, <2>5, BlockConstants DEF Last
    <2>7. HasProcessedUpTo(db, batch, next, n, db')
        BY <1>3, <2>1, <2>2, <2>3, <2>4, BatchProcessed
    <2>8. Sound(db') /\ OnRecord(db')
        BY <2>7 DEF HasProcessedUpTo
    <2>9. TypeOK'
        <3>1. db' \in Tables /\ res.d.tips \subseteq Blocks
            BY <2>1, <2>8 DEF Sound, Tables
        <3>2. /\ pc' \in {"stream", "check"} /\ why' \in {"prepare", "batch", "poll"}
              /\ unchecked' \subseteq Blocks /\ forked' \in BOOLEAN /\ since' \in Nat
            <4>1. CASE /\ since' = 0 /\ pc' = "check" /\ why' = "batch"
                       /\ unchecked' = res.d.tips /\ forked' = FALSE
                BY <3>1, <4>1
            <4>2. CASE since' = since + Len(batch) /\ UNCHANGED <<pc, why, unchecked, forked>>
                BY <1>1, <2>4, <4>2 DEF TypeOK
            <4> QED BY <2>1, <4>1, <4>2
        <3>3. next' \in Nat
            BY <2>6
        <3> QED BY <1>1, <2>1, <2>3, <3>1, <3>2, <3>3 DEF TypeOK
    <2>10. StreamIsClosed'
        BY <1>1, <2>1 DEF StreamIsClosed, Streaming
    <2>11. ASSUME ~ behind PROVE StreamIsInOrder' /\ RecordIsBelow' /\ Spends(db')
        <3>1. /\ Ascending(batch)
              /\ \A i \in DOMAIN batch :
                    /\ next <= Height[batch[i]]
                    /\ cursor # NoBlock => Height[batch[i]] < Position
                    /\ \A l \in DOMAIN queue : 1 < l =>
                          \A j \in DOMAIN queue[l] : Height[batch[i]] < Height[queue[l][j]]
            BY <2>3, <2>11 DEF StreamIsInOrder
        <3>2. \A i \in DOMAIN batch : Height[batch[i]] <= Height[top]
            <4> SUFFICES ASSUME NEW i \in DOMAIN batch PROVE Height[batch[i]] <= Height[top]
                OBVIOUS
            <4>1. CASE i = n
                BY <2>5, <2>6, <4>1
            <4>2. CASE i # n
                <5>1. i < n
                    BY <2>4, <2>6, <4>2
                <5>2. Height[batch[i]] < Height[batch[n]]
                    BY <2>6, <3>1, <5>1 DEF Ascending
                <5> QED BY <2>5, <2>6, <5>2
            <4> QED BY <4>1, <4>2
        <3>3. \A t \in db.tips : Height[t] <= next /\ Height[t] \in Nat
            BY <1>1, <2>11, BlockConstants DEF RecordIsBelow, TypeOK, Tables
        <3>4. Spends(db')
            BY <2>7, <2>11, <3>1, <3>3 DEF HasProcessedUpTo
        <3>5. ASSUME NEW t \in db'.tips PROVE Height[t] < next' /\ Height[t] <= next'
            <4>1. next <= Height[top]
                BY <2>5, <2>6, <3>1
            <4>2. CASE t \in db.tips
                BY <2>2, <2>6, <3>3, <4>1, <4>2
            <4>3. CASE \E j \in 1 .. n : t = batch[j]
                BY <2>6, <3>2, <4>3
            <4> QED BY <2>7, <4>2, <4>3 DEF HasProcessedUpTo
        <3>6. RecordIsBelow'
            BY <1>1, <2>1, <3>5 DEF RecordIsBelow
        <3>7. ASSUME NEW k \in DOMAIN queue'
              PROVE  /\ Ascending(queue'[k])
                     /\ \A i \in DOMAIN queue'[k] :
                           /\ next' <= Height[queue'[k][i]]
                           /\ cursor' # NoBlock => Height[queue'[k][i]] < Position'
                           /\ \A l \in DOMAIN queue' : k < l =>
                                 \A j \in DOMAIN queue'[l] :
                                    Height[queue'[k][i]] < Height[queue'[l][j]]
            <4>1. k + 1 \in DOMAIN queue /\ queue'[k] = queue[k + 1] /\ 1 < k + 1 /\ k \in Nat
                BY <2>3
            <4>2. ASSUME NEW i \in DOMAIN queue[k + 1]
                  PROVE  next' <= Height[queue[k + 1][i]]
                <5>1. Height[top] < Height[queue[k + 1][i]]
                    BY <2>5, <2>6, <3>1, <4>1
                <5>2. queue[k + 1] \in Seq(Blocks)
                    BY <2>2, <4>1
                <5>3. Height[queue[k + 1][i]] \in Nat
                    BY <5>2, BlockConstants
                <5> QED BY <2>6, <5>1, <5>3
            <4>3. ASSUME NEW i \in DOMAIN queue[k + 1], NEW l \in DOMAIN queue', k < l,
                         NEW j \in DOMAIN queue'[l]
                  PROVE  Height[queue[k + 1][i]] < Height[queue'[l][j]]
                <5>1. l + 1 \in DOMAIN queue /\ queue'[l] = queue[l + 1] /\ k + 1 < l + 1
                    BY <2>3, <4>1, <4>3
                <5> QED BY <2>11, <4>1, <4>3, <5>1 DEF StreamIsInOrder
            <4>4. /\ Ascending(queue[k + 1])
                  /\ \A i \in DOMAIN queue[k + 1] :
                        cursor # NoBlock => Height[queue[k + 1][i]] < Position
                BY <2>11, <4>1 DEF StreamIsInOrder
            <4>5. Position' = Position
                BY <2>1 DEF Position
            <4> QED BY <2>1, <4>1, <4>2, <4>3, <4>4, <4>5
        <3>8. cursor' # NoBlock => next' <= Position'
            <4> SUFFICES ASSUME cursor # NoBlock PROVE next' <= Position
                BY <2>1 DEF Position
            <4>1. Position \in Nat /\ Height[top] < Position
                BY <2>5, <2>6, <3>1, BlockConstants DEF Position, TypeOK
            <4> QED BY <2>6, <4>1
        <3>9. StreamIsInOrder'
            BY <3>7, <3>8 DEF StreamIsInOrder
        <3> QED BY <3>4, <3>6, <3>9
    <2> QED BY <1>1, <2>8, <2>9, <2>10, <2>11
<1> QED BY <1>4, <1>5
-----------------------------------------------------------------------------
(* The theorems                                                            *)

(* What is torn stays torn.                                                *)
LEMMA TornForGood == [Next]_vars /\ ~ torn' => ~ torn
BY DEF Next, ScannerStep, StartCycle, CheckTip, Settle, OpenDownload, FetchBatch, FetchRefused,
       ProcessBatch, EndStream, Fail, Restart, Rescan, NodeExtends, NodeReorgs, vars, counts

(* Every step keeps the invariant.                                         *)
LEMMA StepHolds == IInv /\ [Next]_vars /\ ~ torn' => IInv'
<1> SUFFICES ASSUME IInv, [Next]_vars, ~ torn' PROVE IInv'
    OBVIOUS
<1>1. CASE ScannerStep
    BY <1>1, StartCycleHolds, CheckTipHolds, SettleHolds, OpenDownloadHolds, FetchBatchHolds,
       FetchRefusedHolds, ProcessBatchHolds, EndStreamHolds DEF ScannerStep
<1>2. CASE Fail \/ Restart
    BY <1>2, FailHolds, RestartHolds
<1>3. CASE \E h \in RescanHeights : Rescan(h)
    BY <1>3, RescanHolds
<1>4. CASE NodeExtends
    BY <1>4, NodeHolds DEF NodeExtends, stream, counts, IInv, TypeOK
<1>5. CASE NodeReorgs
    <2>1. raced' \in BOOLEAN /\ reorgs' \in Nat
        BY <1>5 DEF NodeReorgs, IInv, TypeOK
    <2> QED BY <1>5, <2>1, NodeHolds DEF NodeReorgs, stream
<1>6. CASE UNCHANGED vars
    BY <1>6, NodeHolds DEF vars, stream, counts, IInv, TypeOK
<1> QED BY <1>1, <1>2, <1>3, <1>4, <1>5, <1>6 DEF Next

(* The tables stay sound and the stream in order, through scans, reorgs,   *)
(* failures and re-scans in any order, until a re-scan is cut short.       *)
THEOREM Invariance == Spec => [](~ torn => IInv)
<1>1. (~ torn => IInv) /\ [Next]_vars => (~ torn => IInv)'
    BY StepHolds, TornForGood
<1> QED BY <1>1, InitHolds, PTL DEF Spec

(* Until then every variable of the scanner keeps its type.                *)
THEOREM TypeCorrect == Spec => [](~ torn => TypeOK)
<1>1. IInv => TypeOK
    BY DEF IInv
<1> QED BY <1>1, Invariance, PTL

(* A reversal undoes exactly one earlier change of its row, of the same    *)
(* amount, and a change is marked as reversed iff one reversal undoes it:  *)
(* soft_delete_*_from_height and insert_balance_change never leave a       *)
(* dangling or a doubled reversal, unless a re-scan is cut short.          *)
THEOREM PairedReversals == Spec => []ReversalsArePaired
<1>1. ASSUME ~ torn => IInv PROVE ReversalsArePaired
    <2> SUFFICES ASSUME IInv
                 PROVE  \A x \in db.changes :
                           /\ IsReversal(x) =>
                                 \E y \in db.changes : /\ y.row = x.row /\ y.n + 1 = x.of
                                                       /\ y.n < x.n /\ y.reversed
                                                       /\ y.credit = x.debit /\ y.debit = x.credit
                           /\ Cardinality({y \in db.changes : y.row = x.row /\ y.of = x.n + 1})
                              = IF x.reversed THEN 1 ELSE 0
        BY <1>1 DEF ReversalsArePaired
    <2>1. Ledger(db.changes)
        BY DEF IInv, Sound
    <2>2. ASSUME NEW x \in db.changes, IsReversal(x)
          PROVE  \E y \in db.changes : /\ y.row = x.row /\ y.n + 1 = x.of
                                       /\ y.n < x.n /\ y.reversed
                                       /\ y.credit = x.debit /\ y.debit = x.credit
        BY <2>1, <2>2 DEF Ledger, Undoes
    <2>3. ASSUME NEW x \in db.changes
          PROVE  Cardinality({y \in db.changes : y.row = x.row /\ y.of = x.n + 1})
                 = IF x.reversed THEN 1 ELSE 0
        <3>1. PICK undoing : undoing = {y \in db.changes : y.row = x.row /\ y.of = x.n + 1}
            OBVIOUS
        <3>2. \A y : y \in undoing <=> y \in db.changes /\ Undoes(y, x)
            BY <3>1 DEF Undoes
        <3>3. CASE x.reversed
            <4>1. PICK y \in db.changes : Undoes(y, x)
                BY <2>1, <3>3 DEF Ledger
            <4>2. undoing = {y}
                BY <2>1, <3>2, <4>1 DEF Ledger
            <4>3. Cardinality({y}) = 1
                BY FS_Singleton
            <4> QED BY <3>1, <3>3, <4>2, <4>3
        <3>4. CASE ~ x.reversed
            <4>1. ASSUME NEW y \in undoing PROVE FALSE
                <5>1. y \in db.changes /\ Undoes(y, x) /\ y \in ChangeRows /\ x \in ChangeRows
                    BY <2>1, <3>2 DEF Ledger
                <5>2. y.of # 0
                    BY <5>1 DEF Undoes, ChangeRows
                <5>3. PICK z \in db.changes : Undoes(y, z) /\ z.reversed
                    BY <2>1, <5>1, <5>2 DEF Ledger, IsReversal
                <5>4. z.row = x.row /\ z.n = x.n
                    BY <2>1, <5>1, <5>3 DEF Undoes, Ledger, ChangeRows
                <5>5. z = x
                    BY <2>1, <5>4 DEF Ledger
                <5> QED BY <3>4, <5>3, <5>5
            <4>2. undoing = {}
                BY <4>1
            <4>3. Cardinality({}) = 0
                BY FS_EmptySet
            <4> QED BY <3>1, <3>4, <4>2, <4>3
        <3> QED BY <3>3, <3>4
    <2> QED BY <2>2, <2>3
<1> QED BY <1>1, Invariance, PTL

(* The credit side of the ledger follows the outputs table: an active      *)
(* output has exactly one credit that counts, a soft deleted one none,     *)
(* after any sequence of scans, reorgs, failures, polls and re-scans that  *)
(* ran to their end.                                                       *)
THEOREM Credits == Spec => []CreditsMatchRows
<1>1. ASSUME ~ torn => IInv PROVE CreditsMatchRows
    <2> SUFFICES ASSUME IInv, NEW r \in db.outputs
                 PROVE  Cardinality(Live(OutputId(r))) = IF r.deleted THEN 0 ELSE 1
        BY <1>1 DEF CreditsMatchRows
    <2>1. Credited(db)
        BY DEF IInv, Sound
    <2>2. PICK live : live = Live(OutputId(r))
        OBVIOUS
    <2>3. \A x : x \in live <=> x \in db.changes /\ x.row = OutputId(r) /\ Counts(x)
        BY <2>2 DEF Live, Counts
    <2>4. CASE r.deleted
        <3>1. live = {}
            BY <2>1, <2>3, <2>4 DEF Credited
        <3>2. Cardinality({}) = 0
            BY FS_EmptySet
        <3> QED BY <2>2, <2>4, <3>1, <3>2
    <2>5. CASE ~ r.deleted
        <3>1. PICK x \in db.changes :
                 /\ x.row = OutputId(r) /\ Counts(x)
                 /\ \A y \in db.changes : y.row = OutputId(r) /\ Counts(y) => y = x
            BY <2>1, <2>5 DEF Credited
        <3>2. live = {x}
            BY <2>3, <3>1
        <3>3. Cardinality({x}) = 1
            BY FS_Singleton
        <3> QED BY <2>2, <2>5, <3>2, <3>3
    <2> QED BY <2>4, <2>5
<1> QED BY <1>1, Invariance, PTL

(* As long as no poll has stepped back below a recorded block, an active   *)
(* input spends an active output marked SPENT and mined no later: the two  *)
(* soft deletes of rollback_from_height never split the pair, at whatever  *)
(* height a reorg or a re-scan starts, if no re-scan was cut short.        *)
THEOREM InputsSpend == Spec => [](~ torn => InputsSpendActiveRows)
<1>1. IInv => InputsSpendActiveRows
    BY DEF IInv, Spends, InputsSpendActiveRows
<1> QED BY <1>1, Invariance, PTL
-----------------------------------------------------------------------------
(* Without a reorg in the middle of a cycle, and without a poll            *)

Contiguous(d) ==
    \A b \in d.tips : Height[b] > Birthday => \E u \in d.tips : Height[u] + 1 = Height[b]

(* The recorded blocks are all of one chain, if no longer the best one.    *)
OfOneChain(d) == \E c \in Chains : \A b \in d.tips : OnChain(c, b)

(* The scanner follows the best chain: it has passed the reorg check.      *)
Following == pc \in {"open", "stream"} \/ (pc \in {"check", "settle"} /\ why = "batch")

OnBestChain ==
    /\ \A b \in db.tips : OnChain(chain, b)
    /\ \A k \in DOMAIN queue : \A i \in DOMAIN queue[k] : OnChain(chain, queue[k][i])
    /\ pc \in {"check", "settle"} => ~ forked

(* All blocks below the next one are on record.                            *)
Reached(d, h) == h <= Birthday \/ \E u \in d.tips : Height[u] + 1 = h

(* The batches and the request continue each other.                        *)
Runs(batch)  == \A i \in DOMAIN batch : Height[batch[i]] + 1 = Height[batch[1]] + i
After(batch) == Height[batch[Len(batch)]] + 1

StreamIsGapless ==
    /\ \A k \in DOMAIN queue : Runs(queue[k])
    /\ queue # <<>> => Height[queue[1][1]] = next
    /\ \A k \in DOMAIN queue :
          k + 1 \in DOMAIN queue => Height[queue[k + 1][1]] = After(queue[k])
    /\ cursor # NoBlock => Position = IF queue = <<>> THEN next ELSE After(queue[Len(queue)])

(* The check has found the highest recorded block of the best chain, or    *)
(* that there is none.                                                     *)
ForkIsFound ==
    \/ next = 0 /\ forked
    \/ \E b \in db.tips : /\ Height[b] + 1 = next /\ OnChain(chain, b)
                          /\ ~ forked => \A u \in db.tips : Height[u] <= Height[b]

QuietInv ==
    Quiet =>
      /\ ~ behind
      /\ pc \in {"check", "settle"} => why # "poll"
      /\ OfOneChain(db) /\ Contiguous(db)
      /\ Following => OnBestChain /\ Reached(db, next) /\ StreamIsGapless
      /\ pc = "settle" /\ why = "prepare" => ForkIsFound

(* A block stays on a chain that grows ...                                 *)
LEMMA OnLongerChain ==
    ASSUME NEW c \in Chains, NEW e \in Chains, Len(e) > Len(c), SubSeq(e, 1, Len(c)) = c,
           NEW b \in Blocks, OnChain(c, b)
    PROVE  OnChain(e, b)
<1>1. /\ c \in Seq(Blocks) /\ e \in Seq(Blocks) /\ Len(c) \in Nat /\ Len(e) \in Nat
      /\ Height[b] \in Nat
    BY ChainConstants, BlockConstants
<1>2. Height[b] <= Len(c) - 1 /\ c[Height[b] + 1] = b
    BY DEF OnChain, Tip, At
<1>3. \A i \in 1 .. Len(c) : SubSeq(e, 1, Len(c))[i] = e[i]
    BY <1>1
<1>4. Height[b] + 1 \in 1 .. Len(c) /\ Height[b] <= Len(e) - 1
    BY <1>1, <1>2
<1> QED BY <1>2, <1>3, <1>4 DEF OnChain, Tip, At

(* ... and below a block that two chains share they share all.             *)
LEMMA SharedBelow ==
    ASSUME NEW c \in Chains, NEW e \in Chains, NEW b \in Blocks, NEW u \in Blocks,
           OnChain(c, b), OnChain(e, b), OnChain(c, u), Height[u] <= Height[b]
    PROVE  OnChain(e, u)
<1>1. /\ c \in Seq(Blocks) /\ e \in Seq(Blocks) /\ Len(c) \in Nat /\ Len(e) \in Nat
      /\ Height[b] \in Nat /\ Height[u] \in Nat
    BY ChainConstants, BlockConstants
<1>2. /\ Height[b] <= Len(c) - 1 /\ c[Height[b] + 1] = b
      /\ Height[b] <= Len(e) - 1 /\ e[Height[b] + 1] = b
      /\ Height[u] <= Len(c) - 1 /\ c[Height[u] + 1] = u
    BY DEF OnChain, Tip, At
<1>3. /\ Height[b] + 1 \in DOMAIN c /\ Height[b] + 1 \in DOMAIN e
      /\ Height[u] + 1 \in 1 .. (Height[b] + 1)
    <2>1. Height[b] + 1 \in 1 .. Len(c) /\ Height[b] + 1 \in 1 .. Len(e)
        BY <1>1, <1>2
    <2>2. Height[u] + 1 \in 1 .. (Height[b] + 1)
        BY <1>1
    <2> QED BY <1>1, <2>1, <2>2
<1>4. c[Height[u] + 1] = e[Height[u] + 1]
    BY <1>2, <1>3, SharedHistory
<1>5. Height[u] <= Len(e) - 1
    BY <1>1, <1>2
<1> QED BY <1>2, <1>4, <1>5 DEF OnChain, Tip, At

(* A rollback leaves the lower part of the record.                         *)
LEMMA RollbackIsContiguous ==
    ASSUME NEW d, Sound(d), NEW g, NEW h \in Nat, g.tips = {b \in d.tips : Height[b] < h},
           OfOneChain(d), Contiguous(d)
    PROVE  OfOneChain(g) /\ Contiguous(g)
<1>1. OfOneChain(g)
    BY DEF OfOneChain
<1>2. ASSUME NEW b \in g.tips, Height[b] > Birthday
      PROVE  \E u \in g.tips : Height[u] + 1 = Height[b]
    <2>1. PICK u \in d.tips : Height[u] + 1 = Height[b]
        BY <1>2 DEF Contiguous
    <2>2. Height[u] \in Nat /\ Height[b] \in Nat /\ Height[b] < h
        BY BlockConstants DEF Sound, Tables
    <2> QED BY <2>1, <2>2
<1> QED BY <1>1, <1>2 DEF Contiguous

(* An unread stream has no gap.                                            *)
LEMMA ClosedIsGapless == cursor' = NoBlock /\ queue' = <<>> => StreamIsGapless'
BY DEF StreamIsGapless

(* Nothing has happened yet.                                               *)
LEMMA QuietInit == Init => QuietInv
<1> SUFFICES ASSUME Init PROVE QuietInv
    OBVIOUS
<1>1. db.tips = {} /\ pc = "idle" /\ ~ behind /\ chain \in Chains
    BY DEF Init, Empty
<1> QED BY <1>1 DEF QuietInv, OfOneChain, Contiguous, Following

(* Between two batches the check finds nothing; before a cycle it finds    *)
(* the highest block of the best chain.                                    *)
LEMMA QuietCheckTip == IInv /\ QuietInv /\ CheckTip => QuietInv'
<1> SUFFICES ASSUME IInv, QuietInv, CheckTip, Quiet' PROVE QuietInv'
    BY DEF QuietInv
<1>1. PICK b \in unchecked :
         /\ \A u \in unchecked : Height[u] <= Height[b]
         /\ \/ /\ OnChain(chain, b) /\ pc' = "settle"
               /\ next' = IF forked \/ why = "prepare" THEN Height[b] + 1 ELSE next
               /\ UNCHANGED <<unchecked, forked>>
            \/ /\ ~ OnChain(chain, b) /\ forked' = TRUE
               /\ unchecked' = unchecked \ {b}
               /\ \/ unchecked = {b} /\ pc' = "settle" /\ next' = 0
                  \/ UNCHANGED <<pc, next>>
    BY DEF CheckTip
<1>2. /\ pc = "check" /\ chain' = chain /\ db' = db /\ why' = why
      /\ cursor' = cursor /\ queue' = queue /\ raced' = raced /\ polled' = polled
      /\ behind' = behind
    BY DEF CheckTip, stream, counts
<1>3. /\ ~ behind /\ why # "poll" /\ OfOneChain(db) /\ Contiguous(db)
      /\ Following => OnBestChain /\ Reached(db, next) /\ StreamIsGapless
    BY <1>2 DEF QuietInv, Quiet
<1>4. /\ unchecked \subseteq db.tips /\ (~ forked => unchecked = db.tips)
      /\ why \in {"prepare", "batch", "poll"}
    BY <1>2, <1>3 DEF IInv, RecordIsBelow, TypeOK
<1>5. CASE why = "batch"
    <2>1. OnBestChain /\ Reached(db, next) /\ StreamIsGapless /\ ~ forked
        BY <1>2, <1>3, <1>5 DEF Following, OnBestChain
    <2>2. OnChain(chain, b)
        BY <1>4, <2>1 DEF OnBestChain
    <2>3. pc' = "settle" /\ next' = next /\ forked' = forked
        BY <1>1, <1>5, <2>1, <2>2
    <2>4. OnBestChain' /\ StreamIsGapless'
        BY <1>2, <2>1, <2>3 DEF OnBestChain, StreamIsGapless, Position
    <2>5. Reached(db', next')
        BY <1>2, <2>1, <2>3
    <2> QED BY <1>2, <1>3, <1>5, <2>4, <2>5 DEF QuietInv
<1>6. CASE why = "prepare"
    <2>1. pc' \in {"check", "settle"}
        BY <1>1, <1>2
    <2>2. ~ Following'
        BY <1>2, <1>6, <2>1 DEF Following
    <2>3. pc' = "settle" => ForkIsFound'
        <3>1. CASE OnChain(chain, b)
            <4>1. next' = Height[b] + 1 /\ forked' = forked
                BY <1>1, <1>6, <3>1
            <4>2. ~ forked => \A u \in db.tips : Height[u] <= Height[b]
                BY <1>1, <1>4
            <4>3. OnChain(chain', b) /\ b \in db'.tips /\ Height[b] + 1 = next'
                BY <1>2, <1>4, <3>1, <4>1
            <4> QED BY <1>2, <4>1, <4>2, <4>3 DEF ForkIsFound
        <3>2. CASE ~ OnChain(chain, b)
            BY <1>1, <1>2, <3>2 DEF ForkIsFound
        <3> QED BY <3>1, <3>2
    <2> QED BY <1>2, <1>3, <1>6, <2>2, <2>3 DEF QuietInv
<1> QED BY <1>3, <1>4, <1>5, <1>6

(* The rollback ends on a block of the best chain.                         *)
LEMMA QuietSettle == IInv /\ QuietInv /\ Settle => QuietInv'
<1> SUFFICES ASSUME IInv, QuietInv, Settle, Quiet' PROVE QuietInv'
    BY DEF QuietInv
<1>1. /\ pc = "settle" /\ forked' = FALSE
      /\ db' = IF forked THEN rollback_from_height(db, next) ELSE db
      /\ next' = IF why = "prepare" /\ next = 0 THEN Birthday ELSE next
      /\ chain' = chain /\ why' = why /\ raced' = raced /\ polled' = polled
      /\ behind' = behind
    BY DEF Settle, counts
<1>2. \/ why = "batch" /\ pc' = "stream" /\ cursor' = cursor /\ queue' = queue
      \/ why # "batch" /\ pc' = "open" /\ cursor' = NoBlock /\ queue' = <<>>
    BY DEF Settle, OpenStream, stream
<1>3. /\ ~ behind /\ why # "poll" /\ OfOneChain(db) /\ Contiguous(db)
      /\ Following => OnBestChain /\ Reached(db, next) /\ StreamIsGapless
      /\ why = "prepare" => ForkIsFound
    BY <1>1 DEF QuietInv, Quiet
<1>4. /\ why \in {"prepare", "batch", "poll"} /\ next \in Nat /\ Sound(db) /\ OnRecord(db)
      /\ chain \in Chains
      /\ \A t \in db.tips : t \in Blocks /\ Height[t] \in Nat
    BY BlockConstants DEF IInv, TypeOK, Tables
<1>5. CASE why = "batch"
    <2>1. OnBestChain /\ Reached(db, next) /\ StreamIsGapless /\ ~ forked
        BY <1>1, <1>3, <1>5 DEF Following, OnBestChain
    <2>2. db' = db /\ next' = next
        BY <1>1, <1>5, <2>1
    <2>3. pc' = "stream" /\ cursor' = cursor /\ queue' = queue
        BY <1>2, <1>5
    <2>4. OnBestChain' /\ StreamIsGapless'
        BY <1>1, <2>1, <2>2, <2>3 DEF OnBestChain, StreamIsGapless, Position
    <2>5. Reached(db', next') /\ OfOneChain(db') /\ Contiguous(db')
        BY <1>3, <2>1, <2>2
    <2> QED BY <1>1, <1>3, <2>3, <2>4, <2>5 DEF QuietInv
<1>6. CASE why = "prepare"
    <2>1. pc' = "open" /\ cursor' = NoBlock /\ queue' = <<>>
        BY <1>2, <1>6
    <2>2. StreamIsGapless'
        BY <2>1, ClosedIsGapless
    <2>3. db'.tips = IF forked THEN {t \in db.tips : Height[t] < next} ELSE db.tips
        <3>1. PICK g : g = rollback_from_height(db, next)
            OBVIOUS
        <3>2. g.tips = {t \in db.tips : Height[t] < next}
            BY <1>4, <3>1, RollbackKeeps
        <3> QED BY <1>1, <3>1, <3>2
    <2>4. OfOneChain(db') /\ Contiguous(db')
        <3>1. CASE forked
            <4>1. PICK g : g = db'
                OBVIOUS
            <4>2. g.tips = {t \in db.tips : Height[t] < next}
                BY <2>3, <3>1, <4>1
            <4>3. OfOneChain(g) /\ Contiguous(g)
                BY <1>3, <1>4, <4>2, RollbackIsContiguous
            <4> QED BY <4>1, <4>3
        <3>2. CASE ~ forked
            BY <1>1, <1>3, <3>2
        <3> QED BY <3>1, <3>2
    <2>5. CASE next = 0 /\ forked
        <3>1. db'.tips = {}
            BY <1>4, <2>3, <2>5
        <3>2. next' = Birthday
            BY <1>1, <1>6, <2>5
        <3>3. OnBestChain' /\ Reached(db', next')
            BY <2>1, <3>1, <3>2, ChainConstants DEF OnBestChain, Reached
        <3> QED BY <1>1, <1>3, <2>1, <2>2, <2>4, <3>3 DEF QuietInv
    <2>6. CASE ~ (next = 0 /\ forked)
        <3>1. PICK b \in db.tips : /\ Height[b] + 1 = next /\ OnChain(chain, b)
                                   /\ ~ forked => \A u \in db.tips : Height[u] <= Height[b]
            BY <1>3, <1>6, <2>6 DEF ForkIsFound
        <3>2. next' = next /\ b \in db'.tips
            BY <1>1, <1>4, <2>3, <3>1
        <3>3. Reached(db', next')
            BY <3>1, <3>2 DEF Reached
        <3>4. ASSUME NEW u \in db'.tips PROVE OnChain(chain', u)
            <4>1. u \in db.tips /\ Height[u] <= Height[b]
                <5>1. CASE forked
                    BY <1>4, <2>3, <3>1, <5>1
                <5>2. CASE ~ forked
                    BY <2>3, <3>1, <5>2
                <5> QED BY <5>1, <5>2
            <4>2. PICK c \in Chains : \A t \in db.tips : OnChain(c, t)
                BY <1>3 DEF OfOneChain
            <4>3. OnChain(chain, u)
                BY <1>4, <3>1, <4>1, <4>2, SharedBelow
            <4> QED BY <1>1, <4>3
        <3>5. OnBestChain'
            BY <2>1, <3>4 DEF OnBestChain
        <3> QED BY <1>1, <1>3, <2>1, <2>2, <2>4, <3>3, <3>5 DEF QuietInv
    <2> QED BY <2>5, <2>6
<1> QED BY <1>3, <1>4, <1>5, <1>6

(* With nothing on record a cycle starts at the birthday.                  *)
LEMMA QuietStartCycle == IInv /\ QuietInv /\ StartCycle => QuietInv'
<1> SUFFICES ASSUME IInv, QuietInv, StartCycle, Quiet' PROVE QuietInv'
    BY DEF QuietInv
<1>1. /\ pc = "idle" /\ chain' = chain /\ db' = db /\ raced' = raced /\ polled' = polled
      /\ behind' = behind
    BY DEF StartCycle, counts
<1>2. ~ behind /\ OfOneChain(db') /\ Contiguous(db')
    BY <1>1 DEF QuietInv, Quiet
<1>3. CASE db.tips = {}
    <2>1. pc' = "open" /\ cursor' = NoBlock /\ queue' = <<>> /\ next' = Birthday
        BY <1>3 DEF StartCycle, OpenStream
    <2>2. OnBestChain' /\ StreamIsGapless' /\ Reached(db', next')
        BY <1>1, <1>3, <2>1, ClosedIsGapless, ChainConstants DEF OnBestChain, Reached
    <2> QED BY <1>1, <1>2, <2>1, <2>2 DEF QuietInv
<1>4. CASE db.tips # {}
    <2>1. pc' = "check" /\ why' = "prepare"
        BY <1>4 DEF StartCycle, BeginCheck
    <2> QED BY <1>1, <1>2, <2>1 DEF QuietInv, Following
<1> QED BY <1>3, <1>4

(* The first request is for the next block.                                *)
LEMMA QuietOpenDownload == IInv /\ QuietInv /\ OpenDownload => QuietInv'
<1> SUFFICES ASSUME IInv, QuietInv, OpenDownload, Quiet' PROVE QuietInv'
    BY DEF QuietInv
<1>1. /\ pc = "open" /\ pc' = "stream" /\ chain' = chain /\ db' = db /\ raced' = raced
      /\ polled' = polled /\ behind' = behind /\ next' = next /\ queue' = queue
      /\ cursor' = IF next > Tip(chain) THEN NoBlock
                                        ELSE [header |-> At(chain, next), offset |-> 0]
    BY DEF OpenDownload, counts
<1>2. queue = <<>> /\ next \in Nat /\ Tip(chain) \in Nat /\ chain \in Chains
    BY <1>1, ChainHeights DEF IInv, StreamIsClosed, Streaming, TypeOK
<1>3. /\ ~ behind /\ OfOneChain(db') /\ Contiguous(db')
      /\ OnBestChain /\ Reached(db', next')
    BY <1>1 DEF QuietInv, Quiet, Following
<1>4. cursor' # NoBlock => Position' = next
    <2> SUFFICES ASSUME cursor' # NoBlock PROVE Position' = next
        OBVIOUS
    <2>1. cursor' = [header |-> At(chain, next), offset |-> 0] /\ next <= Tip(chain)
        BY <1>1, <1>2
    <2>2. Height[At(chain, next)] = next
        BY <1>2, <2>1, ChainHeights
    <2> QED BY <1>2, <2>1, <2>2 DEF Position
<1>5. StreamIsGapless'
    BY <1>1, <1>2, <1>4 DEF StreamIsGapless
<1>6. OnBestChain'
    BY <1>1, <1>3 DEF OnBestChain
<1> QED BY <1>1, <1>3, <1>5, <1>6 DEF QuietInv

(* The cycle is over, or was not running: only the record counts.          *)
LEMMA QuietAtRest ==
    ASSUME QuietInv, Quiet, Quiet', pc' \in {"idle", "stopped"}, behind' = behind, db' = db
    PROVE  QuietInv'
BY DEF QuietInv, Following

(* A failed request, or the death of the process, loses the stream only.   *)
LEMMA QuietFail == IInv /\ QuietInv /\ Fail => QuietInv'
<1> SUFFICES ASSUME IInv, QuietInv, Fail, Quiet' PROVE QuietInv'
    BY DEF QuietInv
<1>1. /\ cursor' = NoBlock /\ queue' = <<>> /\ forked' = FALSE
      /\ chain' = chain /\ db' = db /\ next' = next
      /\ raced' = raced /\ polled' = polled /\ behind' = behind
      /\ (pc' \in {"stopped", "idle"} \/ (pc' = "open" /\ pc = "open"))
    BY DEF Fail
<1>2. Quiet
    BY <1>1 DEF Quiet
<1>3. CASE pc' \in {"stopped", "idle"}
    BY <1>1, <1>2, <1>3, QuietAtRest
<1>4. CASE pc' = "open" /\ pc = "open"
    <2>1. /\ ~ behind /\ OfOneChain(db') /\ Contiguous(db')
          /\ OnBestChain /\ Reached(db', next')
        BY <1>1, <1>2, <1>4 DEF QuietInv, Following
    <2>2. StreamIsGapless'
        BY <1>1, ClosedIsGapless
    <2>3. OnBestChain'
        BY <1>1, <1>4, <2>1 DEF OnBestChain
    <2> QED BY <1>1, <1>4, <2>1, <2>2, <2>3 DEF QuietInv
<1> QED BY <1>1, <1>3, <1>4

(* The re-scan command removes the upper part of the record.               *)
LEMMA QuietRescan ==
    ASSUME NEW h \in RescanHeights
    PROVE  IInv /\ QuietInv /\ Rescan(h) /\ ~ torn' => QuietInv'
<1> SUFFICES ASSUME IInv, QuietInv, Rescan(h), ~ torn', Quiet' PROVE QuietInv'
    BY DEF QuietInv
<1>1. /\ pc' = "idle" /\ db' = rollback_from_height(db, h)
      /\ raced' = raced /\ polled' = polled /\ behind' = behind
    BY DEF Rescan
<1>2. ~ behind /\ OfOneChain(db) /\ Contiguous(db)
    BY <1>1 DEF QuietInv, Quiet
<1>3. PICK g : g = rollback_from_height(db, h)
    OBVIOUS
<1>4. Sound(db) /\ OnRecord(db) /\ h \in Nat
    BY ChainConstants DEF IInv
<1>5. g.tips = {b \in db.tips : Height[b] < h}
    BY <1>3, <1>4, RollbackKeeps
<1>6. OfOneChain(g) /\ Contiguous(g)
    BY <1>2, <1>4, <1>5, RollbackIsContiguous
<1> QED BY <1>1, <1>2, <1>3, <1>6 DEF QuietInv, Following

(* The chain only grows in the middle of a cycle.                          *)
LEMMA QuietNodeExtends == IInv /\ QuietInv /\ NodeExtends => QuietInv'
<1> SUFFICES ASSUME IInv, QuietInv, NodeExtends, Quiet' PROVE QuietInv'
    BY DEF QuietInv
<1>1. /\ chain' \in Chains /\ Len(chain') > Len(chain) /\ SubSeq(chain', 1, Len(chain)) = chain
      /\ db' = db /\ pc' = pc /\ why' = why /\ forked' = forked /\ next' = next
      /\ cursor' = cursor /\ queue' = queue
      /\ raced' = raced /\ polled' = polled /\ behind' = behind
    BY DEF NodeExtends, stream, counts
<1>2. /\ ~ behind /\ (pc \in {"check", "settle"} => why # "poll")
      /\ OfOneChain(db) /\ Contiguous(db)
      /\ Following => OnBestChain /\ Reached(db, next) /\ StreamIsGapless
      /\ pc = "settle" /\ why = "prepare" => ForkIsFound
    BY <1>1 DEF QuietInv, Quiet
<1>3. \A b \in Blocks : OnChain(chain, b) => OnChain(chain', b)
    BY <1>1, OnLongerChain DEF IInv, TypeOK
<1>4. /\ \A b \in db.tips : b \in Blocks
      /\ \A k \in DOMAIN queue : \A i \in DOMAIN queue[k] : queue[k][i] \in Blocks
    BY DEF IInv, TypeOK, Tables
<1>5. OnBestChain => OnBestChain'
    BY <1>1, <1>3, <1>4 DEF OnBestChain
<1>6. StreamIsGapless => StreamIsGapless'
    BY <1>1 DEF StreamIsGapless, Position
<1>7. ForkIsFound => ForkIsFound'
    BY <1>1, <1>3, <1>4 DEF ForkIsFound
<1>8. (Following' <=> Following) /\ (Reached(db, next) => Reached(db', next'))
      /\ OfOneChain(db') /\ Contiguous(db')
    BY <1>1, <1>2 DEF Following
<1> QED BY <1>1, <1>2, <1>5, <1>6, <1>7, <1>8 DEF QuietInv

(* A batch of blocks of the best chain, without a gap before it.           *)
LEMMA QuietFetchBatch == IInv /\ QuietInv /\ FetchBatch => QuietInv'
<1> SUFFICES ASSUME IInv, QuietInv, FetchBatch, Quiet' PROVE QuietInv'
    BY DEF QuietInv
<1>1. /\ pc' = pc /\ chain' = chain /\ db' = db /\ why' = why
      /\ forked' = forked /\ next' = next
      /\ raced' = raced /\ polled' = polled /\ behind' = behind /\ cursor # NoBlock
    BY DEF FetchBatch, counts
<1>2. PICK from : from = Position
    OBVIOUS
<1>3. /\ cursor \in [header : Blocks, offset : Nat] /\ from \in Nat /\ Tip(chain) \in Nat
      /\ next \in Nat /\ chain \in Chains /\ Height[cursor.header] \in Nat
      /\ queue \in Seq(Seq(Blocks) \ {<<>>})
    BY <1>1, <1>2, ChainHeights, BlockConstants DEF IInv, TypeOK, Position
<1>4. Streaming /\ Following
    BY <1>1 DEF IInv, StreamIsClosed, Streaming, Following
<1>5. /\ ~ behind /\ (pc \in {"check", "settle"} => why # "poll")
      /\ OfOneChain(db) /\ Contiguous(db)
      /\ OnBestChain /\ Reached(db, next) /\ StreamIsGapless
      /\ pc = "settle" /\ why = "prepare" => ForkIsFound
    BY <1>1, <1>4 DEF QuietInv, Quiet
<1>6. SUFFICES OnBestChain' /\ StreamIsGapless'
    BY <1>1, <1>4, <1>5 DEF QuietInv, Following, ForkIsFound
<1>7. CASE cursor' = NoBlock /\ queue' = queue
    BY <1>1, <1>5, <1>7 DEF OnBestChain, StreamIsGapless
<1>8. CASE \E batch, to : IsFetched(batch, to)
    <2>1. PICK batch, to : IsFetched(batch, to)
        BY <1>8
    <2>2. to \in Nat /\ from <= to
        BY <1>2, <2>1 DEF IsFetched
    <2>3. cursor' = NoBlock \/ Position' = to + 1
        BY <2>1 DEF IsFetched
    <2>4. batch \in Seq(Blocks) /\ batch # <<>> /\ queue' = Append(queue, batch)
        BY <2>1 DEF IsFetched
    <2>5. PICK n \in Nat : n = to + 1 - from /\ n >= 1
        BY <1>3, <2>2
    <2>6. /\ DOMAIN batch = 1 .. n /\ Len(batch) = n
          /\ \A i \in 1 .. n : /\ Height[batch[i]] \in Nat /\ Height[batch[i]] + 1 = from + i
                               /\ OnChain(chain, batch[i])
        BY <1>2, <2>1, <2>5 DEF IsFetched
    <2>7. 1 \in 1 .. n /\ n \in 1 .. n
        BY <2>5
    <2>8. Runs(batch) /\ Height[batch[1]] = from /\ After(batch) = to + 1
        <3>1. Height[batch[1]] = from
            BY <1>3, <2>6, <2>7
        <3>2. After(batch) = to + 1
            BY <1>3, <2>2, <2>5, <2>6, <2>7 DEF After
        <3> QED BY <2>6, <3>1, <3>2 DEF Runs
    <2>9. PICK m \in Nat : m = Len(queue)
        BY <1>3
    <2>10. /\ DOMAIN queue' = 1 .. (m + 1) /\ DOMAIN queue = 1 .. m /\ Len(queue') = m + 1
           /\ \A k \in 1 .. m : queue'[k] = queue[k]
           /\ queue'[m + 1] = batch /\ queue' # <<>> /\ (queue = <<>> <=> m = 0)
        <3>1. batch \in Seq(Blocks) \ {<<>>}
            BY <2>4
        <3> QED BY <1>3, <2>4, <2>9, <3>1
    <2>11. OnBestChain'
        <3>1. ASSUME NEW k \in DOMAIN queue', NEW i \in DOMAIN queue'[k]
              PROVE  OnChain(chain, queue'[k][i])
            <4>1. CASE k = m + 1
                BY <2>6, <2>10, <3>1, <4>1
            <4>2. CASE k # m + 1
                <5>1. k \in DOMAIN queue /\ queue'[k] = queue[k]
                    BY <2>10, <4>2
                <5> QED BY <1>5, <3>1, <5>1 DEF OnBestChain
            <4> QED BY <4>1, <4>2
        <3> QED BY <1>1, <1>5, <3>1 DEF OnBestChain
    <2>12. from = IF queue = <<>> THEN next ELSE After(queue[m])
        BY <1>1, <1>2, <1>5, <2>9 DEF StreamIsGapless
    <2>13. \A k \in DOMAIN queue' : Runs(queue'[k])
        <3> SUFFICES ASSUME NEW k \in DOMAIN queue' PROVE Runs(queue'[k])
            OBVIOUS
        <3>1. CASE k = m + 1
            BY <2>8, <2>10, <3>1
        <3>2. CASE k # m + 1
            <4>1. k \in DOMAIN queue /\ queue'[k] = queue[k]
                BY <2>10, <3>2
            <4> QED BY <1>5, <4>1 DEF StreamIsGapless
        <3> QED BY <3>1, <3>2
    <2>14. Height[queue'[1][1]] = next
        <3>1. CASE m = 0
            <4>1. queue'[1] = batch
                BY <2>10, <3>1
            <4> QED BY <2>8, <2>10, <2>12, <3>1, <4>1
        <3>2. CASE m # 0
            <4>1. 1 \in 1 .. m /\ queue # <<>>
                BY <2>9, <2>10, <3>2
            <4> QED BY <1>5, <2>10, <4>1 DEF StreamIsGapless
        <3> QED BY <3>1, <3>2
    <2>15. ASSUME NEW k \in DOMAIN queue', k + 1 \in DOMAIN queue'
           PROVE  Height[queue'[k + 1][1]] = After(queue'[k])
        <3>1. k \in 1 .. m /\ k \in DOMAIN queue /\ queue'[k] = queue[k]
            BY <2>9, <2>10, <2>15
        <3>2. CASE k = m
            <4>1. queue'[k + 1] = batch /\ queue # <<>>
                BY <2>9, <2>10, <3>1, <3>2
            <4> QED BY <2>8, <2>12, <3>1, <3>2, <4>1
        <3>3. CASE k # m
            <4>1. k + 1 \in 1 .. m
                BY <2>9, <3>1, <3>3
            <4>2. k + 1 \in DOMAIN queue /\ queue'[k + 1] = queue[k + 1]
                BY <2>10, <4>1
            <4> QED BY <1>5, <3>1, <4>2 DEF StreamIsGapless
        <3> QED BY <3>2, <3>3
    <2>16. StreamIsGapless'
        BY <1>1, <2>3, <2>8, <2>10, <2>13, <2>14, <2>15 DEF StreamIsGapless
    <2> QED BY <2>11, <2>16
<1> QED BY <1>7, <1>8, BatchIsFetched

(* The blocks of a batch are the next ones of the best chain.              *)
LEMMA QuietProcessBatch == IInv /\ QuietInv /\ ProcessBatch => QuietInv'
<1> SUFFICES ASSUME IInv, QuietInv, ProcessBatch, Quiet' PROVE QuietInv'
    BY DEF QuietInv
<1>1. /\ pc = "stream" /\ queue # <<>> /\ chain' = chain
      /\ raced' = raced /\ polled' = polled /\ behind' = behind
    BY DEF ProcessBatch, counts
<1>2. PICK batch : batch = Head(queue)
    OBVIOUS
<1>3. PICK res : res = process_blocks(db, batch, next)
    OBVIOUS
<1>4. Quiet
    BY <1>1 DEF Quiet
<1>5. CASE ~ res.ok
    <2>1. pc' = "stopped" /\ db' = db
        BY <1>2, <1>3, <1>5 DEF ProcessBatch
    <2> QED BY <1>1, <1>4, <2>1, QuietAtRest
<1>6. CASE res.ok
    <2>1. /\ db' = res.d /\ next' = Height[Last(batch)] + 1 /\ queue' = Tail(queue)
          /\ cursor' = cursor
          /\ \/ pc' = "check" /\ why' = "batch" /\ forked' = FALSE
             \/ pc' = "stream"
        BY <1>1, <1>2, <1>3, <1>6 DEF ProcessBatch
    <2>2. /\ queue \in Seq(Seq(Blocks) \ {<<>>}) /\ next \in Nat /\ Birthday \in Nat
          /\ Sound(db) /\ OnRecord(db) /\ chain \in Chains
        BY ChainConstants DEF IInv, TypeOK
    <2>3. PICK m \in Nat : m = Len(queue) /\ m >= 1
        BY <1>1, <2>2
    <2>4. /\ 1 \in DOMAIN queue /\ batch = queue[1] /\ batch \in Seq(Blocks) /\ batch # <<>>
          /\ DOMAIN queue = 1 .. m /\ DOMAIN queue' = 1 .. (m - 1) /\ Len(queue') = m - 1
          /\ (queue' = <<>> <=> m = 1)
          /\ \A k \in DOMAIN queue' : k + 1 \in DOMAIN queue /\ queue'[k] = queue[k + 1]
        <3>1. /\ 1 \in DOMAIN queue /\ batch = queue[1] /\ batch \in Seq(Blocks) /\ batch # <<>>
              /\ DOMAIN queue = 1 .. m
            BY <1>1, <1>2, <2>2, <2>3
        <3>2. /\ DOMAIN queue' = 1 .. (m - 1) /\ Len(queue') = m - 1
              /\ queue' \in Seq(Seq(Blocks) \ {<<>>})
              /\ \A k \in 1 .. (m - 1) : queue'[k] = queue[k + 1]
            BY <1>1, <2>1, <2>2, <2>3
        <3>3. queue' = <<>> <=> m = 1
            BY <2>3, <3>2
        <3>4. \A k \in 1 .. (m - 1) : k + 1 \in 1 .. m
            BY <2>3
        <3> QED BY <3>1, <3>2, <3>3, <3>4
    <2>5. PICK n \in Nat : n = Len(batch) /\ n >= 1
        BY <2>4
    <2>6. /\ DOMAIN batch = 1 .. n /\ n \in 1 .. n /\ 1 \in 1 .. n
          /\ \A i \in 1 .. n : batch[i] \in Blocks /\ Height[batch[i]] \in Nat
          /\ next' = Height[batch[n]] + 1 /\ next' = After(batch)
        BY <2>1, <2>4, <2>5, BlockConstants DEF Last, After
    <2>7. HasProcessedUpTo(db, batch, next, n, db')
        BY <1>3, <2>1, <2>2, <2>4, <2>5, BatchProcessed
    <2>8. /\ ~ behind /\ OfOneChain(db) /\ Contiguous(db)
          /\ OnBestChain /\ Reached(db, next) /\ StreamIsGapless
        BY <1>1, <1>4 DEF QuietInv, Following
    <2>9. /\ Height[batch[1]] = next /\ \A i \in 1 .. n : Height[batch[i]] + 1 = next + i
        BY <1>1, <2>4, <2>6, <2>8 DEF StreamIsGapless, Runs
    <2>10. /\ \A i \in 1 .. n : batch[i] \in db'.tips
           /\ db.tips \subseteq db'.tips
           /\ \A t \in db'.tips : t \in db.tips \/ \E j \in 1 .. n : t = batch[j]
        <3>1. \A i \in 1 .. n : next <= Height[batch[i]]
            BY <2>2, <2>5, <2>6, <2>9
        <3> QED BY <2>7, <3>1 DEF HasProcessedUpTo
    <2>11. \A t \in db'.tips : OnChain(chain, t)
        <3> SUFFICES ASSUME NEW t \in db'.tips PROVE OnChain(chain, t)
            OBVIOUS
        <3>1. CASE t \in db.tips
            BY <2>8, <3>1 DEF OnBestChain
        <3>2. CASE \E j \in 1 .. n : t = batch[j]
            BY <2>4, <2>6, <2>8, <3>2 DEF OnBestChain
        <3> QED BY <2>10, <3>1, <3>2
    <2>12. OfOneChain(db')
        BY <2>2, <2>11 DEF OfOneChain
    <2>13. Contiguous(db')
        <3> SUFFICES ASSUME NEW t \in db'.tips, Height[t] > Birthday
                     PROVE  \E u \in db'.tips : Height[u] + 1 = Height[t]
            BY DEF Contiguous
        <3>1. CASE t \in db.tips
            BY <2>8, <2>10, <3>1 DEF Contiguous
        <3>2. CASE \E j \in 1 .. n : t = batch[j]
            <4>1. PICK j \in 1 .. n : t = batch[j]
                BY <3>2
            <4>2. CASE j = 1
                <5>1. Height[t] = next /\ ~ (next <= Birthday)
                    BY <2>2, <2>9, <4>1, <4>2
                <5> QED BY <2>8, <2>10, <5>1 DEF Reached
            <4>3. CASE j # 1
                <5>1. j - 1 \in 1 .. n
                    BY <2>5, <4>3
                <5>2. /\ Height[batch[j]] + 1 = next + j /\ Height[batch[j]] \in Nat
                      /\ Height[batch[j - 1]] + 1 = next + (j - 1) /\ Height[batch[j - 1]] \in Nat
                    BY <2>6, <2>9, <5>1
                <5>3. Height[batch[j - 1]] + 1 = Height[batch[j]]
                    BY <2>2, <5>2, SMTT(30)
                <5> QED BY <2>10, <4>1, <5>1, <5>3
            <4> QED BY <4>2, <4>3
        <3> QED BY <2>10, <3>1, <3>2
    <2>14. Reached(db', next')
        BY <2>6, <2>10 DEF Reached
    <2>15. OnBestChain'
        <3>1. \A k \in DOMAIN queue' : \A i \in DOMAIN queue'[k] : OnChain(chain, queue'[k][i])
            BY <2>4, <2>8 DEF OnBestChain
        <3> QED BY <1>1, <2>1, <2>11, <3>1 DEF OnBestChain
    <2>16. StreamIsGapless'
        <3>1. \A k \in DOMAIN queue' : Runs(queue'[k])
            BY <2>4, <2>8 DEF StreamIsGapless
        <3>2. queue' # <<>> => Height[queue'[1][1]] = next'
            <4> SUFFICES ASSUME queue' # <<>> PROVE Height[queue'[1][1]] = next'
                OBVIOUS
            <4>1. 1 \in DOMAIN queue' /\ 1 + 1 \in DOMAIN queue /\ queue'[1] = queue[1 + 1]
                BY <2>3, <2>4
            <4>2. Height[queue[1 + 1][1]] = After(queue[1])
                BY <2>4, <2>8, <4>1 DEF StreamIsGapless
            <4> QED BY <2>4, <2>6, <4>1, <4>2
        <3>3. ASSUME NEW k \in DOMAIN queue', k + 1 \in DOMAIN queue'
              PROVE  Height[queue'[k + 1][1]] = After(queue'[k])
            <4>1. /\ k + 1 \in DOMAIN queue /\ queue'[k] = queue[k + 1]
                  /\ (k + 1) + 1 \in DOMAIN queue /\ queue'[k + 1] = queue[(k + 1) + 1]
                BY <2>4, <3>3
            <4> QED BY <2>8, <4>1 DEF StreamIsGapless
        <3>4. ASSUME cursor' # NoBlock
              PROVE  Position' = IF queue' = <<>> THEN next' ELSE After(queue'[Len(queue')])
            <4>1. Position' = Position /\ Position = After(queue[m])
                BY <1>1, <2>1, <2>3, <2>8, <3>4 DEF StreamIsGapless, Position
            <4>2. CASE m = 1
                BY <2>4, <2>6, <4>1, <4>2
            <4>3. CASE m # 1
                <5>1. m - 1 \in DOMAIN queue' /\ (m - 1) + 1 = m
                    BY <2>3, <2>4, <4>3
                <5>2. queue'[m - 1] = queue[m]
                    BY <2>4, <5>1
                <5> QED BY <2>4, <4>1, <4>3, <5>2
            <4> QED BY <4>2, <4>3
        <3> QED BY <3>1, <3>2, <3>3, <3>4 DEF StreamIsGapless
    <2> QED BY <1>1, <2>1, <2>8, <2>12, <2>13, <2>14, <2>15, <2>16 DEF QuietInv
<1> QED BY <1>5, <1>6

(* Every step keeps the second invariant.                                  *)
LEMMA QuietStep == IInv /\ QuietInv /\ [Next]_vars /\ ~ torn' => QuietInv'
<1> SUFFICES ASSUME IInv, QuietInv, [Next]_vars, ~ torn', Quiet' PROVE QuietInv'
    BY DEF QuietInv
<1>1. CASE StartCycle \/ CheckTip \/ Settle \/ OpenDownload \/ FetchBatch \/ ProcessBatch
    BY <1>1, QuietStartCycle, QuietCheckTip, QuietSettle, QuietOpenDownload, QuietFetchBatch,
       QuietProcessBatch
<1>2. CASE FetchRefused
    <2>1. /\ pc' = "idle" /\ db' = db /\ raced' = raced /\ polled' = polled
          /\ behind' = behind
        BY <1>2 DEF FetchRefused, counts
    <2> QED BY <2>1, QuietAtRest DEF Quiet
<1>3. CASE EndStream
    <2>1. /\ pc' = "idle" /\ db' = db /\ raced' = raced /\ polled' = polled
          /\ behind' = behind
        BY <1>3 DEF EndStream, wait_for_next_poll_cycle, Quiet
    <2> QED BY <2>1, QuietAtRest DEF Quiet
<1>4. CASE Fail
    BY <1>4, QuietFail
<1>5. CASE Restart
    <2>1. /\ pc' = "idle" /\ db' = db /\ raced' = raced /\ polled' = polled
          /\ behind' = behind
        BY <1>5 DEF Restart, counts
    <2> QED BY <2>1, QuietAtRest DEF Quiet
<1>6. CASE \E h \in RescanHeights : Rescan(h)
    BY <1>6, QuietRescan
<1>7. CASE NodeExtends
    BY <1>7, QuietNodeExtends
<1>8. CASE NodeReorgs
    <2>1. /\ pc' = pc /\ db' = db /\ raced' = (raced \/ pc \notin {"idle", "stopped"})
          /\ polled' = polled /\ behind' = behind
        BY <1>8 DEF NodeReorgs
    <2>2. pc \in {"idle", "stopped"} /\ Quiet
        BY <2>1 DEF Quiet
    <2> QED BY <2>1, <2>2, QuietAtRest
<1>9. CASE UNCHANGED vars
    BY <1>9 DEF QuietInv, Quiet, OfOneChain, Contiguous, Following, OnBestChain, Reached,
                StreamIsGapless, Position, ForkIsFound, vars, stream, counts
<1> QED BY <1>1, <1>2, <1>3, <1>4, <1>5, <1>6, <1>7, <1>8, <1>9 DEF Next, ScannerStep

(* The record of scanned blocks has no gap above the birthday, as long as  *)
(* the node reorganises between cycles only and nothing polls: whatever    *)
(* batches are dropped, requests fail and re-scans are made, if they run   *)
(* to their end, no block below the last one on record has been passed     *)
(* over.                                                                   *)
THEOREM NoBlockPassedOver == Spec => [](~ torn => TipsAreContiguous)
<1>1. QuietInv => TipsAreContiguous
    BY DEF QuietInv, Contiguous, TipsAreContiguous
<1>2. (~ torn => IInv) /\ (~ torn => QuietInv) /\ [Next]_vars => (~ torn => QuietInv)'
    BY QuietStep, TornForGood
<1> QED BY <1>1, <1>2, QuietInit, Invariance, PTL DEF Spec

-----------------------------------------------------------------------------
(* The tables and the record                                               *)

(* In a stream all blocks on record are below the next height.             *)
NextIsNew == pc \in {"open", "stream"} => \A b \in db.tips : Height[b] < next

(* The tables hold what the blocks on record hold.                         *)
MatchInv == Quiet => Matches(db) /\ NextIsNew

(* On a chain a block may follow those below it.                           *)
LEMMA ChainFollows ==
    ASSUME NEW c \in Chains, NEW u \in Blocks, NEW b \in Blocks, OnChain(c, u), OnChain(c, b),
           Height[u] < Height[b]
    PROVE  Ins[u] \cap Outs[b] = {} /\ Ins[u] \cap Ins[b] = {}
<1>1. c \in Seq(Blocks) /\ Len(c) \in Nat /\ Height[b] \in Nat /\ Height[u] \in Nat
    BY ChainConstants, BlockConstants
<1>2. /\ Height[b] <= Len(c) - 1 /\ c[Height[b] + 1] = b
      /\ Height[u] <= Len(c) - 1 /\ c[Height[u] + 1] = u
    BY DEF OnChain, Tip, At
<1>3. PICK i, j \in DOMAIN c : c[i] = u /\ c[j] = b /\ i < j
    <2>1. /\ Height[b] + 1 \in DOMAIN c /\ Height[u] + 1 \in DOMAIN c
          /\ Height[u] + 1 < Height[b] + 1
        BY <1>1, <1>2
    <2> QED BY <1>2, <2>1
<1> QED BY <1>3, SpentLast

(* Nothing is scanned yet.                                                 *)
LEMMA MatchInit == Init => MatchInv
<1> SUFFICES ASSUME Init PROVE Matches(db) /\ NextIsNew
    BY DEF MatchInv
<1>1. /\ db.tips = {} /\ db.outputs = {} /\ db.inputs = {} /\ db.changes = {}
      /\ pc = "idle"
    BY DEF Init, Empty
<1> QED BY <1>1, FS_EmptySet DEF NextIsNew, Matches, MinedIn, SpentIn, DebitedOnce, Finite, Active

(* Without a write no more is asked of a stream than before.               *)
LEMMA MatchKept ==
    ASSUME MatchInv, Quiet, db' = db,
           pc' \in {"open", "stream"} => pc \in {"open", "stream"} /\ next' = next
    PROVE  Matches(db') /\ NextIsNew'
BY DEF MatchInv, NextIsNew

(* The rollback leaves the blocks below the next height.                   *)
LEMMA MatchSettle ==
    ASSUME IInv, QuietInv, MatchInv, Settle, Quiet PROVE Matches(db') /\ NextIsNew'
<1>1. /\ pc = "settle"
      /\ db' = IF forked THEN rollback_from_height(db, next) ELSE db
      /\ next' = IF why = "prepare" /\ next = 0 THEN Birthday ELSE next
    BY DEF Settle
<1>2. /\ ~ behind /\ why \in {"prepare", "batch"} /\ Matches(db)
      /\ why = "batch" => ~ forked
      /\ why = "prepare" => ForkIsFound
    BY <1>1 DEF QuietInv, MatchInv, IInv, TypeOK, Following, OnBestChain
<1>3. /\ next \in Nat /\ Sound(db) /\ OnRecord(db) /\ RecordIsBelow
      /\ \A t \in db.tips : t \in Blocks /\ Height[t] \in Nat
    BY <1>2, BlockConstants DEF IInv, TypeOK, Tables
<1>4. CASE ~ forked
    <2>1. db' = db
        BY <1>1, <1>4
    <2>2. \A t \in db.tips : Height[t] < next
        <3>1. CASE why = "batch"
            BY <1>1, <1>3, <1>4, <3>1 DEF RecordIsBelow
        <3>2. CASE why = "prepare"
            BY <1>2, <1>3, <1>4, <3>2 DEF ForkIsFound
        <3> QED BY <1>2, <3>1, <3>2
    <2>3. \A t \in db.tips : Height[t] < next'
        BY <1>1, <1>3, <2>2
    <2> QED BY <1>2, <2>1, <2>3 DEF NextIsNew
<1>5. CASE forked
    <2>1. PICK g : g = rollback_from_height(db, next)
        OBVIOUS
    <2>2. g.tips = {t \in db.tips : Height[t] < next} /\ Matches(g)
        BY <1>2, <1>3, <2>1, RollbackKeeps
    <2>3. \A t \in g.tips : Height[t] < next'
        BY <1>1, <1>3, <2>2
    <2> QED BY <1>1, <1>5, <2>1, <2>2, <2>3 DEF NextIsNew
<1> QED BY <1>4, <1>5

(* The blocks of a batch follow those on record, and each other.           *)
LEMMA MatchProcessBatch ==
    ASSUME IInv, QuietInv, MatchInv, ProcessBatch, Quiet PROVE Matches(db') /\ NextIsNew'
<1>1. pc = "stream" /\ queue # <<>>
    BY DEF ProcessBatch
<1>2. PICK batch : batch = Head(queue)
    OBVIOUS
<1>3. PICK res : res = process_blocks(db, batch, next)
    OBVIOUS
<1>4. CASE ~ res.ok
    <2>1. pc' = "stopped" /\ db' = db
        BY <1>2, <1>3, <1>4 DEF ProcessBatch
    <2> QED BY <2>1, MatchKept
<1>5. CASE res.ok
    <2>1. db' = res.d /\ next' = Height[Last(batch)] + 1
        BY <1>2, <1>3, <1>5 DEF ProcessBatch
    <2>2. /\ queue \in Seq(Seq(Blocks) \ {<<>>}) /\ next \in Nat /\ Sound(db) /\ OnRecord(db)
          /\ chain \in Chains /\ \A t \in db.tips : t \in Blocks /\ Height[t] \in Nat
        BY BlockConstants DEF IInv, TypeOK, Tables
    <2>3. 1 \in DOMAIN queue /\ batch = queue[1] /\ batch \in Seq(Blocks) /\ batch # <<>>
        BY <1>1, <1>2, <2>2
    <2>4. PICK n \in Nat : n = Len(batch) /\ n >= 1 /\ DOMAIN batch = 1 .. n
        BY <2>3
    <2>5. /\ \A i \in 1 .. n : batch[i] \in Blocks /\ Height[batch[i]] \in Nat
          /\ next' = Height[batch[n]] + 1 /\ n \in 1 .. n /\ 1 \in 1 .. n
        BY <2>1, <2>3, <2>4, BlockConstants DEF Last
    <2>6. OnBestChain /\ StreamIsGapless /\ Matches(db) /\ \A t \in db.tips : Height[t] < next
        BY <1>1 DEF QuietInv, Following, MatchInv, NextIsNew
    <2>7. Height[batch[1]] = next /\ \A i \in 1 .. n : Height[batch[i]] + 1 = next + i
        BY <1>1, <2>3, <2>4, <2>5, <2>6 DEF StreamIsGapless, Runs
    <2>8. \A i \in 1 .. n : OnChain(chain, batch[i]) /\ next <= Height[batch[i]]
        BY <2>2, <2>3, <2>4, <2>5, <2>6, <2>7 DEF OnBestChain
    <2>9. FollowsAll(db, batch)
        <3> SUFFICES ASSUME NEW k \in 1 .. n
                     PROVE  /\ Follows(db.tips, batch[k])
                            /\ \A j \in 1 .. (k - 1) : Follows({batch[j]}, batch[k])
            BY <2>4 DEF FollowsAll
        <3>1. ASSUME NEW t \in db.tips
              PROVE  Ins[t] \cap Outs[batch[k]] = {} /\ Ins[t] \cap Ins[batch[k]] = {}
            <4>1. OnChain(chain, t)
                BY <2>6 DEF OnBestChain
            <4>2. Height[t] < next /\ next <= Height[batch[k]]
                BY <2>6, <2>8
            <4>3. Height[t] < Height[batch[k]]
                BY <2>2, <2>5, <4>2
            <4> QED BY <2>2, <2>5, <2>8, <4>1, <4>3, ChainFollows
        <3>2. ASSUME NEW j \in 1 .. (k - 1)
              PROVE  Ins[batch[j]] \cap Outs[batch[k]] = {} /\ Ins[batch[j]] \cap Ins[batch[k]] = {}
            <4>1. j \in 1 .. n /\ j < k
                BY <2>4
            <4>2. /\ Height[batch[j]] + 1 = next + j /\ Height[batch[k]] + 1 = next + k
                  /\ Height[batch[j]] \in Nat /\ Height[batch[k]] \in Nat
                BY <2>5, <2>7, <4>1
            <4>3. Height[batch[j]] < Height[batch[k]]
                BY <2>2, <4>1, <4>2
            <4> QED BY <2>2, <2>5, <2>8, <4>1, <4>3, ChainFollows
        <3> QED BY <3>1, <3>2 DEF Follows, NotMinedAfter, NotSpentAgain
    <2>10. Matches(db')
        BY <1>3, <1>5, <2>1, <2>2, <2>3, <2>6, <2>9, BatchMatches
    <2>11. HasProcessedUpTo(db, batch, next, n, db')
        BY <1>3, <2>1, <2>2, <2>3, <2>4, BatchProcessed
    <2>12. ASSUME NEW t \in db'.tips PROVE Height[t] < next'
        <3>1. CASE t \in db.tips
            BY <2>2, <2>5, <2>6, <2>8, <3>1
        <3>2. CASE \E j \in 1 .. n : t = batch[j]
            BY <2>2, <2>5, <2>7, <3>2
        <3> QED BY <2>11, <3>1, <3>2 DEF HasProcessedUpTo
    <2> QED BY <2>10, <2>12 DEF NextIsNew
<1> QED BY <1>4, <1>5

(* Every step keeps the tables and the record in step.                     *)
LEMMA MatchStep == IInv /\ QuietInv /\ MatchInv /\ [Next]_vars /\ ~ torn' => MatchInv'
<1> SUFFICES ASSUME IInv, QuietInv, MatchInv, [Next]_vars, ~ torn', Quiet'
             PROVE  Matches(db') /\ NextIsNew'
    BY DEF MatchInv
<1>1. CASE StartCycle
    <2>1. /\ db' = db /\ pc = "idle" /\ Quiet
          /\ pc' = "check" \/ (pc' = "open" /\ db.tips = {})
        BY <1>1 DEF StartCycle, BeginCheck, OpenStream, Quiet, counts
    <2> QED BY <2>1 DEF MatchInv, NextIsNew
<1>2. CASE CheckTip
    <2>1. db' = db /\ pc = "check" /\ pc' \in {"check", "settle"} /\ Quiet
        BY <1>2 DEF CheckTip, Quiet, counts
    <2> QED BY <2>1, MatchKept
<1>3. CASE Settle
    BY <1>3, MatchSettle DEF Settle, Quiet, counts
<1>4. CASE OpenDownload
    <2>1. db' = db /\ pc = "open" /\ pc' = "stream" /\ next' = next /\ Quiet
        BY <1>4 DEF OpenDownload, Quiet, counts
    <2> QED BY <2>1, MatchKept
<1>5. CASE FetchBatch
    <2>1. db' = db /\ pc' = pc /\ next' = next /\ Quiet
        BY <1>5 DEF FetchBatch, Quiet, counts
    <2> QED BY <2>1, MatchKept
<1>6. CASE FetchRefused
    <2>1. db' = db /\ pc' = "idle" /\ Quiet
        BY <1>6 DEF FetchRefused, Quiet, counts
    <2> QED BY <2>1, MatchKept
<1>7. CASE ProcessBatch
    BY <1>7, MatchProcessBatch DEF ProcessBatch, Quiet, counts
<1>8. CASE EndStream
    <2>1. db' = db /\ pc' = "idle" /\ Quiet
        BY <1>8 DEF EndStream, wait_for_next_poll_cycle, Quiet
    <2> QED BY <2>1, MatchKept
<1>9. CASE Fail
    <2>1. /\ db' = db /\ next' = next /\ Quiet
          /\ pc' \in {"stopped", "idle"} \/ (pc' = "open" /\ pc = "open")
        BY <1>9 DEF Fail, Quiet
    <2> QED BY <2>1, MatchKept
<1>10. CASE Restart
    <2>1. db' = db /\ pc' = "idle" /\ Quiet
        BY <1>10 DEF Restart, Quiet, counts
    <2> QED BY <2>1, MatchKept
<1>11. CASE \E h \in RescanHeights : Rescan(h)
    <2>1. PICK h \in RescanHeights : Rescan(h)
        BY <1>11
    <2>2. db' = rollback_from_height(db, h) /\ pc' = "idle" /\ Quiet
        BY <2>1 DEF Rescan, Quiet
    <2>3. Sound(db) /\ OnRecord(db) /\ h \in Nat /\ Matches(db)
        BY <2>2, ChainConstants DEF IInv, MatchInv
    <2>4. Matches(db')
        BY <2>2, <2>3, RollbackKeeps
    <2> QED BY <2>2, <2>4 DEF NextIsNew
<1>12. CASE NodeExtends
    <2>1. db' = db /\ pc' = pc /\ next' = next /\ Quiet
        BY <1>12 DEF NodeExtends, Quiet, counts
    <2> QED BY <2>1, MatchKept
<1>13. CASE NodeReorgs
    <2>1. db' = db /\ pc' = pc /\ next' = next /\ Quiet
        BY <1>13 DEF NodeReorgs, Quiet
    <2> QED BY <2>1, MatchKept
<1>14. CASE UNCHANGED vars
    <2>1. db' = db /\ pc' = pc /\ next' = next /\ Quiet
        BY <1>14 DEF Quiet, vars, counts
    <2> QED BY <2>1, MatchKept
<1> QED BY <1>1, <1>2, <1>3, <1>4, <1>5, <1>6, <1>7, <1>8, <1>9, <1>10, <1>11, <1>12, <1>13,
           <1>14 DEF Next, ScannerStep
-----------------------------------------------------------------------------
(* Sums                                                                    *)

(* Induction over the subsets of a finite set.                             *)
LEMMA SetInduction ==
    ASSUME NEW S, IsFiniteSet(S), NEW P,
           \A s \in SUBSET S : (\A x \in s : s \ {x} \in P) => s \in P
    PROVE  \A s \in SUBSET S : s \in P
<1> SUFFICES ASSUME NEW w \in SUBSET S, w \notin P
             PROVE  FALSE
    OBVIOUS
<1> DEFINE B == {s \in SUBSET S : s \notin P}
           T == {Cardinality(s) : s \in B}
<1>1. \A s \in SUBSET S : IsFiniteSet(s) /\ Cardinality(s) \in Nat
    BY FS_Subset, FS_CardinalityType
<1>2. T \in SUBSET Nat /\ T # {}
    BY <1>1
<1>3. PICK s \in B : Cardinality(s) = Min(T) /\ \A y \in T : Min(T) <= y
    <2>1. Min(T) \in T /\ \A y \in T : Min(T) <= y
        <3> HIDE DEF T
        <3> QED BY <1>2, Smallest
    <2> QED BY <2>1
<1>4. ASSUME NEW x \in s PROVE s \ {x} \in P
    <2>1. Cardinality(s \ {x}) = Cardinality(s) - 1 /\ s \ {x} \in SUBSET S
        BY <1>1, FS_RemoveElement
    <2>2. Cardinality(s \ {x}) < Cardinality(s) /\ Cardinality(s \ {x}) \in Nat
        BY <1>1, <2>1
    <2>3. s \ {x} \notin B
        <3>1. s \ {x} \in B => Cardinality(s \ {x}) \in T
            OBVIOUS
        <3>2. Cardinality(s) \in Nat
            BY <1>1
        <3> HIDE DEF B, T
        <3> QED BY <1>3, <2>2, <3>1, <3>2
    <2> QED BY <2>1, <2>3
<1> QED BY <1>3, <1>4

(* A function on the subsets of a finite set may be defined by the value   *)
(* for the empty set and a step that adds one element.                     *)
Picks(S, pick)    == \A s \in SUBSET S : s # {} => pick[s] \in s
Steps(S, V, step) == \A s \in SUBSET S : \A v \in V : step[s][v] \in V
Recursion(S, base, pick, step, f) ==
    \A s \in SUBSET S : f[s] = IF s = {} THEN base ELSE step[s][f[s \ {pick[s]}]]

LEMMA SetRecursion ==
    ASSUME NEW S, IsFiniteSet(S), NEW V, NEW base \in V, NEW pick, NEW step,
           Picks(S, pick), Steps(S, V, step)
    PROVE  \E f \in [SUBSET S -> V] : Recursion(S, base, pick, step, f)
<1> DEFINE D(n)      == {s \in SUBSET S : Cardinality(s) <= n}
           Rec(f, n) == \A s \in D(n) : f[s] = IF s = {} THEN base ELSE step[s][f[s \ {pick[s]}]]
           Has(n)    == \E f \in [D(n) -> V] : Rec(f, n)
           Bad       == {n \in Nat : ~ Has(n)}
<1>1. \A s \in SUBSET S : IsFiniteSet(s) /\ Cardinality(s) \in Nat
    BY FS_Subset, FS_CardinalityType
<1>2. ASSUME NEW s \in SUBSET S, s # {}
      PROVE  s \ {pick[s]} \in SUBSET S /\ Cardinality(s \ {pick[s]}) = Cardinality(s) - 1
    BY <1>1, <1>2, FS_RemoveElement DEF Picks
<1>3. Has(0)
    <2>1. D(0) = {{}}
        <3>1. \A s \in SUBSET S : Cardinality(s) = 0 <=> s = {}
            BY <1>1, FS_EmptySet
        <3> QED BY <1>1, <3>1
    <2>2. [s \in D(0) |-> base] \in [D(0) -> V] /\ Rec([s \in D(0) |-> base], 0)
        BY <2>1
    <2> QED BY <2>2
<1>4. ASSUME NEW n \in Nat, Has(n) PROVE Has(n + 1)
    <2>1. PICK f \in [D(n) -> V] : Rec(f, n)
        BY <1>4
    <2> DEFINE g == [s \in D(n + 1) |-> IF s = {} THEN base ELSE step[s][f[s \ {pick[s]}]]]
    <2>2. ASSUME NEW s \in D(n + 1), s # {} PROVE s \ {pick[s]} \in D(n)
        BY <1>1, <1>2, <2>2
    <2>3. g \in [D(n + 1) -> V]
        <3>1. ASSUME NEW s \in D(n + 1), s # {} PROVE step[s][f[s \ {pick[s]}]] \in V
            <4>1. f[s \ {pick[s]}] \in V
                BY <2>2, <3>1
            <4> QED BY <4>1 DEF Steps
        <3> QED BY <3>1
    <2>4. ASSUME NEW s \in D(n) PROVE s \in D(n + 1) /\ g[s] = f[s]
        <3>1. s \in D(n + 1)
            BY <1>1
        <3> QED BY <2>1, <3>1
    <2>5. Rec(g, n + 1)
        <3> SUFFICES ASSUME NEW s \in D(n + 1)
                     PROVE  g[s] = IF s = {} THEN base ELSE step[s][g[s \ {pick[s]}]]
            OBVIOUS
        <3>1. CASE s = {}
            BY <3>1
        <3>2. CASE s # {}
            <4>1. g[s \ {pick[s]}] = f[s \ {pick[s]}]
                BY <2>2, <2>4, <3>2
            <4>2. g[s] = step[s][f[s \ {pick[s]}]]
                BY <3>2
            <4> HIDE DEF g
            <4> QED BY <3>2, <4>1, <4>2
        <3> QED BY <3>1, <3>2
    <2> HIDE DEF g
    <2> QED BY <2>3, <2>5
<1> HIDE DEF Has
<1>5. Bad = {}
    <2> SUFFICES ASSUME Bad # {} PROVE FALSE
        OBVIOUS
    <2>1. Bad \in SUBSET Nat
        OBVIOUS
    <2>2. Min(Bad) \in Bad /\ \A y \in Bad : Min(Bad) <= y
        BY <2>1, Smallest
    <2> DEFINE k == Min(Bad)
    <2>3. k \in Nat /\ ~ Has(k) /\ k # 0
        BY <1>3, <2>2
    <2> HIDE DEF k
    <2>4. k - 1 \in Nat /\ k - 1 \notin Bad
        BY <2>2, <2>3 DEF k
    <2>5. Has(k - 1)
        BY <2>4
    <2>6. Has(k - 1 + 1)
        BY <1>4, <2>4, <2>5
    <2> QED BY <2>3, <2>6
<1>6. Has(Cardinality(S))
    <2>1. Cardinality(S) \in Nat
        BY <1>1
    <2> QED BY <1>5, <2>1
<1>7. D(Cardinality(S)) = SUBSET S
    <2>1. \A s \in SUBSET S : Cardinality(s) <= Cardinality(S)
        BY FS_Subset
    <2> QED BY <2>1
<1>8. PICK f \in [D(Cardinality(S)) -> V] : Rec(f, Cardinality(S))
    BY <1>6 DEF Has
<1> QED BY <1>7, <1>8 DEF Recursion

(* The recursion the sum over a set is defined by.                         *)
SumsOf(nums, S, f) ==
    f = [s \in SUBSET S |-> IF s = {} THEN 0
                            ELSE nums[CHOOSE x \in s : TRUE] + f[s \ {CHOOSE x \in s : TRUE}]]

SumOf(nums, S) == MapThenSumSet(LAMBDA i : nums[i], S)

LEMMA SumIs ==
    ASSUME NEW nums, NEW S
    PROVE  SumOf(nums, S) = (CHOOSE f : SumsOf(nums, S, f))[S]
BY DEF SumOf, MapThenSumSet, MapThenFoldSet, SumsOf

LEMMA SumsExist ==
    ASSUME NEW nums, NEW S, IsFiniteSet(S), \A i \in S : nums[i] \in Nat
    PROVE  \E f \in [SUBSET S -> Nat] : SumsOf(nums, S, f)
<1> DEFINE pick == [s \in SUBSET S |-> CHOOSE x \in s : TRUE]
           step == [s \in SUBSET S |-> [v \in Nat |-> IF s = {} THEN 0 ELSE nums[pick[s]] + v]]
<1>1. \A s \in SUBSET S : s # {} => pick[s] \in s
    OBVIOUS
<1>2. ASSUME NEW s \in SUBSET S, NEW v \in Nat PROVE step[s][v] \in Nat
    <2>1. CASE s = {}
        BY <2>1
    <2>2. CASE s # {}
        <3>1. nums[pick[s]] \in Nat
            BY <1>1, <2>2
        <3> HIDE DEF pick
        <3> QED BY <2>2, <3>1
    <2> QED BY <2>1, <2>2
<1>3. \A s \in SUBSET S : s # {} => \A v \in Nat : step[s][v] = nums[CHOOSE x \in s : TRUE] + v
    OBVIOUS
<1> HIDE DEF step
<1>4. PICK f \in [SUBSET S -> Nat] :
         \A s \in SUBSET S : f[s] = IF s = {} THEN 0 ELSE step[s][f[s \ {pick[s]}]]
    <2> HIDE DEF pick
    <2>1. 0 \in Nat /\ Picks(S, pick) /\ Steps(S, Nat, step)
        BY <1>1, <1>2 DEF Picks, Steps
    <2>2. \E f \in [SUBSET S -> Nat] : Recursion(S, 0, pick, step, f)
        BY <2>1, SetRecursion
    <2> QED BY <2>2 DEF Recursion
<1>5. ASSUME NEW s \in SUBSET S
      PROVE  f[s] = IF s = {} THEN 0
                    ELSE nums[CHOOSE x \in s : TRUE] + f[s \ {CHOOSE x \in s : TRUE}]
    <2>1. CASE s = {}
        BY <1>4, <2>1
    <2>2. CASE s # {}
        <3>1. s \ {pick[s]} \in SUBSET S
            OBVIOUS
        <3>2. f[s] = step[s][f[s \ {pick[s]}]] /\ f[s \ {pick[s]}] \in Nat
            BY <1>4, <2>2, <3>1
        <3>3. pick[s] = CHOOSE x \in s : TRUE
            OBVIOUS
        <3> HIDE DEF pick
        <3> QED BY <1>3, <2>2, <3>2, <3>3
    <2> QED BY <2>1, <2>2
<1>6. f = [s \in SUBSET S |-> IF s = {} THEN 0
                            ELSE nums[CHOOSE x \in s : TRUE] + f[s \ {CHOOSE x \in s : TRUE}]]
    BY <1>5
<1> QED BY <1>6 DEF SumsOf

LEMMA SumsAgree ==
    ASSUME NEW nums, NEW S, IsFiniteSet(S), NEW f, NEW s \in SUBSET S, NEW g,
           SumsOf(nums, S, f), SumsOf(nums, s, g)
    PROVE  f[s] = g[s]
<1> DEFINE P == {u \in SUBSET s : f[u] = g[u]}
<1>1. IsFiniteSet(s)
    BY FS_Subset
<1>2. ASSUME NEW u \in SUBSET s, \A x \in u : u \ {x} \in P PROVE u \in P
    <2>1. CASE u = {}
        BY <2>1 DEF SumsOf
    <2>2. CASE u # {}
        <3>1. PICK y : y = CHOOSE x \in u : TRUE
            OBVIOUS
        <3>2. y \in u
            BY <2>2, <3>1
        <3>3. f[u \ {y}] = g[u \ {y}]
            BY <1>2, <3>2
        <3>4. f[u] = nums[y] + f[u \ {y}]
            BY <2>2, <3>1 DEF SumsOf
        <3>5. g[u] = nums[y] + g[u \ {y}]
            BY <2>2, <3>1 DEF SumsOf
        <3> QED BY <3>3, <3>4, <3>5
    <2> QED BY <2>1, <2>2
<1> HIDE DEF P
<1>3. \A u \in SUBSET s : u \in P
    BY <1>1, <1>2, SetInduction
<1> QED BY <1>3 DEF P

(* A sum is a number; one element of the set is taken out.                 *)
LEMMA SumChoice ==
    ASSUME NEW nums, NEW S, IsFiniteSet(S), \A i \in S : nums[i] \in Nat
    PROVE  /\ SumOf(nums, S) \in Nat
           /\ S = {} => SumOf(nums, S) = 0
           /\ S # {} => SumOf(nums, S) = nums[CHOOSE x \in S : TRUE]
                                          + SumOf(nums, S \ {CHOOSE x \in S : TRUE})
<1>1. PICK f \in [SUBSET S -> Nat] : SumsOf(nums, S, f)
    BY SumsExist
<1>2. ASSUME NEW s \in SUBSET S PROVE SumOf(nums, s) = f[s]
    <2>1. IsFiniteSet(s)
        BY FS_Subset
    <2>2. PICK g \in [SUBSET s -> Nat] : SumsOf(nums, s, g)
        BY <2>1, SumsExist
    <2>3. SumsOf(nums, s, CHOOSE c : SumsOf(nums, s, c))
        BY <2>2
    <2> QED BY <1>1, <2>3, SumIs, SumsAgree
<1>3. S # {} => S \ {CHOOSE x \in S : TRUE} \in SUBSET S
    OBVIOUS
<1>4. /\ S = {} => f[S] = 0
      /\ S # {} => f[S] = nums[CHOOSE x \in S : TRUE] + f[S \ {CHOOSE x \in S : TRUE}]
    BY <1>1 DEF SumsOf
<1> QED BY <1>2, <1>3, <1>4

LEMMA SumAdd ==
    ASSUME NEW nums, NEW S, IsFiniteSet(S), \A i \in S : nums[i] \in Nat, NEW z \in S
    PROVE  /\ SumOf(nums, S \ {z}) \in Nat
           /\ SumOf(nums, S) = nums[z] + SumOf(nums, S \ {z})
<1> DEFINE P == {u \in SUBSET S : \A x \in u : SumOf(nums, u) = nums[x] + SumOf(nums, u \ {x})}
<1>1. \A s \in SUBSET S : IsFiniteSet(s)
    BY FS_Subset
<1>2. \A s \in SUBSET S : SumOf(nums, s) \in Nat
    BY <1>1, SumChoice
<1>3. ASSUME NEW u \in SUBSET S, \A x \in u : u \ {x} \in P PROVE u \in P
    <2> SUFFICES ASSUME NEW x \in u PROVE SumOf(nums, u) = nums[x] + SumOf(nums, u \ {x})
        OBVIOUS
    <2>1. PICK y : y = CHOOSE v \in u : TRUE
        OBVIOUS
    <2>2. y \in u
        BY <2>1
    <2>3. SumOf(nums, u) = nums[y] + SumOf(nums, u \ {y})
        BY <1>1, <2>1, SumChoice
    <2>4. CASE x = y
        BY <2>3, <2>4
    <2>5. CASE x # y
        <3>1. SumOf(nums, u \ {y}) = nums[x] + SumOf(nums, (u \ {y}) \ {x})
            BY <1>3, <2>2, <2>5
        <3>2. SumOf(nums, u \ {x}) = nums[y] + SumOf(nums, (u \ {x}) \ {y})
            BY <1>3, <2>2, <2>5
        <3>3. (u \ {y}) \ {x} = (u \ {x}) \ {y}
            OBVIOUS
        <3>4. nums[x] \in Nat /\ nums[y] \in Nat /\ SumOf(nums, (u \ {x}) \ {y}) \in Nat
            BY <1>2, <2>2
        <3> HIDE DEF P
        <3> QED BY <2>3, <3>1, <3>2, <3>3, <3>4
    <2> QED BY <2>4, <2>5
<1> HIDE DEF P
<1>4. \A s \in SUBSET S : s \in P
    BY <1>3, SetInduction
<1> QED BY <1>2, <1>4 DEF P

(* The sum over two disjoint sets.                                         *)
LEMMA SumUnion ==
    ASSUME NEW nums, NEW A, NEW B, IsFiniteSet(A), IsFiniteSet(B), A \cap B = {},
           \A i \in A \cup B : nums[i] \in Nat
    PROVE  /\ SumOf(nums, A) \in Nat /\ SumOf(nums, B) \in Nat
           /\ SumOf(nums, A \cup B) = SumOf(nums, A) + SumOf(nums, B)
<1> DEFINE P == {u \in SUBSET A : SumOf(nums, u \cup B) = SumOf(nums, u) + SumOf(nums, B)}
<1>1. \A s \in SUBSET A : IsFiniteSet(s) /\ IsFiniteSet(s \cup B)
    BY FS_Subset, FS_Union
<1>2. \A s \in SUBSET A : SumOf(nums, s) \in Nat
    BY <1>1, SumChoice
<1>3. SumOf(nums, B) \in Nat
    BY SumChoice
<1>4. ASSUME NEW u \in SUBSET A, \A x \in u : u \ {x} \in P PROVE u \in P
    <2>1. CASE u = {}
        <3>1. SumOf(nums, {}) = 0 /\ {} \cup B = B
            BY FS_EmptySet, SumChoice
        <3> QED BY <1>3, <2>1, <3>1
    <2>2. CASE u # {}
        <3>1. PICK z \in u : TRUE
            BY <2>2
        <3>2. SumOf(nums, u) = nums[z] + SumOf(nums, u \ {z})
            <4>1. IsFiniteSet(u) /\ \A i \in u : nums[i] \in Nat
                BY <1>1
            <4> HIDE DEF P
            <4> QED BY <4>1, SumAdd
        <3>3. SumOf(nums, u \cup B) = nums[z] + SumOf(nums, (u \cup B) \ {z})
            <4>1. IsFiniteSet(u \cup B) /\ z \in u \cup B /\ \A i \in u \cup B : nums[i] \in Nat
                BY <1>1
            <4> QED BY <4>1, SumAdd
        <3>4. (u \cup B) \ {z} = (u \ {z}) \cup B
            OBVIOUS
        <3>5. SumOf(nums, (u \ {z}) \cup B) = SumOf(nums, u \ {z}) + SumOf(nums, B)
            BY <1>4
        <3>6. SumOf(nums, u \cup B) = nums[z] + (SumOf(nums, u \ {z}) + SumOf(nums, B))
            BY <3>3, <3>4, <3>5
        <3>7. nums[z] \in Nat /\ SumOf(nums, u \ {z}) \in Nat
            BY <1>2
        <3>8. SumOf(nums, u \cup B) = SumOf(nums, u) + SumOf(nums, B)
            <4> HIDE DEF P
            <4> QED BY <1>3, <3>2, <3>6, <3>7
        <3> QED BY <3>8
    <2> QED BY <2>1, <2>2
<1> HIDE DEF P
<1>5. \A u \in SUBSET A : u \in P
    BY <1>4, SetInduction
<1> QED BY <1>2, <1>3, <1>5 DEF P

(* The sum over the image of a set.                                        *)
LEMMA SumImage ==
    ASSUME NEW A, IsFiniteSet(A), NEW f, NEW g, NEW h,
           \A x \in A : f[x] \in Nat /\ g[h[x]] = f[x],
           \A x, y \in A : h[x] = h[y] => x = y
    PROVE  SumOf(g, {h[x] : x \in A}) = SumOf(f, A)
<1> DEFINE Image(u) == {h[x] : x \in u}
           P == {u \in SUBSET A : SumOf(g, Image(u)) = SumOf(f, u)}
<1>1. ASSUME NEW u \in SUBSET A
      PROVE  IsFiniteSet(u) /\ IsFiniteSet(Image(u)) /\ \A y \in Image(u) : g[y] \in Nat
    <2>1. IsFiniteSet(u)
        BY FS_Subset
    <2> QED BY <2>1, ImageIsFinite
<1>2. ASSUME NEW u \in SUBSET A, \A x \in u : u \ {x} \in P PROVE u \in P
    <2>1. CASE u = {}
        <3>1. Image(u) = {}
            BY <2>1
        <3>2. SumOf(g, {}) = 0 /\ SumOf(f, {}) = 0
            BY FS_EmptySet, SumChoice
        <3> QED BY <2>1, <3>1, <3>2
    <2>2. CASE u # {}
        <3>1. PICK z \in u : TRUE
            BY <2>2
        <3>2. SumOf(f, u) = f[z] + SumOf(f, u \ {z})
            <4>1. IsFiniteSet(u) /\ \A i \in u : f[i] \in Nat
                BY <1>1
            <4> HIDE DEF P
            <4> QED BY <4>1, SumAdd
        <3>3. SumOf(g, Image(u)) = g[h[z]] + SumOf(g, Image(u) \ {h[z]})
            <4>1. h[z] \in Image(u)
                OBVIOUS
            <4> HIDE DEF Image
            <4> QED BY <1>1, <4>1, SumAdd
        <3>4. Image(u) \ {h[z]} = Image(u \ {z})
            OBVIOUS
        <3>5. SumOf(g, Image(u \ {z})) = SumOf(f, u \ {z})
            BY <1>2
        <3>6. g[h[z]] = f[z]
            OBVIOUS
        <3>7. SumOf(g, Image(u)) = SumOf(f, u)
            <4> HIDE DEF Image, P
            <4> QED BY <3>2, <3>3, <3>4, <3>5, <3>6
        <3> QED BY <3>7
    <2> QED BY <2>1, <2>2
<1> HIDE DEF P
<1>3. \A u \in SUBSET A : u \in P
    BY <1>2, SetInduction
<1> QED BY <1>3 DEF P

(* The sum of zeros.                                                       *)
LEMMA SumZero ==
    ASSUME NEW nums, NEW A, IsFiniteSet(A), \A i \in A : nums[i] = 0
    PROVE  SumOf(nums, A) = 0
<1> DEFINE P == {u \in SUBSET A : SumOf(nums, u) = 0}
<1>1. \A s \in SUBSET A : IsFiniteSet(s)
    BY FS_Subset
<1>2. ASSUME NEW u \in SUBSET A, \A x \in u : u \ {x} \in P PROVE u \in P
    <2>1. CASE u = {}
        BY <2>1, FS_EmptySet, SumChoice
    <2>2. CASE u # {}
        <3>1. PICK z \in u : TRUE
            BY <2>2
        <3>2. SumOf(nums, u) = nums[z] + SumOf(nums, u \ {z})
            BY <1>1, SumAdd
        <3>3. SumOf(nums, u \ {z}) = 0 /\ nums[z] = 0
            BY <1>2
        <3> QED BY <3>2, <3>3
    <2> QED BY <2>1, <2>2
<1> HIDE DEF P
<1>3. \A u \in SUBSET A : u \in P
    BY <1>2, SetInduction
<1> QED BY <1>3 DEF P

-----------------------------------------------------------------------------
(* The balance                                                             *)

Credit(C) == [x \in C |-> x.credit]
Debit(C)  == [x \in C |-> x.debit]

(* What get_balance adds up.                                               *)
LEMMA TotalsAre ==
    ASSUME NEW C, C = db.changes, IsFiniteSet(C), C \subseteq ChangeRows
    PROVE  TotalCredits = SumOf(Credit(C), C) /\ TotalDebits = SumOf(Debit(C), C)
<1>1. \A x \in C : Credit(C)[x] \in Nat /\ Debit(C)[x] \in Nat
    BY DEF Credit, Debit, ChangeRows
<1>2. TotalCredits = SumOf(Credit(C), C)
    <2> DEFINE CreditSums(f) ==
                  f = [s \in SUBSET C |-> IF s = {} THEN 0
                                          ELSE (CHOOSE x \in s : TRUE).credit
                                               + f[s \ {CHOOSE x \in s : TRUE}]]
    <2>1. \A s \in SUBSET C : s # {} =>
             Credit(C)[CHOOSE x \in s : TRUE] = (CHOOSE x \in s : TRUE).credit
        BY DEF Credit
    <2>2. PICK f : SumsOf(Credit(C), C, f)
        BY <1>1, SumsExist
    <2>3. \A e : CreditSums(e) <=> SumsOf(Credit(C), C, e)
        BY <2>1 DEF SumsOf
    <2>4. TotalCredits = (CHOOSE e : CreditSums(e))[C]
        BY DEF TotalCredits, MapThenSumSet, MapThenFoldSet
    <2> HIDE DEF CreditSums
    <2>5. SumsOf(Credit(C), C, CHOOSE e : CreditSums(e))
        BY <2>2, <2>3
    <2>6. SumsOf(Credit(C), C, CHOOSE e : SumsOf(Credit(C), C, e))
        BY <2>2
    <2> QED BY <2>4, <2>5, <2>6, SumIs, SumsAgree
<1>3. TotalDebits = SumOf(Debit(C), C)
    <2> DEFINE DebitSums(f) ==
                  f = [s \in SUBSET C |-> IF s = {} THEN 0
                                          ELSE (CHOOSE x \in s : TRUE).debit
                                               + f[s \ {CHOOSE x \in s : TRUE}]]
    <2>1. \A s \in SUBSET C : s # {} =>
             Debit(C)[CHOOSE x \in s : TRUE] = (CHOOSE x \in s : TRUE).debit
        BY DEF Debit
    <2>2. PICK f : SumsOf(Debit(C), C, f)
        BY <1>1, SumsExist
    <2>3. \A e : DebitSums(e) <=> SumsOf(Debit(C), C, e)
        BY <2>1 DEF SumsOf
    <2>4. TotalDebits = (CHOOSE e : DebitSums(e))[C]
        BY DEF TotalDebits, MapThenSumSet, MapThenFoldSet
    <2> HIDE DEF DebitSums
    <2>5. SumsOf(Debit(C), C, CHOOSE e : DebitSums(e))
        BY <2>2, <2>3
    <2>6. SumsOf(Debit(C), C, CHOOSE e : SumsOf(Debit(C), C, e))
        BY <2>2
    <2> QED BY <2>4, <2>5, <2>6, SumIs, SumsAgree
<1> QED BY <1>2, <1>3

(* A change and the one that undoes it cancel out.                         *)
LEMMA ReversalsCancel ==
    ASSUME NEW C, IsFiniteSet(C), Ledger(C), NEW X, X = {x \in C : x.reversed},
           NEW R, R = {x \in C : IsReversal(x)}
    PROVE  /\ SumOf(Credit(C), X) = SumOf(Debit(C), R)
           /\ SumOf(Debit(C), X) = SumOf(Credit(C), R)
<1>1. IsFiniteSet(X) /\ C \subseteq ChangeRows
    BY FS_Subset DEF Ledger
<1>2. PICK undo : undo = [x \in X |-> CHOOSE y \in C : Undoes(y, x)]
    OBVIOUS
<1>3. ASSUME NEW x \in X PROVE undo[x] \in C /\ Undoes(undo[x], x)
    <2>1. \E y \in C : Undoes(y, x)
        BY DEF Ledger
    <2> QED BY <1>2, <2>1
<1>4. ASSUME NEW x \in X
      PROVE  /\ undo[x] \in R
             /\ undo[x].credit = x.debit /\ undo[x].debit = x.credit
    <2>1. PICK y \in C : y = undo[x] /\ Undoes(y, x)
        BY <1>3
    <2>2. x \in C /\ x.n \in Nat
        BY <1>1 DEF ChangeRows
    <2>3. IsReversal(y)
        BY <2>1, <2>2 DEF Undoes, IsReversal
    <2>4. PICK w \in C : Undoes(y, w) /\ w.credit = y.debit /\ w.debit = y.credit
        BY <2>3 DEF Ledger
    <2>5. w.row = x.row /\ w.n = x.n
        <3>1. w.n \in Nat
            BY <1>1 DEF ChangeRows
        <3> QED BY <2>1, <2>2, <2>4, <3>1 DEF Undoes
    <2>6. w = x
        BY <2>2, <2>5 DEF Ledger
    <2> QED BY <2>1, <2>3, <2>4, <2>6
<1>5. \A x, z \in X : undo[x] = undo[z] => x = z
    <2> SUFFICES ASSUME NEW x \in X, NEW z \in X, undo[x] = undo[z] PROVE x = z
        OBVIOUS
    <2>1. x \in C /\ z \in C /\ x.n \in Nat /\ z.n \in Nat
        BY <1>1 DEF ChangeRows
    <2>2. x.row = z.row /\ x.n = z.n
        BY <1>3, <2>1 DEF Undoes
    <2> QED BY <2>1, <2>2 DEF Ledger
<1>6. R = {undo[x] : x \in X}
    <2>1. ASSUME NEW y \in R PROVE \E x \in X : y = undo[x]
        <3>1. PICK x \in C : Undoes(y, x) /\ x.reversed
            BY DEF Ledger
        <3>2. x \in X /\ undo[x] = y
            BY <1>3, <3>1 DEF Ledger
        <3> QED BY <3>2
    <2> QED BY <1>4, <2>1
<1>7. PICK cr : cr = Credit(C)
    OBVIOUS
<1>8. PICK de : de = Debit(C)
    OBVIOUS
<1>9. \A x \in X : cr[x] \in Nat /\ de[undo[x]] = cr[x] /\ de[x] \in Nat /\ cr[undo[x]] = de[x]
    BY <1>1, <1>3, <1>4, <1>7, <1>8 DEF Credit, Debit, ChangeRows
<1>10. SumOf(de, R) = SumOf(cr, X)
    <2>1. \A x \in X : cr[x] \in Nat /\ de[undo[x]] = cr[x]
        BY <1>9
    <2> QED BY ONLY <1>1, <1>5, <1>6, <2>1, SumImage
<1>11. SumOf(cr, R) = SumOf(de, X)
    <2>1. \A x \in X : de[x] \in Nat /\ cr[undo[x]] = de[x]
        BY <1>9
    <2> QED BY ONLY <1>1, <1>5, <1>6, <2>1, SumImage
<1> QED BY <1>7, <1>8, <1>10, <1>11

(* The credits and the debits that count.                                  *)
CreditsOf(C) == {x \in C : Counts(x) /\ x.row \in OutputIds}
DebitsOf(C)  == {x \in C : Counts(x) /\ x.row \in InputIds}

(* What is credited is the value of the active outputs ...                 *)
LEMMA CreditsAre ==
    ASSUME NEW d, Sound(d), Finite(d), NEW A, MinedIn(d, d.tips), A = Mined(d.tips),
           NEW L, L = CreditsOf(d.changes)
    PROVE  IsFiniteSet(A) /\ SumOf(Credit(d.changes), L) = SumOf(Value, A)
<1> DEFINE rows == Active(d.outputs)
<1>1. /\ d.changes \subseteq ChangeRows /\ d.outputs \subseteq OutputRows
      /\ d.inputs \subseteq InputRows /\ IsFiniteSet(rows)
    BY FS_Subset DEF Sound, Tables, Active, Finite
<1>2. PICK credit : credit = [r \in rows |-> CHOOSE x \in d.changes :
                                                x.row = OutputId(r) /\ Counts(x)]
    OBVIOUS
<1>3. ASSUME NEW r \in rows
      PROVE  /\ credit[r] \in d.changes /\ credit[r].row = OutputId(r) /\ Counts(credit[r])
             /\ \A x \in d.changes : x.row = OutputId(r) /\ Counts(x) => x = credit[r]
             /\ OutputId(r) \in OutputIds /\ OutputId(r)[1] = r.coin
             /\ credit[r].credit = Value[r.coin] /\ Value[r.coin] \in Nat
    <2>1. r \in d.outputs /\ ~ r.deleted
        BY DEF Active
    <2>2. \E x \in d.changes : x.row = OutputId(r) /\ Counts(x)
        BY <2>1 DEF Sound, Credited
    <2>3. credit[r] \in d.changes /\ credit[r].row = OutputId(r) /\ Counts(credit[r])
        BY <1>2, <2>2
    <2>4. \A x \in d.changes : x.row = OutputId(r) /\ Counts(x) => x = credit[r]
        BY <2>1, <2>3 DEF Sound, Credited
    <2>5. OutputId(r) \in OutputIds /\ OutputId(r)[1] = r.coin /\ r.coin \in Coins
        BY <1>1, <2>1, Ids DEF OutputRows
    <2>6. credit[r].credit = Value[r.coin]
        BY <2>3, <2>5 DEF Sound, AmountsAreRight, Counts
    <2> QED BY <2>3, <2>4, <2>5, <2>6, BlockConstants DEF Coins
<1>4. L = {credit[r] : r \in rows}
    <2>1. ASSUME NEW x \in L PROVE \E r \in rows : x = credit[r]
        <3>1. PICK r \in d.outputs : x.row = OutputId(r)
            BY <1>1, Ids, IdTypes DEF Sound, ChangesAreOfRows, CreditsOf
        <3>2. r \in rows
            BY <3>1 DEF Sound, Credited, Active, CreditsOf
        <3> QED BY <1>3, <3>1, <3>2 DEF CreditsOf
    <2> QED BY <1>3, <2>1 DEF CreditsOf
<1>5. \A r, t \in rows : credit[r] = credit[t] => r = t
    <2> SUFFICES ASSUME NEW r \in rows, NEW t \in rows, credit[r] = credit[t] PROVE r = t
        OBVIOUS
    <2>1. OutputId(r) = OutputId(t) /\ r \in d.outputs /\ t \in d.outputs
        BY <1>3 DEF Active
    <2>2. r.coin = t.coin /\ r.n = t.n
        BY <1>1, <2>1, Ids
    <2> QED BY <2>1, <2>2 DEF Sound, OutputsAreKeyed
<1>6. PICK amount : amount = [r \in rows |-> Value[r.coin]]
    OBVIOUS
<1>7. PICK coin : coin = [r \in rows |-> r.coin]
    OBVIOUS
<1>8. A = {coin[r] : r \in rows}
    BY <1>7 DEF MinedIn, Mined
<1>9. \A r, t \in rows : coin[r] = coin[t] => r = t
    BY <1>7 DEF MinedIn
<1>10. \A r \in rows : /\ amount[r] \in Nat /\ Value[coin[r]] = amount[r]
                       /\ Credit(d.changes)[credit[r]] = amount[r]
    BY <1>3, <1>6, <1>7 DEF Credit
<1> HIDE DEF rows
<1>11. SumOf(Credit(d.changes), L) = SumOf(amount, rows)
    BY <1>1, <1>4, <1>5, <1>10, SumImage
<1>12. SumOf(Value, A) = SumOf(amount, rows)
    BY <1>1, <1>8, <1>9, <1>10, SumImage
<1> QED BY <1>1, <1>8, <1>11, <1>12, ImageIsFinite

(* ... and what is debited that of the spent ones among them.              *)
LEMMA DebitsAre ==
    ASSUME NEW d, Sound(d), Matches(d), Spends(d),
           NEW B, B = Mined(d.tips) \cap Spent(d.tips),
           NEW L, L = DebitsOf(d.changes)
    PROVE  SumOf(Debit(d.changes), L) = SumOf(Value, B)
<1> DEFINE rows == Active(d.inputs)
<1>1. /\ d.changes \subseteq ChangeRows /\ d.outputs \subseteq OutputRows
      /\ d.inputs \subseteq InputRows /\ IsFiniteSet(rows)
      /\ MinedIn(d, d.tips) /\ SpentIn(d, d.tips)
    BY FS_Subset DEF Sound, Tables, Active, Finite, Matches
<1>2. PICK debit : debit = [i \in rows |-> CHOOSE x \in d.changes :
                                              x.row = InputId(i) /\ Counts(x)]
    OBVIOUS
<1>3. ASSUME NEW i \in rows
      PROVE  /\ debit[i] \in d.changes /\ debit[i].row = InputId(i) /\ Counts(debit[i])
             /\ \A x \in d.changes : x.row = InputId(i) /\ Counts(x) => x = debit[i]
             /\ InputId(i) \in InputIds
             /\ debit[i].debit = Value[i.output[1]] /\ Value[i.output[1]] \in Nat
    <2>1. i \in d.inputs /\ ~ i.deleted
        BY DEF Active
    <2>2. \E x \in d.changes : x.row = InputId(i) /\ Counts(x)
        BY DEF Sound, Debited
    <2>3. debit[i] \in d.changes /\ debit[i].row = InputId(i) /\ Counts(debit[i])
        BY <1>2, <2>2
    <2>4. \A x \in d.changes : x.row = InputId(i) /\ Counts(x) => x = debit[i]
        BY <2>1, <2>3 DEF Matches, DebitedOnce
    <2>5. InputId(i) \in InputIds /\ InputId(i)[1] = i.output[1] /\ i.output[1] \in Coins
        BY <1>1, <2>1, Ids, IdTypes
    <2>6. debit[i].debit = Value[i.output[1]]
        BY <2>3, <2>5 DEF Sound, AmountsAreRight, Counts
    <2> QED BY <2>3, <2>4, <2>5, <2>6, BlockConstants DEF Coins
<1>4. L = {debit[i] : i \in rows}
    <2>1. ASSUME NEW x \in L PROVE \E i \in rows : x = debit[i]
        <3>1. PICK i \in d.inputs : x.row = InputId(i)
            BY <1>1, Ids, IdTypes DEF Sound, ChangesAreOfRows, DebitsOf
        <3>2. i \in rows
            BY <3>1 DEF Matches, DebitedOnce, Active, DebitsOf
        <3> QED BY <1>3, <3>1, <3>2 DEF DebitsOf
    <2> QED BY <1>3, <2>1 DEF DebitsOf
<1>5. \A i, j \in rows : debit[i] = debit[j] => i = j
    <2> SUFFICES ASSUME NEW i \in rows, NEW j \in rows, debit[i] = debit[j] PROVE i = j
        OBVIOUS
    <2>1. InputId(i) = InputId(j) /\ i \in d.inputs /\ j \in d.inputs
        BY <1>3 DEF Active
    <2>2. i.output = j.output /\ i.n = j.n
        BY <1>1, <2>1, Ids
    <2> QED BY <2>1, <2>2 DEF Sound, InputsAreKeyed
<1>6. ASSUME NEW i \in rows
      PROVE  \E r \in Active(d.outputs) : OutputId(r) = i.output /\ r.coin = i.output[1]
    <2>1. PICK r \in Active(d.outputs) : OutputId(r) = i.output
        BY DEF Spends
    <2>2. OutputId(r)[1] = r.coin
        BY <1>1, Ids DEF Active
    <2> QED BY <2>1, <2>2
<1>7. PICK amount : amount = [i \in rows |-> Value[i.output[1]]]
    OBVIOUS
<1>8. PICK coin : coin = [i \in rows |-> i.output[1]]
    OBVIOUS
<1>9. B = {coin[i] : i \in rows}
    <2>1. ASSUME NEW i \in rows PROVE coin[i] \in B
        <3>1. PICK r \in Active(d.outputs) : r.coin = i.output[1]
            BY <1>6
        <3>2. r.block \in d.tips /\ r.coin \in Outs[r.block]
            BY <1>1 DEF MinedIn
        <3>3. i.block \in d.tips /\ i.output[1] \in Ins[i.block]
            BY <1>1 DEF SpentIn
        <3> QED BY <1>8, <3>1, <3>2, <3>3 DEF Mined, Spent
    <2>2. ASSUME NEW c \in B PROVE \E i \in rows : c = coin[i]
        <3>1. PICK b \in d.tips : c \in Outs[b]
            BY DEF Mined
        <3>2. PICK u \in d.tips : c \in Ins[u]
            BY DEF Spent
        <3>3. PICK r \in Active(d.outputs) : r.coin = c
            BY <1>1, <3>1 DEF MinedIn
        <3>4. PICK i \in rows : i.output = OutputId(r)
            BY <1>1, <3>2, <3>3 DEF SpentIn
        <3>5. OutputId(r)[1] = r.coin
            BY <1>1, Ids DEF Active
        <3> QED BY <1>8, <3>3, <3>4, <3>5
    <2> QED BY <2>1, <2>2
<1>10. \A i, j \in rows : coin[i] = coin[j] => i = j
    <2> SUFFICES ASSUME NEW i \in rows, NEW j \in rows, coin[i] = coin[j] PROVE i = j
        OBVIOUS
    <2>1. PICK r \in Active(d.outputs) : OutputId(r) = i.output /\ r.coin = i.output[1]
        BY <1>6
    <2>2. PICK t \in Active(d.outputs) : OutputId(t) = j.output /\ t.coin = j.output[1]
        BY <1>6
    <2>3. r = t
        BY <1>1, <1>8, <2>1, <2>2 DEF MinedIn
    <2> QED BY <1>1, <2>1, <2>2, <2>3 DEF SpentIn
<1>11. \A i \in rows : /\ amount[i] \in Nat /\ Value[coin[i]] = amount[i]
                       /\ Debit(d.changes)[debit[i]] = amount[i]
    BY <1>3, <1>7, <1>8 DEF Debit
<1> HIDE DEF rows
<1>12. SumOf(Debit(d.changes), L) = SumOf(amount, rows)
    BY <1>1, <1>4, <1>5, <1>11, SumImage
<1>13. SumOf(Value, B) = SumOf(amount, rows)
    BY <1>1, <1>9, <1>10, <1>11, SumImage
<1> QED BY <1>12, <1>13

(* The changes that count, of outputs and of inputs, and the pairs that    *)
(* cancel out.                                                             *)
LEMMA LedgerSplits ==
    ASSUME NEW d, Sound(d), NEW C, C = d.changes, IsFiniteSet(C),
           NEW LO, LO = CreditsOf(C), NEW LI, LI = DebitsOf(C)
    PROVE  \E k \in Nat :
              /\ SumOf(Credit(C), LO) \in Nat /\ SumOf(Debit(C), LI) \in Nat
              /\ SumOf(Credit(C), C) = k + SumOf(Credit(C), LO)
              /\ SumOf(Debit(C), C) = k + SumOf(Debit(C), LI)
<1> USE DEF CreditsOf, DebitsOf
<1>1. PICK X : X = {x \in C : x.reversed}
    OBVIOUS
<1>2. PICK R : R = {x \in C : IsReversal(x)}
    OBVIOUS
<1>3. Ledger(C) /\ C \subseteq ChangeRows /\ IsFiniteSet(C)
    BY DEF Sound, Ledger
<1>4. /\ X \subseteq C /\ R \subseteq C /\ LO \subseteq C /\ LI \subseteq C
      /\ IsFiniteSet(X) /\ IsFiniteSet(R) /\ IsFiniteSet(LO) /\ IsFiniteSet(LI)
    BY <1>1, <1>2, <1>3, FS_Subset
<1>5. X \cap R = {} /\ LO \cap LI = {} /\ (LO \cup LI) \cap (X \cup R) = {}
    BY <1>1, <1>2, <1>3, IdTypes DEF Ledger, Counts
<1>6. C = (LO \cup LI) \cup (X \cup R)
    BY <1>1, <1>2, <1>3 DEF Counts, ChangeRows
<1>7. PICK cr : cr = Credit(C)
    OBVIOUS
<1>8. PICK de : de = Debit(C)
    OBVIOUS
<1>9. \A x \in C : cr[x] \in Nat /\ de[x] \in Nat
    BY <1>3, <1>7, <1>8 DEF Credit, Debit, ChangeRows
<1>10. SumOf(cr, X) = SumOf(de, R) /\ SumOf(de, X) = SumOf(cr, R)
    BY <1>1, <1>2, <1>3, <1>7, <1>8, ReversalsCancel
<1>11. SumOf(cr, LI) = 0 /\ SumOf(de, LO) = 0
    <2>1. \A x \in LI : cr[x] = 0
        BY <1>4, <1>7 DEF Credit, Sound, AmountsAreRight, Counts
    <2>2. \A x \in LO : de[x] = 0
        BY <1>4, <1>8 DEF Debit, Sound, AmountsAreRight, Counts
    <2> QED BY <1>4, <2>1, <2>2, SumZero
<1>12. ASSUME NEW nums, \A x \in C : nums[x] \in Nat
       PROVE  /\ SumOf(nums, LO) \in Nat /\ SumOf(nums, LI) \in Nat
              /\ SumOf(nums, X) \in Nat /\ SumOf(nums, R) \in Nat
              /\ SumOf(nums, C) = (SumOf(nums, LO) + SumOf(nums, LI))
                                  + (SumOf(nums, X) + SumOf(nums, R))
    <2>1. /\ SumOf(nums, LO) \in Nat /\ SumOf(nums, LI) \in Nat
          /\ SumOf(nums, LO \cup LI) = SumOf(nums, LO) + SumOf(nums, LI)
        <3>1. \A x \in LO \cup LI : nums[x] \in Nat
            BY <1>4, <1>12
        <3> QED BY <1>4, <1>5, <3>1, SumUnion
    <2>2. /\ SumOf(nums, X) \in Nat /\ SumOf(nums, R) \in Nat
          /\ SumOf(nums, X \cup R) = SumOf(nums, X) + SumOf(nums, R)
        <3>1. \A x \in X \cup R : nums[x] \in Nat
            BY <1>4, <1>12
        <3> QED BY <1>4, <1>5, <3>1, SumUnion
    <2>3. SumOf(nums, C) = SumOf(nums, LO \cup LI) + SumOf(nums, X \cup R)
        <3>1. IsFiniteSet(LO \cup LI) /\ IsFiniteSet(X \cup R)
            BY <1>4, FS_Union
        <3>2. \A x \in (LO \cup LI) \cup (X \cup R) : nums[x] \in Nat
            BY <1>6, <1>12
        <3>3. SumOf(nums, (LO \cup LI) \cup (X \cup R))
                 = SumOf(nums, LO \cup LI) + SumOf(nums, X \cup R)
            BY <1>5, <3>1, <3>2, SumUnion
        <3> QED BY <1>6, <3>3
    <2> QED BY <2>1, <2>2, <2>3
<1>13. /\ SumOf(cr, LO) \in Nat /\ SumOf(cr, X) \in Nat /\ SumOf(cr, R) \in Nat
       /\ SumOf(cr, C) = (SumOf(cr, LO) + SumOf(cr, LI)) + (SumOf(cr, X) + SumOf(cr, R))
    BY <1>9, <1>12
<1>14. /\ SumOf(de, LI) \in Nat
       /\ SumOf(de, C) = (SumOf(de, LO) + SumOf(de, LI)) + (SumOf(de, X) + SumOf(de, R))
    BY <1>9, <1>12
<1>15. PICK k \in Nat : k = SumOf(cr, X) + SumOf(cr, R)
    BY <1>13
<1>16. SumOf(cr, C) = k + SumOf(cr, LO)
    BY <1>11, <1>13, <1>15
<1>17. SumOf(de, C) = k + SumOf(de, LI)
    BY <1>10, <1>11, <1>13, <1>14, <1>15
<1> QED BY <1>7, <1>8, <1>13, <1>14, <1>16, <1>17

(* The balance that get_balance reads off balance_changes is the value of  *)
(* what the blocks on record have mined and not spent, after any sequence  *)
(* of scans, failures, reorganisations between scan cycles and re-scans    *)
(* that ran to their end.                                                  *)
THEOREM BalanceIsRight == Spec => []BalanceMatchesTips
<1>1. (~ torn => IInv /\ QuietInv /\ MatchInv) => BalanceMatchesTips
    <2> SUFFICES ASSUME IInv, QuietInv, MatchInv, Quiet,
                        NEW A, A = Mined(db.tips), NEW T, T = Spent(db.tips)
                 PROVE  get_balance.total = MapThenSumSet(LAMBDA c : Value[c], A \ T)
        BY DEF BalanceMatchesTips
    <2>1. PICK d : d = db
        OBVIOUS
    <2>2. PICK C : C = d.changes
        OBVIOUS
    <2>3. /\ Sound(d) /\ Spends(d) /\ Matches(d) /\ Finite(d) /\ MinedIn(d, d.tips)
          /\ IsFiniteSet(C) /\ C \subseteq ChangeRows /\ d.tips \subseteq Blocks
        BY <2>1, <2>2 DEF IInv, QuietInv, MatchInv, Matches, Finite, Sound, Tables
    <2>4. PICK LO : LO = CreditsOf(C)
        OBVIOUS
    <2>5. PICK LI : LI = DebitsOf(C)
        OBVIOUS
    <2>6. TotalCredits = SumOf(Credit(C), C) /\ TotalDebits = SumOf(Debit(C), C)
        BY <2>1, <2>2, <2>3, TotalsAre
    <2>7. \E k \in Nat :
             /\ SumOf(Credit(C), LO) \in Nat /\ SumOf(Debit(C), LI) \in Nat
             /\ SumOf(Credit(C), C) = k + SumOf(Credit(C), LO)
             /\ SumOf(Debit(C), C) = k + SumOf(Debit(C), LI)
        BY <2>2, <2>3, <2>4, <2>5, LedgerSplits
    <2>8. IsFiniteSet(A) /\ SumOf(Credit(C), LO) = SumOf(Value, A)
        BY <2>1, <2>2, <2>3, <2>4, CreditsAre
    <2>9. SumOf(Debit(C), LI) = SumOf(Value, A \cap T)
        BY <2>1, <2>2, <2>3, <2>5, DebitsAre
    <2>10. PICK k \in Nat : /\ TotalCredits = k + SumOf(Value, A)
                            /\ TotalDebits = k + SumOf(Value, A \cap T)
        BY <2>6, <2>7, <2>8, <2>9
    <2>11. /\ SumOf(Value, A \ T) \in Nat /\ SumOf(Value, A \cap T) \in Nat
           /\ SumOf(Value, A) = SumOf(Value, A \ T) + SumOf(Value, A \cap T)
        <3>1. IsFiniteSet(A \ T) /\ IsFiniteSet(A \cap T)
            BY <2>8, FS_Subset
        <3>2. \A c \in A : Value[c] \in Nat
            BY <2>1, <2>3, BlockConstants DEF Mined
        <3>3. (A \ T) \cap (A \cap T) = {} /\ (A \ T) \cup (A \cap T) = A
            OBVIOUS
        <3>4. /\ SumOf(Value, A \ T) \in Nat /\ SumOf(Value, A \cap T) \in Nat
              /\ SumOf(Value, (A \ T) \cup (A \cap T))
                    = SumOf(Value, A \ T) + SumOf(Value, A \cap T)
            <4>1. \A c \in (A \ T) \cup (A \cap T) : Value[c] \in Nat
                BY <3>2
            <4> QED BY ONLY <3>1, <3>3, <4>1, SumUnion
        <3> QED BY <3>3, <3>4
    <2>12. get_balance.total = Monus(TotalCredits, TotalDebits)
        BY DEF get_balance
    <2>13. Monus(TotalCredits, TotalDebits) = SumOf(Value, A \ T)
        BY <2>10, <2>11 DEF Monus
    <2> QED BY <2>12, <2>13 DEF SumOf
<1>2. (~ torn => IInv) /\ (~ torn => QuietInv /\ MatchInv) /\ [Next]_vars
      => (~ torn => QuietInv /\ MatchInv)'
    BY QuietStep, MatchStep, TornForGood
<1> QED BY <1>1, <1>2, QuietInit, MatchInit, Invariance, PTL DEF Spec
=============================================================================
