------------------------- MODULE WebhookQueueProofs -------------------------
(***************************************************************************)
(* Proofs about WebhookQueue for any number of events, any batch size and  *)
(* any attempt limit.                                                      *)
(***************************************************************************)
EXTENDS WebhookQueue, TLAPS

Distinct(s) == \A j, k \in 1 .. Len(s) : j # k => s[j] # s[k]

(* What remains of a list without repetitions when a row is taken out: the *)
(* other rows, once each.                                                  *)
LEMMA WithoutRow ==
    ASSUME NEW S, NEW s \in Seq(S), NEW e, Distinct(s)
    PROVE  /\ Without(s, e) \in Seq(S)
           /\ Distinct(Without(s, e))
           /\ \A k \in 1 .. Len(Without(s, e)) :
                 /\ Without(s, e)[k] # e
                 /\ \E j \in 1 .. Len(s) : Without(s, e)[k] = s[j]
<1>1. CASE \E k \in DOMAIN s : s[k] = e
    <2> DEFINE p == CHOOSE k \in DOMAIN s : s[k] = e
               w == [k \in 1 .. (Len(s) - 1) |-> IF k < p THEN s[k] ELSE s[k + 1]]
    <2>1. p \in 1 .. Len(s) /\ s[p] = e
        BY <1>1
    <2>2. Without(s, e) = w
        BY <1>1 DEF Without
    <2> HIDE DEF p
    <2>3. Len(s) \in Nat /\ Len(s) - 1 \in Nat /\ p \in Nat
        BY <2>1
    <2>4. w \in Seq(S) /\ Len(w) = Len(s) - 1
        BY <2>1, <2>3
    <2>5. \A k \in 1 .. Len(w) : w[k] = IF k < p THEN s[k] ELSE s[k + 1]
        BY <2>4
    <2> HIDE DEF w
    <2>6. Distinct(w)
        BY <2>1, <2>3, <2>4, <2>5 DEF Distinct
    <2>7. \A k \in 1 .. Len(w) : w[k] # e /\ \E j \in 1 .. Len(s) : w[k] = s[j]
        BY <2>1, <2>3, <2>4, <2>5 DEF Distinct
    <2> QED BY <2>2, <2>4, <2>6, <2>7
<1>2. CASE ~ \E k \in DOMAIN s : s[k] = e
    BY <1>2 DEF Without
<1> QED BY <1>1, <1>2

(* Head and tail of a sequence that is not empty.                          *)
LEMMA HeadAndTail ==
    ASSUME NEW S, NEW s \in Seq(S), s # <<>>
    PROVE  /\ Len(s) \in Nat /\ Len(s) >= 1
           /\ s[1] \in S /\ Head(s) = s[1]
           /\ Tail(s) \in Seq(S)
           /\ Len(Tail(s)) \in Nat /\ Len(Tail(s)) = Len(s) - 1
           /\ \A k \in 1 .. Len(Tail(s)) : Tail(s)[k] = s[k + 1]
           /\ Len(s) > 1 => Tail(s) # <<>>
<1>1. Len(s) \in Nat /\ Len(s) >= 1
    OBVIOUS
<1>2. s[1] \in S /\ Head(s) = s[1]
    BY <1>1
<1>3. Tail(s) \in Seq(S) /\ Len(Tail(s)) = Len(s) - 1
    OBVIOUS
<1>4. \A k \in 1 .. Len(Tail(s)) : Tail(s)[k] = s[k + 1]
    BY <1>1, <1>3
<1>5. Len(s) > 1 => Tail(s) # <<>>
    <2> DEFINE t == Tail(s)
    <2>1. Len(<<>>) = 0
        OBVIOUS
    <2>2. Len(t) = Len(s) - 1
        BY <1>3
    <2> HIDE DEF t
    <2>3. t = <<>> => Len(t) = 0
        BY <2>1
    <2> QED BY <1>1, <2>2, <2>3 DEF t
<1> QED BY <1>1, <1>2, <1>3, <1>4, <1>5

(* The members of a sequence.                                              *)
LEMMA MemberOf ==
    ASSUME NEW S, NEW s \in Seq(S)
    PROVE  \A k \in 1 .. Len(s) : s[k] \in S
OBVIOUS

(* A list without repetitions grows by a row that is not in it.            *)
LEMMA AppendRow ==
    ASSUME NEW S, NEW s \in Seq(S), NEW e \in S, Distinct(s),
           \A k \in 1 .. Len(s) : s[k] # e
    PROVE  /\ Append(s, e) \in Seq(S)
           /\ Distinct(Append(s, e))
           /\ \A k \in 1 .. Len(Append(s, e)) :
                 \/ Append(s, e)[k] = e
                 \/ \E j \in 1 .. Len(s) : Append(s, e)[k] = s[j]
<1> DEFINE a == Append(s, e)
<1>1. /\ Len(s) \in Nat /\ Len(a) = Len(s) + 1 /\ a \in Seq(S)
      /\ a[Len(s) + 1] = e /\ \A k \in 1 .. Len(s) : a[k] = s[k]
    OBVIOUS
<1> HIDE DEF a
<1>2. ASSUME NEW k \in 1 .. Len(a) PROVE k = Len(s) + 1 \/ k \in 1 .. Len(s)
    BY <1>1
<1>3. ASSUME NEW j \in 1 .. Len(a), NEW k \in 1 .. Len(a), j # k PROVE a[j] # a[k]
    <2>1. CASE j \in 1 .. Len(s) /\ k \in 1 .. Len(s)
        BY <1>1, <1>3, <2>1 DEF Distinct
    <2>2. CASE j = Len(s) + 1 /\ k \in 1 .. Len(s)
        BY <1>1, <2>2
    <2>3. CASE j \in 1 .. Len(s) /\ k = Len(s) + 1
        BY <1>1, <2>3
    <2> QED BY <1>2, <1>3, <2>1, <2>2, <2>3
<1>4. Distinct(a)
    BY <1>3 DEF Distinct
<1>5. \A k \in 1 .. Len(a) : a[k] = e \/ \E j \in 1 .. Len(s) : a[k] = s[j]
    BY <1>1, <1>2
<1> QED BY <1>1, <1>4, <1>5 DEF a

DistinctIds(b) == \A j, k \in 1 .. Len(b) : j # k => b[j].id # b[k].id

(* When the worker has done with the first item, the others are left, once *)
(* each.                                                                   *)
LEMMA NextItems ==
    ASSUME NEW S, NEW b \in Seq(S), b # <<>>, DistinctIds(b)
    PROVE  /\ DistinctIds(Tail(b))
           /\ \A k \in 1 .. Len(Tail(b)) :
                 /\ Tail(b)[k].id # Head(b).id
                 /\ \E j \in 1 .. Len(b) : Tail(b)[k] = b[j]
<1> DEFINE t == Tail(b)
<1>1. /\ Len(b) \in Nat /\ Len(b) >= 1 /\ Head(b) = b[1]
      /\ Len(t) \in Nat /\ Len(t) = Len(b) - 1
      /\ \A k \in 1 .. Len(t) : t[k] = b[k + 1]
    BY HeadAndTail
<1> HIDE DEF t
<1>2. ASSUME NEW k \in 1 .. Len(t)
      PROVE  /\ k + 1 \in 1 .. Len(b) /\ k + 1 # 1 /\ 1 \in 1 .. Len(b)
             /\ t[k] = b[k + 1]
    BY <1>1
<1>3. ASSUME NEW j \in 1 .. Len(t), NEW k \in 1 .. Len(t), j # k PROVE t[j].id # t[k].id
    <2>1. j + 1 # k + 1
        BY <1>1, <1>3
    <2>2. b[j + 1].id # b[k + 1].id
        BY <1>2, <2>1 DEF DistinctIds
    <2> QED BY <1>2, <2>2
<1>4. ASSUME NEW k \in 1 .. Len(t)
      PROVE  t[k].id # Head(b).id /\ \E j \in 1 .. Len(b) : t[k] = b[j]
    <2>1. b[k + 1].id # b[1].id
        BY <1>2 DEF DistinctIds
    <2> QED BY <1>1, <1>2, <2>1
<1>5. DistinctIds(t)
    BY <1>3 DEF DistinctIds
<1> QED BY <1>4, <1>5 DEF t

-----------------------------------------------------------------------------
(* The inductive invariant.                                                *)

(* A row that can be fetched is open and stands in one line, once.         *)
LinesHoldOpenRows ==
    /\ Distinct(due)
    /\ \A k \in 1 .. Len(due) : status[due[k]] \in Active /\ due[k] \notin waiting
    /\ \A e \in waiting : status[e] \in Active

(* What the worker has in memory is what the rows still say.               *)
BatchIsFresh ==
    /\ DistinctIds(batch)
    /\ \A k \in 1 .. Len(batch) :
          /\ status[batch[k].id] \in Active /\ batch[k].id \notin waiting
          /\ batch[k].attempts = attempts[batch[k].id]

(* The result in hand is what the receiver has answered.                   *)
ResultIsReal ==
    /\ pc # "idle" => batch # <<>>
    /\ pc = "record" /\ result = "Success" => Head(batch).id \in accepted
    /\ pc = "record" /\ result = "PermanentFailure" => Head(batch).id \in rejected

(* No attempt is on record for an event without a row.                     *)
NewRowsStartAtZero == \A e \in Events : status[e] = "none" => attempts[e] = 0

QInv ==
    /\ TypeOK
    /\ LinesHoldOpenRows
    /\ BatchIsFresh
    /\ ResultIsReal
    /\ NewRowsStartAtZero
    /\ CallsAreCounted
    /\ AttemptsAreLimited

USE DEF Active, WebhookStatus, DeliveryResult

(* The empty queue satisfies the invariant.                                *)
LEMMA InitQInv == Init => QInv
<1> SUFFICES ASSUME Init PROVE QInv
    OBVIOUS
<1>1. TypeOK
    BY DEF Init, TypeOK
<1>2. LinesHoldOpenRows /\ BatchIsFresh /\ ResultIsReal
    BY DEF Init, LinesHoldOpenRows, Distinct, BatchIsFresh, DistinctIds, ResultIsReal
<1>3. NewRowsStartAtZero /\ CallsAreCounted /\ AttemptsAreLimited
    BY LimitsAssumption DEF Init, NewRowsStartAtZero, CallsAreCounted, AttemptsAreLimited, InHand
<1> QED BY <1>1, <1>2, <1>3 DEF QInv

(* Every step preserves the invariant.                                     *)
LEMMA NextQInv == QInv /\ [Next]_vars => QInv'
<1> SUFFICES ASSUME QInv, [Next]_vars PROVE QInv'
    OBVIOUS
<1> USE LimitsAssumption, WantedAssumption
<1> USE DEF QInv, TypeOK, rows, receiver
<1>0. \A k \in 1 .. Len(batch) : batch[k].id \in Events
    <2>1. batch \in Seq([id : Events, attempts : Nat])
        OBVIOUS
    <2> HIDE DEF QInv, TypeOK
    <2>2. \A k \in 1 .. Len(batch) : batch[k] \in [id : Events, attempts : Nat]
        BY <2>1, MemberOf
    <2> QED BY <2>2
<1>1. ASSUME NEW e \in Events, Enqueue(e) PROVE QInv'
    <2>1. /\ status[e] = "none"
          /\ status' = [status EXCEPT ![e] = "pending"]
          /\ due' = Append(due, e)
          /\ UNCHANGED <<attempts, waiting, batch, pc, result, accepted, rejected, posts, lost>>
        BY <1>1 DEF Enqueue
    <2>2. TypeOK'
        BY <2>1
    <2>3. LinesHoldOpenRows'
        <3>1. /\ \A k \in 1 .. Len(due) : due[k] # e
              /\ e \notin waiting /\ Distinct(due)
            BY <2>1 DEF LinesHoldOpenRows
        <3>2. /\ Distinct(due')
              /\ \A k \in 1 .. Len(due') :
                    due'[k] = e \/ \E j \in 1 .. Len(due) : due'[k] = due[j]
            <4>1. due \in Seq(Events)
                OBVIOUS
            <4> HIDE DEF QInv, TypeOK
            <4> QED BY <2>1, <3>1, <4>1, AppendRow
        <3>3. \A j \in 1 .. Len(due) :
                 due[j] \in Events /\ status[due[j]] \in Active /\ due[j] \notin waiting
            BY DEF LinesHoldOpenRows
        <3>4. \A d \in Events : status[d] \in Active \/ d = e => status'[d] \in Active
            BY <2>1
        <3>5. \A k \in 1 .. Len(due') : status'[due'[k]] \in Active /\ due'[k] \notin waiting'
            BY <2>1, <3>1, <3>2, <3>3, <3>4
        <3>6. \A d \in waiting' : status'[d] \in Active
            BY <2>1, <3>4 DEF LinesHoldOpenRows
        <3> QED BY <3>2, <3>5, <3>6 DEF LinesHoldOpenRows
    <2>5. BatchIsFresh' /\ ResultIsReal'
        <3>1. \A d \in Events : status[d] \in Active => status'[d] \in Active
            BY <2>1
        <3>2. \A k \in 1 .. Len(batch) : batch[k].id \in Events
            BY <1>0
        <3>3. BatchIsFresh'
            BY <2>1, <3>1, <3>2 DEF BatchIsFresh, DistinctIds
        <3>4. ResultIsReal'
            BY <2>1 DEF ResultIsReal
        <3> QED BY <3>3, <3>4
    <2>6. NewRowsStartAtZero'
        BY <2>1 DEF NewRowsStartAtZero
    <2>7. CallsAreCounted'
        BY <2>1 DEF CallsAreCounted, InHand
    <2>8. AttemptsAreLimited'
        BY <2>1 DEF AttemptsAreLimited, NewRowsStartAtZero
    <2> QED BY <2>2, <2>3, <2>5, <2>6, <2>7, <2>8
<1>2. ASSUME NEW e \in Events, BackoffElapses(e) PROVE QInv'
    <2>1. /\ e \in waiting
          /\ waiting' = waiting \ {e}
          /\ due' = Append(due, e)
          /\ UNCHANGED <<status, attempts, batch, pc, result, accepted, rejected, posts, lost>>
        BY <1>2 DEF BackoffElapses
    <2>2. TypeOK'
        BY <2>1
    <2>3. LinesHoldOpenRows'
        <3>1. Distinct(due) /\ \A k \in 1 .. Len(due) : due[k] # e
            BY <2>1 DEF LinesHoldOpenRows
        <3>2. /\ Distinct(due')
              /\ \A k \in 1 .. Len(due') :
                    due'[k] = e \/ \E j \in 1 .. Len(due) : due'[k] = due[j]
            <4>1. due \in Seq(Events)
                OBVIOUS
            <4> HIDE DEF QInv, TypeOK
            <4> QED BY <2>1, <3>1, <4>1, AppendRow
        <3>3. \A k \in 1 .. Len(due') : status'[due'[k]] \in Active /\ due'[k] \notin waiting'
            BY <2>1, <3>2 DEF LinesHoldOpenRows
        <3>4. \A d \in waiting' : status'[d] \in Active
            BY <2>1 DEF LinesHoldOpenRows
        <3> QED BY <3>2, <3>3, <3>4 DEF LinesHoldOpenRows
    <2>4. BatchIsFresh' /\ ResultIsReal'
        BY <2>1 DEF BatchIsFresh, DistinctIds, ResultIsReal
    <2>5. NewRowsStartAtZero' /\ CallsAreCounted' /\ AttemptsAreLimited'
        BY <2>1 DEF NewRowsStartAtZero, CallsAreCounted, AttemptsAreLimited, InHand
    <2> QED BY <2>2, <2>3, <2>4, <2>5
<1>3. CASE FetchBatch
    <2> DEFINE n == IF Len(due) < BatchSize THEN Len(due) ELSE BatchSize
    <2>1. /\ pc = "idle" /\ due # <<>> /\ pc' = "send"
          /\ batch' = [k \in 1 .. n |-> [id |-> due[k], attempts |-> attempts[due[k]]]]
          /\ UNCHANGED <<status, attempts, due, waiting, result, accepted, rejected, posts, lost>>
        BY <1>3 DEF FetchBatch, fetch_due_webhooks
    <2>2. n \in Nat /\ n <= Len(due) /\ n > 0 /\ Len(due) \in Nat
        BY <2>1
    <2> HIDE DEF n
    <2>3. batch' \in Seq([id : Events, attempts : Nat]) /\ Len(batch') = n
        BY <2>1, <2>2
    <2>4. \A k \in 1 .. n : /\ k \in 1 .. Len(due) /\ due[k] \in Events
                            /\ batch'[k].id = due[k]
                            /\ batch'[k].attempts = attempts[due[k]]
        BY <2>1, <2>2
    <2>5. TypeOK'
        BY <2>1, <2>3
    <2>6. LinesHoldOpenRows' /\ NewRowsStartAtZero'
        BY <2>1 DEF LinesHoldOpenRows, Distinct, NewRowsStartAtZero
    <2>7. BatchIsFresh'
        <3>1. \A k \in 1 .. Len(batch') :
                 /\ status'[batch'[k].id] \in Active /\ batch'[k].id \notin waiting'
                 /\ batch'[k].attempts = attempts'[batch'[k].id]
            BY <2>1, <2>3, <2>4 DEF LinesHoldOpenRows
        <3>2. DistinctIds(batch')
            BY <2>3, <2>4 DEF LinesHoldOpenRows, Distinct, DistinctIds
        <3> QED BY <3>1, <3>2 DEF BatchIsFresh
    <2>8. ResultIsReal'
        <3>1. batch' # <<>>
            BY <2>2, <2>3
        <3> QED BY <2>1, <3>1 DEF ResultIsReal
    <2>9. CallsAreCounted' /\ AttemptsAreLimited'
        BY <2>1 DEF CallsAreCounted, AttemptsAreLimited, InHand
    <2> QED BY <2>5, <2>6, <2>7, <2>8, <2>9
<1>4. CASE Send
    <2> DEFINE e == Head(batch).id
    <2>1. /\ pc = "send" /\ pc' = "record"
          /\ posts' = [posts EXCEPT ![e] = posts[e] + 1]
          /\ UNCHANGED <<status, attempts, due, waiting, batch, lost>>
        BY <1>4 DEF Send
    <2>2. \/ result' = "Success" /\ accepted' = accepted \cup {e} /\ rejected' = rejected
          \/ result' = "PermanentFailure" /\ rejected' = rejected \cup {e} /\ accepted' = accepted
          \/ result' = "RetryableFailure" /\ rejected' = rejected /\ accepted' = accepted
        BY <1>4 DEF Send
    <2>3. batch # <<>>
        BY <2>1 DEF ResultIsReal
    <2>4. e \in Events
        <3>1. batch[1] \in [id : Events, attempts : Nat] /\ Head(batch) = batch[1]
            BY <2>3, HeadAndTail
        <3> QED BY <3>1
    <2>5. \A d \in Events : /\ InHand(d) = 0
                            /\ InHand(d)' = IF d = e THEN 1 ELSE 0
                            /\ posts'[d] = IF d = e THEN posts[d] + 1 ELSE posts[d]
        BY <2>1, <2>4 DEF InHand
    <2>6. ResultIsReal'
        BY <2>1, <2>2, <2>3 DEF ResultIsReal
    <2> HIDE DEF e
    <2>7. TypeOK'
        BY <2>1, <2>2, <2>4
    <2>8. LinesHoldOpenRows' /\ BatchIsFresh' /\ NewRowsStartAtZero'
        BY <2>1 DEF LinesHoldOpenRows, Distinct, BatchIsFresh, DistinctIds, NewRowsStartAtZero
    <2>9. CallsAreCounted'
        <3> SUFFICES ASSUME NEW d \in Events
                     PROVE  /\ attempts'[d] + InHand(d)' <= posts'[d]
                            /\ posts'[d] <= attempts'[d] + InHand(d)' + lost'
            BY DEF CallsAreCounted
        <3>1. attempts[d] + InHand(d) <= posts[d] /\ posts[d] <= attempts[d] + InHand(d) + lost
            BY DEF CallsAreCounted
        <3>2. attempts[d] \in Nat /\ posts[d] \in Nat /\ lost \in Nat
            OBVIOUS
        <3> QED BY <2>1, <2>5, <3>1, <3>2
    <2>10. AttemptsAreLimited'
        BY <2>1 DEF AttemptsAreLimited
    <2> QED BY <2>6, <2>7, <2>8, <2>9, <2>10
<1>5. CASE Record
    <2> DEFINE e == Head(batch).id
               n == Head(batch).attempts + 1
               s == NewStatus(result, n)
    <2>1. /\ pc = "record"
          /\ update_webhook_status(e, s, n)
          /\ batch' = Tail(batch)
          /\ pc' = IF Len(batch) > 1 THEN "send" ELSE "idle"
          /\ UNCHANGED <<result, accepted, rejected, posts, lost>>
        BY <1>5 DEF Record, NextItem
    <2>2. batch # <<>>
        BY <2>1 DEF ResultIsReal
    <2>3. /\ Len(batch) \in Nat /\ Len(batch) >= 1
          /\ batch[1] \in [id : Events, attempts : Nat] /\ Head(batch) = batch[1]
        BY <2>2, HeadAndTail
    <2>4. e \in Events /\ n \in Nat
        BY <2>3
    <2>5. status[e] \in Active /\ e \notin waiting /\ n = attempts[e] + 1
        BY <2>3 DEF BatchIsFresh
    <2>6. s \in {"success", "permanent_failure", "failed"}
        BY DEF NewStatus
    <2>7. s = "failed" => n < MaxAttempts
        <3>1. s = "failed" => ~ calculate_backoff(n)
            BY DEF NewStatus
        <3> HIDE DEF n
        <3> QED BY <2>4, <3>1 DEF calculate_backoff
    <2>8. n <= MaxAttempts
        BY <2>4, <2>5 DEF AttemptsAreLimited
    <2>9. /\ status'   = [status EXCEPT ![e] = s]
          /\ attempts' = [attempts EXCEPT ![e] = n]
          /\ due'      = Without(due, e)
          /\ waiting'  = IF s = "failed" THEN waiting \cup {e} ELSE waiting
        BY <2>1 DEF update_webhook_status
    <2>10. /\ batch' \in Seq([id : Events, attempts : Nat])
           /\ Len(batch) > 1 => batch' # <<>>
        BY <2>1, <2>2, HeadAndTail
    <2>11. /\ DistinctIds(batch')
           /\ \A k \in 1 .. Len(batch') :
                 batch'[k].id # e /\ \E j \in 1 .. Len(batch) : batch'[k] = batch[j]
        <3>1. DistinctIds(batch)
            BY DEF BatchIsFresh
        <3> QED BY <2>1, <2>2, <3>1, NextItems
    <2>12. pc' \in {"idle", "send"} /\ (pc' = "send" => batch' # <<>>)
        BY <2>1, <2>10
    <2>13. \A d \in Events : InHand(d)' = 0 /\ InHand(d) = IF d = e THEN 1 ELSE 0
        BY <2>1, <2>12 DEF InHand
    <2> HIDE DEF e, n, s
    <2>14. /\ due' \in Seq(Events)
           /\ Distinct(due')
           /\ \A k \in 1 .. Len(due') :
                 due'[k] # e /\ \E j \in 1 .. Len(due) : due'[k] = due[j]
        <3>1. Distinct(due) /\ due \in Seq(Events)
            BY DEF LinesHoldOpenRows
        <3> HIDE DEF QInv, TypeOK
        <3> QED BY <2>9, <3>1, WithoutRow
    <2>15. TypeOK'
        BY <2>1, <2>4, <2>6, <2>9, <2>10, <2>12, <2>14
    <2>16. LinesHoldOpenRows'
        <3>1. ASSUME NEW k \in 1 .. Len(due')
              PROVE  status'[due'[k]] \in Active /\ due'[k] \notin waiting'
            <4>1. due'[k] # e /\ \E j \in 1 .. Len(due) : due'[k] = due[j]
                BY <2>14
            <4>2. PICK j \in 1 .. Len(due) : due'[k] = due[j]
                BY <4>1
            <4>3. due[j] \in Events
                OBVIOUS
            <4>4. status[due[j]] \in Active /\ due[j] \notin waiting
                BY DEF LinesHoldOpenRows
            <4> QED BY <2>4, <2>9, <4>1, <4>2, <4>3, <4>4
        <3>2. ASSUME NEW d \in waiting' PROVE status'[d] \in Active
            <4>1. CASE d = e
                <5>1. s = "failed"
                    BY <2>5, <2>9, <4>1
                <5> QED BY <2>4, <2>9, <4>1, <5>1
            <4>2. CASE d # e
                <5>1. d \in waiting
                    BY <2>9, <4>2
                <5>2. status[d] \in Active /\ d \in Events
                    BY <5>1 DEF LinesHoldOpenRows
                <5> QED BY <2>4, <2>9, <4>2, <5>2
            <4> QED BY <4>1, <4>2
        <3> QED BY <2>14, <3>1, <3>2 DEF LinesHoldOpenRows
    <2>17. BatchIsFresh'
        <3> SUFFICES ASSUME NEW k \in 1 .. Len(batch')
                     PROVE  /\ status'[batch'[k].id] \in Active /\ batch'[k].id \notin waiting'
                            /\ batch'[k].attempts = attempts'[batch'[k].id]
            BY <2>11 DEF BatchIsFresh
        <3>1. PICK j \in 1 .. Len(batch) : batch'[k] = batch[j] /\ batch[j].id # e
            BY <2>11
        <3>2. batch[j].id \in Events
            BY <1>0
        <3>3. /\ status[batch[j].id] \in Active /\ batch[j].id \notin waiting
              /\ batch[j].attempts = attempts[batch[j].id]
            BY DEF BatchIsFresh
        <3> QED BY <2>4, <2>9, <3>1, <3>2, <3>3
    <2>18. ResultIsReal'
        BY <2>12 DEF ResultIsReal
    <2>19. CallsAreCounted'
        <3> SUFFICES ASSUME NEW d \in Events
                     PROVE  /\ attempts'[d] + InHand(d)' <= posts'[d]
                            /\ posts'[d] <= attempts'[d] + InHand(d)' + lost'
            BY DEF CallsAreCounted
        <3>1. attempts'[d] = IF d = e THEN attempts[d] + 1 ELSE attempts[d]
            BY <2>4, <2>5, <2>9
        <3>2. /\ attempts[d] + InHand(d) <= posts[d]
              /\ posts[d] <= attempts[d] + InHand(d) + lost
            BY DEF CallsAreCounted
        <3>3. attempts[d] \in Nat /\ posts[d] \in Nat /\ lost \in Nat
            OBVIOUS
        <3>4. posts'[d] = posts[d] /\ lost' = lost
            BY <2>1
        <3>5. CASE d = e
            BY <2>13, <3>1, <3>2, <3>3, <3>4, <3>5
        <3>6. CASE d # e
            BY <2>13, <3>1, <3>2, <3>3, <3>4, <3>6
        <3> QED BY <3>5, <3>6
    <2>20. AttemptsAreLimited' /\ NewRowsStartAtZero'
        BY <2>4, <2>6, <2>7, <2>8, <2>9 DEF AttemptsAreLimited, NewRowsStartAtZero
    <2> QED BY <2>15, <2>16, <2>17, <2>18, <2>19, <2>20
<1>6. CASE RecordFails
    <2>1. /\ pc = "record"
          /\ batch' = Tail(batch)
          /\ pc' = IF Len(batch) > 1 THEN "send" ELSE "idle"
          /\ lost' = lost + 1
          /\ UNCHANGED <<status, attempts, due, waiting, result, accepted, rejected, posts>>
        BY <1>6 DEF RecordFails, NextItem
    <2>2. batch # <<>>
        BY <2>1 DEF ResultIsReal
    <2>3. /\ batch' \in Seq([id : Events, attempts : Nat])
          /\ Len(batch) > 1 => batch' # <<>>
        BY <2>1, <2>2, HeadAndTail
    <2>4. pc' \in {"idle", "send"} /\ (pc' = "send" => batch' # <<>>)
        BY <2>1, <2>3
    <2>5. TypeOK'
        <3>1. lost' \in Nat /\ pc' \in {"idle", "send", "record"}
            BY <2>1, <2>4
        <3>2. UNCHANGED <<status, attempts, due, waiting, result, accepted, rejected, posts>>
            BY <2>1
        <3> QED BY <2>3, <3>1, <3>2
    <2>6. LinesHoldOpenRows' /\ NewRowsStartAtZero' /\ AttemptsAreLimited'
        BY <2>1 DEF LinesHoldOpenRows, Distinct, NewRowsStartAtZero, AttemptsAreLimited
    <2>7. BatchIsFresh'
        <3>1. /\ DistinctIds(batch')
              /\ \A k \in 1 .. Len(batch') : \E j \in 1 .. Len(batch) : batch'[k] = batch[j]
            <4>1. DistinctIds(batch)
                BY DEF BatchIsFresh
            <4> QED BY <2>1, <2>2, <4>1, NextItems
        <3>2. \A k \in 1 .. Len(batch') :
                 /\ status'[batch'[k].id] \in Active /\ batch'[k].id \notin waiting'
                 /\ batch'[k].attempts = attempts'[batch'[k].id]
            <4> SUFFICES ASSUME NEW k \in 1 .. Len(batch')
                         PROVE  /\ status'[batch'[k].id] \in Active
                                /\ batch'[k].id \notin waiting'
                                /\ batch'[k].attempts = attempts'[batch'[k].id]
                OBVIOUS
            <4>1. PICK j \in 1 .. Len(batch) : batch'[k] = batch[j]
                BY <3>1
            <4>2. /\ status[batch[j].id] \in Active /\ batch[j].id \notin waiting
                  /\ batch[j].attempts = attempts[batch[j].id]
                BY DEF BatchIsFresh
            <4>3. UNCHANGED <<status, attempts, waiting>>
                BY <2>1
            <4> HIDE DEF QInv, TypeOK
            <4> QED BY <4>1, <4>2, <4>3
        <3> QED BY <3>1, <3>2 DEF BatchIsFresh
    <2>8. ResultIsReal'
        BY <2>4 DEF ResultIsReal
    <2>9. CallsAreCounted'
        BY <2>1, <2>4 DEF CallsAreCounted, InHand
    <2> QED BY <2>5, <2>6, <2>7, <2>8, <2>9
<1>7. CASE Crash
    <2> USE <1>7 DEF Crash
    <2>1. TypeOK'
        OBVIOUS
    <2>2. LinesHoldOpenRows' /\ BatchIsFresh' /\ ResultIsReal'
        BY DEF LinesHoldOpenRows, Distinct, BatchIsFresh, DistinctIds, ResultIsReal
    <2>3. NewRowsStartAtZero' /\ CallsAreCounted' /\ AttemptsAreLimited'
        BY DEF NewRowsStartAtZero, CallsAreCounted, AttemptsAreLimited, InHand
    <2> QED BY <2>1, <2>2, <2>3
<1>8. CASE UNCHANGED vars
    <2>1. TypeOK'
        BY <1>8 DEF vars
    <2>2. LinesHoldOpenRows' /\ BatchIsFresh' /\ ResultIsReal'
        BY <1>8 DEF vars, LinesHoldOpenRows, Distinct, BatchIsFresh, DistinctIds, ResultIsReal
    <2>3. NewRowsStartAtZero' /\ CallsAreCounted' /\ AttemptsAreLimited'
        BY <1>8 DEF vars, NewRowsStartAtZero, CallsAreCounted, AttemptsAreLimited, InHand
    <2> QED BY <2>1, <2>2, <2>3
<1> QED BY <1>1, <1>2, <1>3, <1>4, <1>5, <1>6, <1>7, <1>8 DEF Next, WorkerStep

(* The invariant holds always.                                             *)
LEMMA AlwaysQInv == Spec => []QInv
<1>1. Init => QInv
    BY InitQInv
<1>2. QInv /\ [Next]_vars => QInv'
    BY NextQInv
<1> QED BY <1>1, <1>2, PTL DEF Spec

-----------------------------------------------------------------------------
(* Every variable keeps its type: process_item only writes statuses that   *)
(* fetch_due_webhooks knows.                                               *)
THEOREM TypeCorrect == Spec => []TypeOK
<1>1. QInv => TypeOK
    BY DEF QInv
<1> QED BY <1>1, AlwaysQInv, PTL

(* attempt_count counts the calls, whatever the batch size, the number of  *)
(* rows and the point at which updates fail or the process dies.           *)
THEOREM CallsCounted == Spec => []CallsAreCounted
<1>1. QInv => CallsAreCounted
    BY DEF QInv
<1> QED BY <1>1, AlwaysQInv, PTL

(* No row is retried once MAX_ATTEMPTS attempts are on record.             *)
THEOREM AttemptsLimited == Spec => []AttemptsAreLimited
<1>1. QInv => AttemptsAreLimited
    BY DEF QInv
<1> QED BY <1>1, AlwaysQInv, PTL

-----------------------------------------------------------------------------
(* The refinement.                                                         *)

(* How a status column changed for one row changes the abstract outcome.   *)
LEMMA OutcomeOfUpdate ==
    ASSUME TypeOK, NEW e \in Events, NEW s \in WebhookStatus,
           status' = [status EXCEPT ![e] = s]
    PROVE  /\ Outcome \in [Events -> {"none", "queued", "delivered", "abandoned"}]
           /\ Outcome[e] = CASE status[e] = "none"              -> "none"
                             [] status[e] = "success"           -> "delivered"
                             [] status[e] = "permanent_failure" -> "abandoned"
                             [] OTHER                           -> "queued"
           /\ s = "success" => Outcome' = [Outcome EXCEPT ![e] = "delivered"]
           /\ s = "permanent_failure" => Outcome' = [Outcome EXCEPT ![e] = "abandoned"]
           /\ s \in Active => Outcome' = [Outcome EXCEPT ![e] = "queued"]
<1> DEFINE abs(v) == CASE v = "none"              -> "none"
                       [] v = "success"           -> "delivered"
                       [] v = "permanent_failure" -> "abandoned"
                       [] OTHER                   -> "queued"
<1>1. Outcome = [d \in Events |-> abs(status[d])]
    BY DEF Outcome
<1>2. Outcome' = [d \in Events |-> abs(status'[d])]
    BY DEF Outcome
<1>3. \A d \in Events : status'[d] = IF d = e THEN s ELSE status[d]
    BY DEF TypeOK
<1>4. \A v : abs(v) \in {"none", "queued", "delivered", "abandoned"}
    OBVIOUS
<1>5. /\ s = "success" => abs(s) = "delivered"
      /\ s = "permanent_failure" => abs(s) = "abandoned"
      /\ s \in Active => abs(s) = "queued"
    OBVIOUS
<1>6. Outcome[e] = abs(status[e])
    BY <1>1
<1> HIDE DEF abs
<1>7. Outcome' = [Outcome EXCEPT ![e] = abs(s)]
    BY <1>1, <1>2, <1>3
<1>8. Outcome \in [Events -> {"none", "queued", "delivered", "abandoned"}]
    BY <1>1, <1>4
<1> QED BY <1>5, <1>6, <1>7, <1>8 DEF abs

(* Every step of the queue is a step of the promise or changes nothing     *)
(* that the promise speaks of.                                             *)
LEMMA StepKeepsPromise ==
    QInv /\ [Next]_vars => [Delivery!DeliveryNext]_(Delivery!dvars)
<1> SUFFICES ASSUME QInv, [Next]_vars
             PROVE  Delivery!DeliveryNext \/ UNCHANGED Delivery!dvars
    OBVIOUS
<1> USE DEF QInv, rows, receiver
<1>0. UNCHANGED <<status, accepted, rejected, posts>> => UNCHANGED Delivery!dvars
    BY DEF Delivery!dvars, Outcome
<1>1. ASSUME NEW e \in Events, Enqueue(e) PROVE Delivery!DeliveryNext
    <2>1. /\ status[e] = "none" /\ status' = [status EXCEPT ![e] = "pending"]
          /\ UNCHANGED <<accepted, rejected, posts>>
        BY <1>1 DEF Enqueue
    <2>2. Outcome[e] = "none" /\ Outcome' = [Outcome EXCEPT ![e] = "queued"]
        BY <2>1, OutcomeOfUpdate
    <2>3. Delivery!TakeIn(e)
        BY <2>1, <2>2 DEF Delivery!TakeIn
    <2> QED BY <2>3 DEF Delivery!DeliveryNext
<1>2. ASSUME NEW e \in Events, BackoffElapses(e) PROVE UNCHANGED Delivery!dvars
    BY <1>0, <1>2 DEF BackoffElapses
<1>3. CASE FetchBatch
    BY <1>0, <1>3 DEF FetchBatch
<1>4. ASSUME Send \/ Record
      PROVE  /\ Head(batch).id \in Events /\ status[Head(batch).id] \in Active
             /\ Head(batch).attempts = attempts[Head(batch).id]
    <2>1. batch # <<>> /\ batch \in Seq([id : Events, attempts : Nat])
        BY <1>4 DEF Send, Record, ResultIsReal, TypeOK
    <2>2. Len(batch) \in Nat /\ Len(batch) >= 1 /\ Head(batch) = batch[1]
          /\ batch[1] \in [id : Events, attempts : Nat]
        BY <2>1, HeadAndTail
    <2>3. 1 \in 1 .. Len(batch)
        BY <2>2
    <2> QED BY <2>2, <2>3 DEF BatchIsFresh
<1>5. CASE Send
    <2> DEFINE e == Head(batch).id
    <2>1. e \in Events /\ status[e] \in Active
        BY <1>4, <1>5
    <2>2. Outcome[e] = "queued"
        BY <2>1 DEF Outcome
    <2>3. /\ posts' = [posts EXCEPT ![e] = posts[e] + 1]
          /\ \/ accepted' = accepted \cup {e} /\ UNCHANGED rejected
             \/ rejected' = rejected \cup {e} /\ UNCHANGED accepted
             \/ UNCHANGED <<accepted, rejected>>
          /\ UNCHANGED status
        BY <1>5 DEF Send
    <2>4. UNCHANGED Outcome
        BY <2>3 DEF Outcome
    <2> HIDE DEF e
    <2>5. Delivery!Call(e)
        BY <2>2, <2>3, <2>4 DEF Delivery!Call
    <2> QED BY <2>1, <2>5 DEF Delivery!DeliveryNext
<1>6. CASE Record
    <2> DEFINE e == Head(batch).id
               n == Head(batch).attempts + 1
               s == NewStatus(result, n)
    <2>1. e \in Events /\ status[e] \in Active /\ n = attempts[e] + 1
        BY <1>4, <1>6
    <2>2. /\ pc = "record"
          /\ status' = [status EXCEPT ![e] = s]
          /\ UNCHANGED <<result, accepted, rejected, posts>>
        BY <1>6 DEF Record, update_webhook_status
    <2>3. Outcome[e] = "queued"
        BY <2>1 DEF Outcome
    <2>4. /\ result = "Success" => s = "success" /\ e \in accepted
          /\ result = "PermanentFailure" => s = "permanent_failure" /\ e \in rejected
          /\ result = "RetryableFailure" =>
                \/ s = "failed"
                \/ s = "permanent_failure" /\ calculate_backoff(n)
        BY <2>2 DEF NewStatus, ResultIsReal
    <2>5. calculate_backoff(n) => posts[e] >= MaxAttempts
        <3>1. attempts[e] + 1 <= posts[e]
            BY <2>1, <2>2 DEF CallsAreCounted, InHand
        <3>2. attempts[e] \in Nat /\ posts[e] \in Nat
            BY <2>1 DEF TypeOK
        <3> HIDE DEF e, n
        <3> QED BY <2>1, <3>1, <3>2, LimitsAssumption DEF calculate_backoff
    <2>6. result \in DeliveryResult
        BY DEF TypeOK
    <2> HIDE DEF e, n, s
    <2>7. CASE s = "success" /\ e \in accepted
        <3>1. Outcome' = [Outcome EXCEPT ![e] = "delivered"]
            BY <2>1, <2>2, <2>7, OutcomeOfUpdate
        <3>2. Delivery!Close(e)
            BY <2>2, <2>3, <2>7, <3>1 DEF Delivery!Close
        <3> QED BY <2>1, <3>2 DEF Delivery!DeliveryNext
    <2>8. CASE s = "permanent_failure" /\ (e \in rejected \/ posts[e] >= MaxAttempts)
        <3>1. Outcome' = [Outcome EXCEPT ![e] = "abandoned"]
            BY <2>1, <2>2, <2>8, OutcomeOfUpdate
        <3>2. Delivery!Close(e)
            BY <2>2, <2>3, <2>8, <3>1 DEF Delivery!Close
        <3> QED BY <2>1, <3>2 DEF Delivery!DeliveryNext
    <2>9. CASE s = "failed"
        <3>1. Outcome' = [Outcome EXCEPT ![e] = "queued"] /\ DOMAIN Outcome = Events
            BY <2>1, <2>2, <2>9, OutcomeOfUpdate
        <3>2. UNCHANGED Outcome
            <4>1. Outcome = [d \in Events |-> Outcome[d]]
                BY DEF Outcome
            <4> QED BY <2>1, <2>3, <3>1, <4>1
        <3> QED BY <2>2, <3>2 DEF Delivery!dvars
    <2> QED BY <2>4, <2>5, <2>6, <2>7, <2>8, <2>9
<1>7. CASE RecordFails
    BY <1>0, <1>7 DEF RecordFails, NextItem
<1>8. CASE Crash
    BY <1>0, <1>8 DEF Crash
<1>9. CASE UNCHANGED vars
    BY <1>0, <1>9 DEF vars
<1> QED BY <1>1, <1>2, <1>3, <1>5, <1>6, <1>7, <1>8, <1>9 DEF Next, WorkerStep

(* The queue implements WebhookDelivery: a row is closed once and for a    *)
(* reason the receiver has seen, and its receiver is not called after      *)
(* that, whatever updates are lost and whenever the process dies.          *)
THEOREM PromiseKept == Spec => KeepsDeliveryPromise
<1>1. Init => Delivery!DeliveryInit
    BY DEF Init, Delivery!DeliveryInit, Outcome
<1>2. QInv /\ [Next]_vars => [Delivery!DeliveryNext]_(Delivery!dvars)
    BY StepKeepsPromise
<1> QED BY <1>1, <1>2, AlwaysQInv, PTL DEF Spec, KeepsDeliveryPromise, Delivery!DeliverySpec

=============================================================================
