--------------------------- MODULE FundLockProofs ---------------------------
(***************************************************************************)
(* Proofs about FundLock for any number of calls, keys and outputs.        *)
(***************************************************************************)
EXTENDS FundLock, TLAPS

USE DEF Calls

(* One disjunct per action, so that proofs can split on it.                *)
LEMMA NextCases ==
    ASSUME Next
    PROVE  \/ \E c \in Calls :
                \/ FindPending(c) \/ SelectInputs(c) \/ Abort(c)
                \/ LockTimePasses(c) \/ NodeAccepts(c) \/ NodeMines(c)
                \/ process_inputs(c) \/ UnlockerExpire(c)
           \/ \E c \in Lockers :
                LockFetchExisting(c) \/ LockCommit(c) \/ ClientSubmit(c)
           \/ \E c \in Senders :
                \/ validate_transaction_creation_request(c)
                \/ InsertPending(c) \/ LockNext(c) \/ BuildUnsigned(c)
                \/ check_if_transaction_expired(c) \/ MarkCompleted(c)
                \/ create_completed_transaction(c) \/ submit_transaction(c)
                \/ SubmissionAccepted(c) \/ SubmissionAlreadyMined(c)
                \/ SubmissionRejected(c) \/ SubmissionError(c)
                \/ FailExpire(c) \/ FailUnlock(c)
           \/ UnlockerFind \/ UnlockerAbort \/ UnlockerEnds \/ DaemonStarts
           \/ \E h \in Heights : rollback_from_height(h)
BY Zenon DEF Next, LockerStep, SenderStep, UnlockerStep, Environment

-----------------------------------------------------------------------------
(* Type correctness.                                                       *)

USE DEF OutputStatus, PendingStatus, CompletedStatus, LockerPC, SenderPC

(* The empty tables and fresh calls are well typed.                        *)
LEMMA InitType == Init => TypeOK
BY CallsAssumption DEF Init, TypeOK

(* Every action preserves the types.                                       *)
LEMMA NextType == TypeOK /\ [Next]_vars => TypeOK'
<1> SUFFICES ASSUME TypeOK, [Next]_vars PROVE TypeOK'
    OBVIOUS
<1> USE DEF TypeOK, Goto, db, net, life
<1>1. ASSUME NEW c \in Calls, FindPending(c) PROVE TypeOK'
    BY <1>1 DEF FindPending, RowsWithKey
<1>2. ASSUME NEW c \in Calls, SelectInputs(c) PROVE TypeOK'
    BY <1>2 DEF SelectInputs, fetch_unspent_outputs
<1>3. ASSUME NEW c \in Calls, Abort(c) PROVE TypeOK'
    BY <1>3 DEF Abort, LosesRelease
<1>4. ASSUME NEW c \in Calls, LockTimePasses(c) PROVE TypeOK'
    BY <1>4 DEF LockTimePasses
<1>5. ASSUME NEW c \in Calls, NodeAccepts(c) PROVE TypeOK'
    BY <1>5 DEF NodeAccepts
<1>6. ASSUME NEW c \in Calls, NodeMines(c) PROVE TypeOK'
    BY <1>6 DEF NodeMines
<1>7. ASSUME NEW c \in Calls, process_inputs(c) PROVE TypeOK'
    BY <1>7 DEF process_inputs
<1>8. ASSUME NEW c \in Calls, UnlockerExpire(c) PROVE TypeOK'
    BY <1>8 DEF UnlockerExpire, unlock_outputs_for_request, update_pending_transaction_status
<1>9. ASSUME NEW c \in Lockers, LockFetchExisting(c) PROVE TypeOK'
    BY <1>9 DEF LockFetchExisting, fetch_outputs_by_lock_request_id
<1>10. ASSUME NEW c \in Lockers, LockCommit(c) PROVE TypeOK'
    BY <1>10 DEF LockCommit, lock_output, create_pending_transaction
<1>11. ASSUME NEW c \in Lockers, ClientSubmit(c) PROVE TypeOK'
    BY <1>11 DEF ClientSubmit
<1>12. ASSUME NEW c \in Senders, validate_transaction_creation_request(c) PROVE TypeOK'
    BY <1>12 DEF validate_transaction_creation_request
<1>13. ASSUME NEW c \in Senders, InsertPending(c) PROVE TypeOK'
    BY <1>13 DEF InsertPending, create_pending_transaction
<1>14. ASSUME NEW c \in Senders, LockNext(c) PROVE TypeOK'
    BY <1>14 DEF LockNext, lock_output
<1>15. ASSUME NEW c \in Senders, BuildUnsigned(c) PROVE TypeOK'
    BY <1>15 DEF BuildUnsigned, fetch_outputs_by_lock_request_id
<1>16. ASSUME NEW c \in Senders, check_if_transaction_expired(c) PROVE TypeOK'
    BY <1>16 DEF check_if_transaction_expired, update_pending_transaction_status
<1>17. ASSUME NEW c \in Senders, MarkCompleted(c) PROVE TypeOK'
    BY <1>17 DEF MarkCompleted, update_pending_transaction_status
<1>18. ASSUME NEW c \in Senders, create_completed_transaction(c) PROVE TypeOK'
    BY <1>18 DEF create_completed_transaction
<1>19. ASSUME NEW c \in Senders, submit_transaction(c) PROVE TypeOK'
    BY <1>19 DEF submit_transaction
<1>20. ASSUME NEW c \in Senders, SubmissionAccepted(c) PROVE TypeOK'
    BY <1>20 DEF SubmissionAccepted
<1>21. ASSUME NEW c \in Senders, SubmissionAlreadyMined(c) PROVE TypeOK'
    BY <1>21 DEF SubmissionAlreadyMined
<1>22. ASSUME NEW c \in Senders, SubmissionRejected(c) PROVE TypeOK'
    BY <1>22 DEF SubmissionRejected
<1>23. ASSUME NEW c \in Senders, SubmissionError(c) PROVE TypeOK'
    BY <1>23 DEF SubmissionError
<1>24. ASSUME NEW c \in Senders, FailExpire(c) PROVE TypeOK'
    BY <1>24 DEF FailExpire, update_pending_transaction_status
<1>25. ASSUME NEW c \in Senders, FailUnlock(c) PROVE TypeOK'
    BY <1>25 DEF FailUnlock, unlock_outputs_for_request, LosesRelease
<1>26. CASE UnlockerFind
    BY <1>26 DEF UnlockerFind, find_expired_pending_transactions
<1>27. CASE UnlockerAbort
    BY <1>27 DEF UnlockerAbort
<1>28. ASSUME NEW h \in Heights, rollback_from_height(h) PROVE TypeOK'
    BY <1>28 DEF rollback_from_height
<1>29. CASE UNCHANGED vars
    BY <1>29 DEF vars
<1>31. CASE UnlockerEnds
    BY <1>31 DEF UnlockerEnds
<1>32. CASE DaemonStarts
    BY <1>32 DEF DaemonStarts
<1>30. CASE Next
    BY <1>30, NextCases, <1>1, <1>2, <1>3, <1>4, <1>5, <1>6, <1>7, <1>8, <1>9,
       <1>10, <1>11, <1>12, <1>13, <1>14, <1>15, <1>16, <1>17, <1>18, <1>19,
       <1>20, <1>21, <1>22, <1>23, <1>24, <1>25, <1>26, <1>27, <1>28, <1>31, <1>32, Zenon
<1> QED BY <1>29, <1>30

(* Every reachable state is well typed: the status columns hold only the   *)
(* values the enums of the code can produce.                               *)
THEOREM TypeCorrect == Spec => []TypeOK
BY InitType, NextType, PTL DEF Spec

-----------------------------------------------------------------------------
(* The inductive invariant.  Each part is named for what it says.          *)

Early == {"validate", "find", "select"}
Selected == {"commit", "insert"}

(* What a call has in hand at each stage.                                  *)
Stages ==
    \A c \in Calls :
        /\ pc[c] \in Early    => req[c] = NoReq /\ sel[c] = {}
        /\ pc[c] \in Selected => req[c] = NoReq /\ sel[c] # {}
        /\ pc[c] = "fetch"    => req[c] # c
        /\ pc[c] = "lock"     => req[c] = c
        /\ pc[c] \notin Early \cup Selected \cup {"refused", "aborted"} => req[c] # NoReq
        /\ pc[c] \in {"built", "complete", "record", "submit", "submitting", "done"}
             => sel[c] # {}

LoopInsideSelection == \A c \in Senders : todo[c] \subseteq sel[c]

(* A row exists exactly for the call that inserted it, and that call works *)
(* with it; a call only works with a row of its own key.                   *)
RowsHaveCreators ==
    \A c \in Calls :
        /\ pending[c] # "none" => req[c] = c /\ sel[c] # {}
        /\ req[c] # NoReq => pending[req[c]] # "none" /\ KeyOf[req[c]] = KeyOf[c]

OneRowPerKey ==
    \A c, d \in Calls :
        pending[c] # "none" /\ pending[d] # "none" /\ KeyOf[c] = KeyOf[d] => c = d

(* What a retry spends is part of what the original selected.              *)
RetryInsideOriginal ==
    \A c \in Calls : req[c] # NoReq => sel[c] \subseteq sel[req[c]]

(* A transaction on the network has inputs, and they are settled.          *)
SentIsSettled ==
    \A c \in inflight \cup mempool \cup mined :
        /\ sel[c] # {}
        /\ req[c] # NoReq
        /\ pc[c] \notin Early \cup Selected \cup {"fetch", "lock", "build"}

MinedDisjoint ==
    /\ mined \subseteq mempool
    /\ \A c, d \in mined : ~ Conflict(c, d)

(* The rows on the unlocker's list exist.                                  *)
ListedRowsExist == \A r \in expiring : pending[r] # "none"

IInv ==
    /\ TypeOK
    /\ Stages
    /\ LoopInsideSelection
    /\ RowsHaveCreators
    /\ OneRowPerKey
    /\ LocksAreOwned
    /\ RetryInsideOriginal
    /\ SentIsSettled
    /\ MinedDisjoint
    /\ ListedRowsExist
    /\ ExpiredLocksHaveAReleaser

USE DEF Early, Selected

(* The inductive invariant holds of the empty tables.                      *)
LEMMA InitIInv == Init => IInv
BY CallsAssumption, InitType
   DEF Init, IInv, Stages, LoopInsideSelection, RowsHaveCreators, OneRowPerKey,
       LocksAreOwned, RetryInsideOriginal, SentIsSettled, MinedDisjoint, Conflict,
       ListedRowsExist, ExpiredLocksHaveAReleaser, Underway, CleansUp

(* Every action preserves the inductive invariant.                         *)
LEMMA NextIInv == IInv /\ [Next]_vars => IInv'
<1> SUFFICES ASSUME IInv, [Next]_vars PROVE IInv'
    OBVIOUS
<1> USE CallsAssumption, KeysAssumption
<1>0. TypeOK /\ TypeOK'
    BY NextType DEF IInv
<1> USE DEF IInv, Stages, LoopInsideSelection, RowsHaveCreators, OneRowPerKey,
       LocksAreOwned, RetryInsideOriginal, SentIsSettled, MinedDisjoint, Conflict,
       ListedRowsExist, ExpiredLocksHaveAReleaser, Underway, CleansUp, TypeOK, Goto, db, net, life
<1>1. ASSUME NEW c \in Calls, FindPending(c) PROVE IInv'
  <2> USE <1>1, <1>0 DEF FindPending, RowsWithKey
  <2>1. Stages'
      OBVIOUS
  <2>2. RowsHaveCreators'
      OBVIOUS
  <2>3. LoopInsideSelection' /\ OneRowPerKey' /\ LocksAreOwned' /\
       RetryInsideOriginal' /\ SentIsSettled' /\ MinedDisjoint' /\
       ListedRowsExist' /\ ExpiredLocksHaveAReleaser'
      OBVIOUS
  <2> QED
      BY <2>1, <2>2, <2>3 DEF IInv
<1>2. ASSUME NEW c \in Calls, SelectInputs(c) PROVE IInv'
  <2> USE <1>2, <1>0 DEF SelectInputs, fetch_unspent_outputs
  <2>1. Stages'
      OBVIOUS
  <2>2. RowsHaveCreators' /\ OneRowPerKey' /\ LocksAreOwned'
      OBVIOUS
  <2>3. LoopInsideSelection' /\ RetryInsideOriginal' /\ SentIsSettled'
      BY SMTT(30)
  <2>4. MinedDisjoint' /\ ListedRowsExist' /\ ExpiredLocksHaveAReleaser'
      OBVIOUS
  <2> QED
      BY <2>1, <2>2, <2>3, <2>4 DEF IInv
<1>3. ASSUME NEW c \in Calls, Abort(c) PROVE IInv'
    BY <1>3, <1>0 DEF Abort, LosesRelease
<1>4. ASSUME NEW c \in Calls, LockTimePasses(c) PROVE IInv'
    BY <1>4, <1>0 DEF LockTimePasses
<1>5. ASSUME NEW c \in Calls, NodeAccepts(c) PROVE IInv'
    BY <1>5, <1>0 DEF NodeAccepts
<1>6. ASSUME NEW c \in Calls, NodeMines(c) PROVE IInv'
    BY <1>6, <1>0 DEF NodeMines
<1>7. ASSUME NEW c \in Calls, process_inputs(c) PROVE IInv'
    BY <1>7, <1>0 DEF process_inputs
<1>8. ASSUME NEW c \in Calls, UnlockerExpire(c) PROVE IInv'
  <2> USE <1>8, <1>0 DEF UnlockerExpire, unlock_outputs_for_request, update_pending_transaction_status
  <2>1. RowsHaveCreators'
      OBVIOUS
  <2>2. LocksAreOwned'
      OBVIOUS
  <2>3. Stages' /\ LoopInsideSelection' /\ OneRowPerKey' /\
       RetryInsideOriginal' /\ SentIsSettled' /\ MinedDisjoint' /\
       ListedRowsExist' /\ ExpiredLocksHaveAReleaser'
      OBVIOUS
  <2> QED
      BY <2>1, <2>2, <2>3 DEF IInv
<1>9. ASSUME NEW c \in Lockers, LockFetchExisting(c) PROVE IInv'
    BY <1>9, <1>0 DEF LockFetchExisting, fetch_outputs_by_lock_request_id
<1>10. ASSUME NEW c \in Lockers, LockCommit(c) PROVE IInv'
  <2> USE <1>10, <1>0 DEF LockCommit, lock_output, create_pending_transaction, KeyTaken
  <2>1. Stages'
      OBVIOUS
  <2>2. RowsHaveCreators'
      OBVIOUS
  <2>3. OneRowPerKey'
      OBVIOUS
  <2>4. LocksAreOwned'
      OBVIOUS
  <2>5. RetryInsideOriginal'
      OBVIOUS
  <2>6. LoopInsideSelection' /\ SentIsSettled' /\ MinedDisjoint' /\
       ListedRowsExist' /\ ExpiredLocksHaveAReleaser'
      OBVIOUS
  <2> QED
      BY <2>1, <2>2, <2>3, <2>4, <2>5, <2>6 DEF IInv
<1>11. ASSUME NEW c \in Lockers, ClientSubmit(c) PROVE IInv'
    BY <1>11, <1>0 DEF ClientSubmit
<1>12. ASSUME NEW c \in Senders, validate_transaction_creation_request(c) PROVE IInv'
    BY <1>12, <1>0 DEF validate_transaction_creation_request
<1>13. ASSUME NEW c \in Senders, InsertPending(c) PROVE IInv'
  <2> USE <1>13, <1>0 DEF InsertPending, create_pending_transaction, KeyTaken
  <2>1. Stages'
      OBVIOUS
  <2>2. LocksAreOwned'
      OBVIOUS
  <2>4. RowsHaveCreators'
      OBVIOUS
  <2>5. OneRowPerKey'
      OBVIOUS
  <2>6. RetryInsideOriginal'
      OBVIOUS
  <2>7. LoopInsideSelection' /\ SentIsSettled' /\ MinedDisjoint' /\
       ListedRowsExist' /\ ExpiredLocksHaveAReleaser'
      OBVIOUS
  <2> QED
      BY <2>1, <2>2, <2>4, <2>5, <2>6, <2>7 DEF IInv
<1>14. ASSUME NEW c \in Senders, LockNext(c) PROVE IInv'
  <2> USE <1>14, <1>0 DEF LockNext, lock_output
  <2>1. Stages' /\ LoopInsideSelection' /\ RowsHaveCreators' /\ OneRowPerKey'
      OBVIOUS
  <2>2. LocksAreOwned'
      OBVIOUS
  <2>3. RetryInsideOriginal' /\ SentIsSettled' /\ MinedDisjoint'
      OBVIOUS
  <2>4. ListedRowsExist' /\ ExpiredLocksHaveAReleaser'
      OBVIOUS
  <2> QED
      BY <2>1, <2>2, <2>3, <2>4 DEF IInv
<1>15. ASSUME NEW c \in Senders, BuildUnsigned(c) PROVE IInv'
  <2> USE <1>15, <1>0 DEF BuildUnsigned, fetch_outputs_by_lock_request_id
  <2>1. Stages'
      OBVIOUS
  <2>2. RetryInsideOriginal'
      OBVIOUS
  <2>3. LoopInsideSelection' /\ RowsHaveCreators' /\ OneRowPerKey'
      OBVIOUS
  <2>4. LocksAreOwned'
      OBVIOUS
  <2>5. SentIsSettled' /\ MinedDisjoint' /\ ListedRowsExist'
      OBVIOUS
  <2>6. ExpiredLocksHaveAReleaser'
      OBVIOUS
  <2> QED
      BY <2>1, <2>2, <2>3, <2>4, <2>5, <2>6 DEF IInv
<1>16. ASSUME NEW c \in Senders, check_if_transaction_expired(c) PROVE IInv'
  <2> USE <1>16, <1>0 DEF check_if_transaction_expired, update_pending_transaction_status
  <2>1. Stages'
      OBVIOUS
  <2>2. RetryInsideOriginal'
      OBVIOUS
  <2>3. LoopInsideSelection' /\ RowsHaveCreators' /\ OneRowPerKey'
      OBVIOUS
  <2>4. LocksAreOwned'
      OBVIOUS
  <2>5. SentIsSettled' /\ MinedDisjoint' /\ ListedRowsExist'
      OBVIOUS
  <2>6. ExpiredLocksHaveAReleaser'
      OBVIOUS
  <2> QED
      BY <2>1, <2>2, <2>3, <2>4, <2>5, <2>6 DEF IInv
<1>17. ASSUME NEW c \in Senders, MarkCompleted(c) PROVE IInv'
  <2> USE <1>17, <1>0 DEF MarkCompleted, update_pending_transaction_status
  <2>1. Stages'
      OBVIOUS
  <2>2. RowsHaveCreators' /\ OneRowPerKey' /\ LocksAreOwned'
      OBVIOUS
  <2>3. LoopInsideSelection' /\ RetryInsideOriginal' /\ SentIsSettled' /\
       MinedDisjoint' /\ ListedRowsExist'
      OBVIOUS
  <2>4. ExpiredLocksHaveAReleaser'
      OBVIOUS
  <2> QED
      BY <2>1, <2>2, <2>3, <2>4 DEF IInv
<1>18. ASSUME NEW c \in Senders, create_completed_transaction(c) PROVE IInv'
  <2> USE <1>18, <1>0 DEF create_completed_transaction
  <2>1. Stages'
      OBVIOUS
  <2>2. RowsHaveCreators' /\ OneRowPerKey' /\ LocksAreOwned'
      OBVIOUS
  <2>3. LoopInsideSelection' /\ RetryInsideOriginal' /\ SentIsSettled' /\
       MinedDisjoint' /\ ListedRowsExist'
      OBVIOUS
  <2>4. ExpiredLocksHaveAReleaser'
      OBVIOUS
  <2> QED
      BY <2>1, <2>2, <2>3, <2>4 DEF IInv
<1>19. ASSUME NEW c \in Senders, submit_transaction(c) PROVE IInv'
    BY <1>19, <1>0 DEF submit_transaction
<1>20. ASSUME NEW c \in Senders, SubmissionAccepted(c) PROVE IInv'
    BY <1>20, <1>0 DEF SubmissionAccepted
<1>21. ASSUME NEW c \in Senders, SubmissionAlreadyMined(c) PROVE IInv'
    BY <1>21, <1>0 DEF SubmissionAlreadyMined
<1>22. ASSUME NEW c \in Senders, SubmissionRejected(c) PROVE IInv'
    BY <1>22, <1>0 DEF SubmissionRejected
<1>23. ASSUME NEW c \in Senders, SubmissionError(c) PROVE IInv'
    BY <1>23, <1>0 DEF SubmissionError
<1>24. ASSUME NEW c \in Senders, FailExpire(c) PROVE IInv'
    BY <1>24, <1>0 DEF FailExpire, update_pending_transaction_status
<1>25. ASSUME NEW c \in Senders, FailUnlock(c) PROVE IInv'
  <2> USE <1>25, <1>0 DEF FailUnlock, unlock_outputs_for_request, LosesRelease
  <2>1. LocksAreOwned'
      OBVIOUS
  <2>2. ExpiredLocksHaveAReleaser'
      OBVIOUS
  <2>3. Stages' /\ LoopInsideSelection' /\ RowsHaveCreators' /\ OneRowPerKey' /\
       RetryInsideOriginal' /\ SentIsSettled' /\ MinedDisjoint' /\ ListedRowsExist'
      OBVIOUS
  <2> QED
      BY <2>1, <2>2, <2>3 DEF IInv
<1>26. CASE UnlockerFind
    BY <1>26, <1>0 DEF UnlockerFind, find_expired_pending_transactions
<1>27. CASE UnlockerAbort
    BY <1>27, <1>0 DEF UnlockerAbort
<1>28. ASSUME NEW h \in Heights, rollback_from_height(h) PROVE IInv'
    BY <1>28, <1>0 DEF rollback_from_height
<1>29. CASE UNCHANGED vars
    BY <1>29, <1>0 DEF vars
<1>31. CASE UnlockerEnds
    BY <1>31, <1>0 DEF UnlockerEnds
<1>32. CASE DaemonStarts
    BY <1>32, <1>0 DEF DaemonStarts
<1>30. CASE Next
    BY <1>30, NextCases, <1>1, <1>2, <1>3, <1>4, <1>5, <1>6, <1>7, <1>8,
       <1>9, <1>10, <1>11, <1>12, <1>13, <1>14, <1>15, <1>16, <1>17, <1>18, <1>19, <1>20,
       <1>21, <1>22, <1>23, <1>24, <1>25, <1>26, <1>27, <1>28, <1>31, <1>32, Zenon
<1> QED BY <1>29, <1>30

(* The inductive invariant holds in every reachable state.                 *)
LEMMA InductiveInvariant == Spec => []IInv
BY InitIInv, NextIInv, PTL DEF Spec

-----------------------------------------------------------------------------
(* What follows from it.                                                   *)

(* No lock is orphaned: a LOCKED output names an existing request that     *)
(* selected it, an UNSPENT one names nobody (lock_output and               *)
(* unlock_outputs_for_request under any interleaving).                     *)
THEOREM LockOwnership == Spec => []LocksAreOwned
<1>1. IInv => LocksAreOwned
    BY DEF IInv
<1> QED BY <1>1, InductiveInvariant, PTL

(* Outputs locked for an EXPIRED request are not forgotten: its sender is  *)
(* on its way to complete or give up the request, a clean-up of it is      *)
(* under way, or its release was lost to a death or a failed statement.    *)
THEOREM FailureReleases == Spec => []ExpiredLocksHaveAReleaser
<1>1. IInv => ExpiredLocksHaveAReleaser
    BY DEF IInv
<1> QED BY <1>1, InductiveInvariant, PTL

(* A call that found the row another call of its key inserted shares an    *)
(* input with it: it took its inputs from that row's locks.                *)
LEMMA OriginalAndRetry ==
    ASSUME IInv, NEW c \in Calls, NEW d \in Calls,
           c # d, KeyOf[c] = KeyOf[d], req[c] = c,
           req[d] # NoReq, sel[d] # {}
    PROVE  Conflict(c, d)
<1>1. pending[c] # "none" /\ pending[req[d]] # "none" /\ req[d] \in Calls
    BY CallsAssumption DEF IInv, RowsHaveCreators, TypeOK
<1>2. req[d] = c
    BY <1>1 DEF IInv, RowsHaveCreators, OneRowPerKey
<1>3. sel[d] \subseteq sel[c]
    BY <1>2 DEF IInv, RetryInsideOriginal
<1> QED BY <1>3 DEF Conflict

(* However many retries run under one idempotency key, the transaction of  *)
(* each conflicts with that of the call that created the request.          *)
THEOREM RetriesConflict == Spec => []RetryConflictsWithOriginal
<1>1. IInv => RetryConflictsWithOriginal
  <2> SUFFICES ASSUME IInv, NEW c \in Calls, NEW d \in Calls,
                      c # d, KeyOf[c] = KeyOf[d], req[c] = c,
                      d \in inflight \cup mempool
               PROVE  Conflict(c, d)
      BY DEF RetryConflictsWithOriginal
  <2>1. sel[d] # {} /\ req[d] # NoReq
      BY DEF IInv, SentIsSettled
  <2> QED BY <2>1, OriginalAndRetry
<1> QED BY <1>1, InductiveInvariant, PTL

(* A key whose original transaction is mined is never paid again.          *)
THEOREM PaysOnce == Spec => []OriginalPaysOnce
<1>1. IInv => OriginalPaysOnce
  <2> SUFFICES ASSUME IInv, NEW c \in mined, NEW d \in mined,
                      KeyOf[c] = KeyOf[d], req[c] = c, c # d
               PROVE  FALSE
      BY DEF OriginalPaysOnce
  <2>1. c \in Calls /\ d \in Calls
      BY DEF IInv, TypeOK
  <2>2. sel[d] # {} /\ req[d] # NoReq
      BY DEF IInv, SentIsSettled
  <2>3. Conflict(c, d)
      BY <2>1, <2>2, OriginalAndRetry
  <2> QED BY <2>3 DEF IInv, MinedDisjoint
<1> QED BY <1>1, InductiveInvariant, PTL

-----------------------------------------------------------------------------
(* Action properties.                                                      *)

(* Only five actions write outputs.status.                                 *)
LEMMA StatusWriters ==
    ASSUME Next
    PROVE  \/ status' = status /\ lockedBy' = lockedBy
           \/ \E c \in Calls : process_inputs(c) \/ UnlockerExpire(c)
           \/ \E c \in Lockers : LockCommit(c)
           \/ \E c \in Senders : LockNext(c) \/ FailUnlock(c)
BY NextCases, Zenon
   DEF FindPending, SelectInputs, Abort, LockTimePasses, NodeAccepts, NodeMines,
       LockFetchExisting, ClientSubmit, validate_transaction_creation_request,
       InsertPending, BuildUnsigned, check_if_transaction_expired, MarkCompleted,
       create_completed_transaction, submit_transaction, SubmissionAccepted,
       SubmissionAlreadyMined, SubmissionRejected, SubmissionError, FailExpire,
       UnlockerFind, UnlockerAbort, UnlockerEnds, DaemonStarts, rollback_from_height, db

(* A SPENT output never becomes spendable again, whoever unlocks it late.  *)
THEOREM SpentStaysSpent == Spec => SpentIsFinal
<1> DEFINE Step == \A o \in Outputs : status[o] = "SPENT" => status'[o] = "SPENT"
<1>1. ASSUME TypeOK, Next PROVE Step
  <2>1. CASE status' = status
      BY <2>1
  <2>2. ASSUME NEW c \in Calls, process_inputs(c) PROVE Step
      BY <2>2 DEF process_inputs
  <2>3. ASSUME NEW c \in Calls, UnlockerExpire(c) PROVE Step
      BY <2>3 DEF UnlockerExpire, unlock_outputs_for_request
  <2>4. ASSUME NEW c \in Lockers, LockCommit(c) PROVE Step
      BY <2>4 DEF LockCommit, lock_output
  <2>5. ASSUME NEW c \in Senders, LockNext(c) PROVE Step
      BY <2>5 DEF LockNext, lock_output
  <2>6. ASSUME NEW c \in Senders, FailUnlock(c) PROVE Step
      BY <2>6 DEF FailUnlock, unlock_outputs_for_request
  <2> QED BY <1>1, StatusWriters, <2>1, <2>2, <2>3, <2>4, <2>5, <2>6, Zenon
<1>2. TypeOK /\ [Next]_vars => [Step]_vars
    BY <1>1
<1> QED BY <1>2, TypeCorrect, PTL DEF Spec, SpentIsFinal

(* No request takes a lock from another, and no lock is released while its *)
(* pending_transactions row is PENDING, except by a sender that cleans up. *)
THEOREM LocksKept == Spec => LocksAreKept
<1> DEFINE Kept(o) ==
        \/ status'[o] = "LOCKED" /\ lockedBy'[o] = lockedBy[o]
        \/ status'[o] = "SPENT"
        \/ status'[o] = "UNSPENT" /\
              \/ pending'[lockedBy[o]] # "PENDING"
              \/ \E c \in Senders : req[c] = lockedBy[o] /\ pc[c] = "fail_unlock"
<1> DEFINE Step == \A o \in Outputs : status[o] = "LOCKED" => Kept(o)
<1>1. ASSUME IInv, Next PROVE Step
  <2> USE DEF IInv, TypeOK
  <2>1. CASE status' = status /\ lockedBy' = lockedBy
      BY <2>1
  <2>2. ASSUME NEW c \in Calls, process_inputs(c) PROVE Step
      BY <1>1, <2>2 DEF process_inputs
  <2>3. ASSUME NEW c \in Calls, UnlockerExpire(c) PROVE Step
      BY <1>1, <2>3 DEF UnlockerExpire, unlock_outputs_for_request,
                        update_pending_transaction_status
  <2>4. ASSUME NEW c \in Lockers, LockCommit(c) PROVE Step
      BY <1>1, <2>4 DEF LockCommit, lock_output
  <2>5. ASSUME NEW c \in Senders, LockNext(c) PROVE Step
      BY <1>1, <2>5 DEF LockNext, lock_output
  <2>6. ASSUME NEW c \in Senders, FailUnlock(c) PROVE Step
      BY <1>1, <2>6 DEF FailUnlock, unlock_outputs_for_request
  <2> QED BY <1>1, StatusWriters, <2>1, <2>2, <2>3, <2>4, <2>5, <2>6, Zenon
<1>2. IInv /\ [Next]_vars => [Step]_vars
    BY <1>1
<1> QED BY <1>2, InductiveInvariant, PTL DEF Spec, LocksAreKept
=============================================================================
