-------------------------- MODULE ScanStreamProofs --------------------------
(***************************************************************************)
(* Proofs about ScanStream for any number of accounts, any chain, batch    *)
(* size, limit and number of failures.                                     *)
(***************************************************************************)
EXTENDS ScanStream, WellFoundedInduction, FiniteSetTheorems, TLAPS

-----------------------------------------------------------------------------
(* A set of numbers that is not empty has a smallest member ...            *)
LEMMA Smallest ==
    ASSUME NEW T \in SUBSET Nat, T # {}
    PROVE  Min(T) \in T /\ \A y \in T : Min(T) <= y
<1>1. IsWellFoundedOn(OpToRel(<, Nat), Nat)
    BY NatLessThanWellFounded
<1>2. PICK x \in T : \A y \in T : ~ (<<y, x>> \in OpToRel(<, Nat))
    BY <1>1, WFMin
<1>3. \A y \in T : x <= y
    <2>1. ASSUME NEW y \in T PROVE ~ (y < x)
        BY <1>2 DEF OpToRel
    <2> QED BY <2>1
<1> QED BY <1>3 DEF Min

(* ... and, when it is bounded, a largest one.                             *)
LEMMA Largest ==
    ASSUME NEW N \in Nat, NEW T \in SUBSET (0 .. N), T # {}
    PROVE  Max(T) \in T /\ \A y \in T : y <= Max(T)
<1> DEFINE D == {N - x : x \in T}
<1>1. D \in SUBSET Nat /\ D # {}
    <2>1. \A x \in T : N - x \in Nat
        OBVIOUS
    <2>2. PICK x \in T : TRUE
        OBVIOUS
    <2>3. N - x \in D
        BY <2>2
    <2> QED BY <2>1, <2>3
<1>2. Min(D) \in D /\ \A y \in D : Min(D) <= y
    BY <1>1, Smallest
<1>3. PICK x \in T : Min(D) = N - x
    BY <1>2
<1>4. ASSUME NEW y \in T PROVE x >= y
    <2>1. N - y \in D
        OBVIOUS
    <2>2. N - x <= N - y
        BY <1>2, <1>3, <2>1
    <2>3. x \in Nat /\ y \in Nat
        OBVIOUS
    <2> HIDE DEF D
    <2> QED BY <2>2, <2>3
<1> QED BY <1>4 DEF Max

-----------------------------------------------------------------------------
Blocks   == [height : Heights, found : SUBSET Nat]
Messages == [ok : BOOLEAN, blocks : Seq(Blocks)]

TypeOK ==
    /\ tip \in Heights
    /\ scanned \in [Accounts -> SUBSET Heights]
    /\ mode \in ScanMode
    /\ pc \in {"plan", "recv", "apply", "poll", "ended"}
    /\ next \in [Accounts -> 0 .. MaxTip + 1]
    /\ total \in Nat
    /\ active \in SUBSET (DOMAIN Targets)
    /\ conf \in [start : Nat, end : Nat, limit : Nat \ {0}]
    /\ batch \in Seq(Blocks)
    /\ todo \in SUBSET (DOMAIN Targets)
    /\ dl \in [step : {"tip", "header", "page", "marker", "done"}, from : Nat, tries : [Kinds -> Nat]]
    /\ proc \in [stopped : BOOLEAN, tries : [Kinds -> Nat]]
    /\ pages \in Seq(Seq(Heights))
    /\ results \in Seq(Messages)
    /\ faults \in Nat

-----------------------------------------------------------------------------
(* What is on its way to the coordinator: first the messages of results,   *)
(* then the pages.  An error, a marker and an empty page are all empty, and*)
(* end the stream when their turn comes.                                   *)

HeightsOf(blocks) == [j \in DOMAIN blocks |-> blocks[j].height]

Ahead == Len(results) + Len(pages)

At(i) == IF i <= Len(results) THEN HeightsOf(results[i].blocks) ELSE pages[i - Len(results)]

Clear(i) == \A j \in 1 .. i : At(j) # <<>>

Consecutive(s) == \A j \in DOMAIN s : s[j] = s[1] + j - 1

(* The height after the i-th, when the first is to be p.                   *)
After(i, p) == IF i = 0 THEN p ELSE At(i)[1] + Len(At(i))

(* As far as the stream goes, the batches follow each other without a gap, *)
(* and the download goes on where they end.                                *)
InLine(p) ==
    /\ \A i \in 1 .. Ahead : Clear(i) => Consecutive(At(i)) /\ At(i)[1] = After(i - 1, p)
    /\ dl.step = "page" /\ Clear(Ahead) => dl.from = After(Ahead, p)
    /\ dl.step \in {"tip", "header"} => Ahead = 0 /\ conf.start = p

BatchEnd == batch[1].height + Len(batch)

(* Active accounts wait for the same block, and while a batch is applied   *)
(* those that are done wait for the one after it.                          *)
StreamIsInOrder ==
    /\ pc \in {"recv", "apply"} => active # {}
    /\ pc = "recv" => \A i \in active : InLine(next[Targets[i]])
    /\ pc = "apply" =>
          /\ batch # <<>> /\ Consecutive(HeightsOf(batch)) /\ InLine(BatchEnd)
          /\ todo # {}
          /\ \A i \in todo : batch[1].height <= next[Targets[i]]
          /\ \A i \in active \ todo : next[Targets[i]] = BatchEnd

-----------------------------------------------------------------------------
(* Nothing beyond a batch after the end height is ever requested.          *)
Cap == conf.end + batch_size

PagesAreCapped ==
    /\ conf.limit <= batch_size
    /\ dl.step \in {"tip", "header"} => conf.start <= conf.end + 1
    /\ dl.step = "page" => dl.from <= conf.end + 1
    /\ \A i \in DOMAIN pages : \A j \in DOMAIN pages[i] : pages[i][j] <= Cap
    /\ \A i \in DOMAIN results : \A j \in DOMAIN results[i].blocks : results[i].blocks[j].height <= Cap
    /\ pc = "apply" => \A j \in DOMAIN batch : batch[j].height <= Cap

(* The blocks counted and those up to the end height make max_blocks.      *)
PartialBudget ==
    /\ mode # "Partial" => total = 0
    /\ mode = "Partial" =>
          /\ pc # "poll"
          /\ pc = "plan" => total < max_blocks
          /\ pc = "recv" => \A i \in active : total + conf.end <= max_blocks + next[Targets[i]]
          /\ pc = "apply" => total + conf.end <= max_blocks + batch[1].height

IInv ==
    /\ TypeOK
    /\ NoBlockIsSkipped
    /\ StreamIsInOrder
    /\ PagesAreCapped
    /\ PartialBudget
    /\ PartialOvershootIsBounded

-----------------------------------------------------------------------------
(* The smaller of two numbers.                                             *)
LEMMA Smaller ==
    ASSUME NEW a \in Int, NEW b \in Int
    PROVE  Min({a, b}) \in {a, b} /\ Min({a, b}) <= a /\ Min({a, b}) <= b
<1>1. \E x \in {a, b} : \A y \in {a, b} : x <= y
    OBVIOUS
<1> QED BY <1>1 DEF Min

(* The larger of two numbers.                                              *)
LEMMA Larger ==
    ASSUME NEW a \in Int, NEW b \in Int
    PROVE  Max({a, b}) \in {a, b} /\ Max({a, b}) >= a /\ Max({a, b}) >= b
<1>1. \E x \in {a, b} : \A y \in {a, b} : x >= y
    OBVIOUS
<1> QED BY <1>1 DEF Max

(* Places in the list of targets.                                          *)
LEMMA Places ==
    /\ Targets \in Seq(Accounts) /\ DOMAIN Targets = 1 .. Len(Targets) /\ Len(Targets) \in Nat
    /\ \A i \in DOMAIN Targets : Targets[i] \in Accounts
    /\ Accounts = {Targets[i] : i \in DOMAIN Targets} /\ Accounts # {}
BY StreamAssumption DEF Accounts, ToSet

(* The blocks sync_utxos_by_block answers with.                            *)
LEMMA PageOf ==
    ASSUME TypeOK, NEW from \in Nat, NEW limit \in Nat \ {0}
    PROVE  LET page == sync_utxos_by_block(from, limit) IN
           /\ page \in Seq(Heights) /\ Len(page) <= limit
           /\ \A i \in 1 .. Len(page) : page[i] = from + i - 1
           /\ from + limit <= tip => Len(page) = limit
<1> DEFINE m == Min({limit, tip - from + 1})
           page == sync_utxos_by_block(from, limit)
<1>1. tip \in Nat /\ tip <= MaxTip /\ MaxTip \in Nat
    BY StreamAssumption DEF TypeOK, Heights
<1>2. m \in Int /\ m <= limit /\ m <= tip - from + 1 /\ m \in {limit, tip - from + 1}
    <2> DEFINE b == tip - from + 1
    <2>1. limit \in Int /\ b \in Int
        BY <1>1
    <2> HIDE DEF b
    <2>2. /\ Min({limit, b}) \in {limit, b} /\ Min({limit, b}) <= limit /\ Min({limit, b}) <= b
          /\ Min({limit, b}) \in Int
        BY <2>1, Smaller
    <2> QED BY <2>2 DEF b
<1>3. page = [i \in 1 .. m |-> from + i - 1]
    BY DEF sync_utxos_by_block
<1> HIDE DEF m, page
<1>4. CASE m \in Nat
    <2>1. page \in Seq(Heights) /\ Len(page) = m
        <3>1. \A i \in 1 .. m : from + i - 1 \in Heights
            BY <1>1, <1>2, <1>4 DEF Heights
        <3> QED BY <1>3, <1>4, <3>1
    <2> QED BY <1>1, <1>2, <1>3, <1>4, <2>1 DEF page
<1>5. CASE m \notin Nat
    <2>1. 1 .. m = 1 .. 0
        BY <1>2, <1>5
    <2>2. page = [i \in 1 .. 0 |-> from + i - 1]
        BY <1>3, <2>1
    <2>3. page \in Seq(Heights) /\ Len(page) = 0
        BY <2>2
    <2> QED BY <1>1, <1>2, <1>5, <2>3 DEF page
<1> QED BY <1>4, <1>5

(* Processing a page keeps its heights.                                    *)
LEMMA ProcessedPage ==
    ASSUME TypeOK, NEW page \in Seq(Heights)
    PROVE  /\ Processed(page) \in Seq(Blocks) /\ Len(Processed(page)) = Len(page)
           /\ \A j \in 1 .. Len(page) : Processed(page)[j].height = page[j]
           /\ HeightsOf(Processed(page)) = page
<1>1. \A i \in active : wallet_index(i) \in Nat
    <2>1. IsFiniteSet(1 .. Len(Targets))
        BY Places, FS_Interval
    <2>2. ASSUME NEW i \in active PROVE wallet_index(i) \in Nat
        <3>1. {j \in active : j <= i} \subseteq 1 .. Len(Targets)
            BY Places DEF TypeOK
        <3>2. IsFiniteSet({j \in active : j <= i})
            BY <2>1, <3>1, FS_Subset
        <3> QED BY <3>2, FS_CardinalityType DEF wallet_index
    <2> QED BY <2>2
<1>2. \A h : scan_for_recoverable_output(h) \in SUBSET Nat
    BY <1>1 DEF scan_for_recoverable_output
<1>3. \A j \in 1 .. Len(page) :
          [height |-> page[j], found |-> scan_for_recoverable_output(page[j])] \in Blocks
    BY <1>2 DEF Blocks
<1>4. Processed(page) = [j \in 1 .. Len(page) |->
          [height |-> page[j], found |-> scan_for_recoverable_output(page[j])]]
    BY DEF Processed
<1>5. /\ Processed(page) \in Seq(Blocks) /\ Len(Processed(page)) = Len(page)
      /\ \A j \in 1 .. Len(page) : Processed(page)[j].height = page[j]
    BY <1>3, <1>4
<1>6. HeightsOf(Processed(page)) = page
    BY <1>5 DEF HeightsOf
<1> QED BY <1>5, <1>6

-----------------------------------------------------------------------------
(* The steps of the two tasks.                                             *)

TaskStep ==
    \/ Download \/ ProcessPage \/ NodeReturnsNothing
    \/ \E k \in Kinds : TipFails(k) \/ HeaderFails(k) \/ PageFails(k) \/ LookupFails(k)

TaskTypes ==
    /\ dl \in [step : {"tip", "header", "page", "marker", "done"}, from : Nat, tries : [Kinds -> Nat]]
    /\ proc \in [stopped : BOOLEAN, tries : [Kinds -> Nat]]
    /\ pages \in Seq(Seq(Heights))
    /\ results \in Seq(Messages)
    /\ faults \in Nat

(* They leave the coordinator and the tables alone.                        *)
LEMMA TaskFrame ==
    ASSUME TaskStep
    PROVE  /\ tip' = tip /\ scanned' = scanned /\ mode' = mode /\ pc' = pc /\ outcome' = outcome
           /\ next' = next /\ total' = total /\ active' = active /\ conf' = conf
           /\ batch' = batch /\ todo' = todo
<1>1. UNCHANGED <<tip, db, mode, loop>>
    BY DEF TaskStep, Download, TipAnswered, HeaderAnswered, fetch_block_range, SendMarker,
       ProcessPage, NodeReturnsNothing, TipFails, HeaderFails, PageFails, LookupFails
<1> QED BY <1>1 DEF db, loop

(* A marker and an error are messages without blocks.                      *)
LEMMA EmptyMessages ==
    /\ Marker \in Messages /\ Marker.blocks = <<>> /\ Marker.ok
    /\ Error \in Messages /\ Error.blocks = <<>> /\ ~ Error.ok
BY DEF Marker, Batch, Error, Messages

(* A sequence with one element more.                                       *)
LEMMA Appended ==
    ASSUME NEW S, NEW s \in Seq(S), NEW e \in S
    PROVE  /\ Append(s, e) \in Seq(S)
           /\ Len(Append(s, e)) = Len(s) + 1 /\ Len(s) \in Nat
           /\ \A i \in 1 .. Len(s) : Append(s, e)[i] = s[i]
           /\ Append(s, e)[Len(s) + 1] = e
OBVIOUS

(* One failure more.                                                       *)
LEMMA OneMoreTry ==
    ASSUME NEW r \in [Kinds -> Nat], NEW k \in Kinds
    PROVE  /\ Retry(r, k) \in [Kinds -> Nat]
           /\ \A q \in Kinds : Retry(r, k)[q] <= r[q] + 1
           /\ Fresh \in [Kinds -> Nat] /\ \A q \in Kinds : Fresh[q] = 0
BY DEF Retry, Fresh

(* What a request that is refused leaves.                                  *)
LEMMA Refused ==
    ASSUME TypeOK, NEW k \in Kinds, Refuse(k), Fault(1)
    PROVE  LET r == Retry(dl.tries, k) IN
           /\ faults' = faults + 1
           /\ \/ /\ Exhausted(r) /\ dl' = [dl EXCEPT !.step = "done"]
                 /\ results' = Append(results, Error)
              \/ /\ dl' = [dl EXCEPT !.tries = r]
                 /\ results' = results
BY DEF Refuse, Fault

(* What the hand-over of a page leaves.                                    *)
LEMMA Delivered ==
    ASSUME TypeOK, NEW page \in Seq(Heights), NEW step, NEW from, Deliver(page, step, from)
    PROVE  \/ dl' = [dl EXCEPT !.step = "done"] /\ pages' = pages
           \/ /\ pages' = Append(pages, page)
              /\ dl' = [step |-> step, from |-> from, tries |-> Fresh]
BY DEF Deliver

(* Types of what the tasks write.                                          *)
LEMMA TypeOfTasks ==
    ASSUME TypeOK, TaskStep
    PROVE  TypeOK'
<1> DEFINE Steps == {"tip", "header", "page", "marker", "done"}
<1>1. /\ dl.step \in Steps /\ dl.from \in Nat /\ dl.tries \in [Kinds -> Nat]
      /\ dl = [step |-> dl.step, from |-> dl.from, tries |-> dl.tries]
      /\ proc.stopped \in BOOLEAN /\ proc.tries \in [Kinds -> Nat]
      /\ pages \in Seq(Seq(Heights)) /\ results \in Seq(Messages) /\ faults \in Nat
      /\ conf.start \in Nat /\ conf.limit \in Nat \ {0}
      /\ dl \in [step : Steps, from : Nat, tries : [Kinds -> Nat]]
      /\ proc \in [stopped : BOOLEAN, tries : [Kinds -> Nat]]
    BY DEF TypeOK
<1>2. SUFFICES TaskTypes'
    <2>1. tip' = tip /\ scanned' = scanned /\ mode' = mode /\ pc' = pc /\ outcome' = outcome
          /\ next' = next /\ total' = total /\ active' = active /\ conf' = conf
          /\ batch' = batch /\ todo' = todo
        BY TaskFrame
    <2> QED BY <1>2, <2>1 DEF TypeOK, TaskTypes
<1>3. Fresh \in [Kinds -> Nat]
    BY DEF Fresh
<1>4. Ready \in [stopped : BOOLEAN, tries : [Kinds -> Nat]]
    BY <1>3 DEF Ready
<1> DEFINE Dl == [step : Steps, from : Nat, tries : [Kinds -> Nat]]
<1>a. Append(results, Marker) \in Seq(Messages) /\ Append(results, Error) \in Seq(Messages)
    BY <1>1, EmptyMessages, Appended
<1>b. [dl EXCEPT !.step = "done"] \in Dl
    BY <1>1
<1>5. CASE TipAnswered
    <2>1. results' = Append(results, Marker) \/ results' = results
        BY <1>5 DEF TipAnswered
    <2>2. results' \in Seq(Messages)
        BY <1>1, <1>a, <2>1
    <2>3. dl' = [dl EXCEPT !.step = "done"] \/ dl' = [dl EXCEPT !.step = "header", !.tries = Fresh]
        BY <1>5 DEF TipAnswered
    <2> QED BY <1>1, <1>3, <1>5, <2>2, <2>3 DEF TipAnswered, TaskTypes
<1>6. CASE HeaderAnswered
    BY <1>1, <1>3, <1>6 DEF HeaderAnswered, TaskTypes
<1>7. CASE fetch_block_range
    <2> DEFINE page == sync_utxos_by_block(dl.from, conf.limit)
    <2>1. page \in Seq(Heights)
        BY <1>1, PageOf
    <2>2. PICK step \in {"page", "marker"} : Deliver(page, step, dl.from + conf.limit)
        BY <1>7 DEF fetch_block_range
    <2> HIDE DEF page
    <2>3. \/ dl' = [dl EXCEPT !.step = "done"] /\ pages' = pages
          \/ /\ pages' = Append(pages, page)
             /\ dl' = [step |-> step, from |-> dl.from + conf.limit, tries |-> Fresh]
        BY <2>1, <2>2, Delivered
    <2>4. pages' \in Seq(Seq(Heights))
        <3>1. Append(pages, page) \in Seq(Seq(Heights))
            BY <1>1, <2>1, Appended
        <3> QED BY <1>1, <2>3, <3>1
    <2>5. dl.from + conf.limit \in Nat
        BY <1>1
    <2>6. [step |-> step, from |-> dl.from + conf.limit, tries |-> Fresh] \in Dl
        BY <1>3, <2>5
    <2>7. dl' \in Dl
        BY <1>b, <2>3, <2>6
    <2> QED BY <1>1, <1>7, <2>4, <2>7 DEF fetch_block_range, TaskTypes
<1>8. CASE SendMarker
    BY <1>1, <1>8, <1>a, <1>b DEF SendMarker, TaskTypes
<1>9. CASE ProcessPage
    <2>1. Head(pages) \in Seq(Heights) /\ Tail(pages) \in Seq(Seq(Heights))
        BY <1>1, <1>9 DEF ProcessPage
    <2>2. Processed(Head(pages)) \in Seq(Blocks)
        BY <2>1, ProcessedPage
    <2>3. Batch(Processed(Head(pages))) \in Messages
        BY <2>2 DEF Batch, Messages
    <2> QED BY <1>1, <1>4, <1>9, <2>1, <2>3 DEF ProcessPage, TaskTypes
<1>10. CASE NodeReturnsNothing
    <2>1. Deliver(<<>>, "marker", dl.from) /\ faults' = faults + 1 /\ proc' = proc /\ results' = results
        BY <1>10 DEF NodeReturnsNothing, Fault
    <2>2. <<>> \in Seq(Heights)
        OBVIOUS
    <2>3. \/ dl' = [dl EXCEPT !.step = "done"] /\ pages' = pages
          \/ /\ pages' = Append(pages, <<>>)
             /\ dl' = [step |-> "marker", from |-> dl.from, tries |-> Fresh]
        BY <2>1, <2>2, Delivered
    <2>4. pages' \in Seq(Seq(Heights))
        <3>1. Append(pages, <<>>) \in Seq(Seq(Heights))
            BY <1>1, <2>2, Appended
        <3> QED BY <1>1, <2>3, <3>1
    <2>5. [step |-> "marker", from |-> dl.from, tries |-> Fresh] \in Dl
        BY <1>1, <1>3
    <2>6. dl' \in Dl
        BY <1>b, <2>3, <2>5
    <2> QED BY <1>1, <2>1, <2>4, <2>6 DEF TaskTypes
<1>11. ASSUME NEW k \in Kinds, TipFails(k) PROVE TaskTypes'
    <2>1. Retry(dl.tries, k) \in [Kinds -> Nat]
        BY <1>1, OneMoreTry
    <2> DEFINE r == Retry(dl.tries, k)
    <2>2. \E s \in Steps : dl' = [dl EXCEPT !.tries = r, !.step = s]
        BY <1>1, <1>11 DEF TipFails
    <2> HIDE DEF r
    <2>3. dl' \in [step : Steps, from : Nat, tries : [Kinds -> Nat]]
        BY <1>1, <2>1, <2>2 DEF r
    <2> QED BY <1>1, <1>11, <2>3 DEF TipFails, Fault, TaskTypes
<1>12. ASSUME NEW k \in Kinds, HeaderFails(k) \/ PageFails(k) PROVE TaskTypes'
    <2>1. Refuse(k) /\ Fault(1) /\ proc' = proc /\ pages' = pages
        BY <1>12 DEF HeaderFails, PageFails
    <2>2. Retry(dl.tries, k) \in [Kinds -> Nat]
        BY <1>1, OneMoreTry
    <2> DEFINE r == Retry(dl.tries, k)
    <2>3. /\ faults' = faults + 1
          /\ \/ dl' = [dl EXCEPT !.step = "done"] /\ results' = Append(results, Error)
             \/ dl' = [dl EXCEPT !.tries = r] /\ results' = results
        BY <2>1, Refused
    <2> HIDE DEF r
    <2>4. results' \in Seq(Messages)
        BY <1>1, <1>a, <2>3
    <2>5. dl' \in [step : Steps, from : Nat, tries : [Kinds -> Nat]]
        BY <1>1, <2>2, <2>3 DEF r
    <2> QED BY <1>1, <2>1, <2>3, <2>4, <2>5 DEF TaskTypes
<1>13. ASSUME NEW k \in Kinds, LookupFails(k) PROVE TaskTypes'
    <2>1. Retry(proc.tries, k) \in [Kinds -> Nat]
        BY <1>1, OneMoreTry
    <2> DEFINE r == Retry(proc.tries, k)
    <2>2. /\ faults' = faults + 1 /\ dl' = dl
          /\ \/ /\ proc' = [stopped |-> TRUE, tries |-> Fresh]
                /\ pages' = <<>> /\ results' = Append(results, Error)
             \/ proc' = [proc EXCEPT !.tries = r] /\ pages' = pages /\ results' = results
        BY <1>13 DEF LookupFails, Fault
    <2> HIDE DEF r
    <2>3. results' \in Seq(Messages) /\ pages' \in Seq(Seq(Heights))
        <3>1. <<>> \in Seq(Seq(Heights))
            OBVIOUS
        <3> QED BY <1>1, <1>a, <2>2, <3>1
    <2>4. proc' \in [stopped : BOOLEAN, tries : [Kinds -> Nat]]
        <3>1. [proc EXCEPT !.tries = r] \in [stopped : BOOLEAN, tries : [Kinds -> Nat]]
            BY <1>1, <2>1 DEF r
        <3>2. [stopped |-> TRUE, tries |-> Fresh] \in [stopped : BOOLEAN, tries : [Kinds -> Nat]]
            BY <1>3
        <3> QED BY <2>2, <3>1, <3>2
    <2>5. faults' \in Nat /\ dl' = dl
        BY <1>1, <2>2
    <2> QED BY <1>1, <2>3, <2>4, <2>5 DEF TaskTypes
<1> QED BY <1>5, <1>6, <1>7, <1>8, <1>9, <1>10, <1>11, <1>12, <1>13 DEF TaskStep, Download

-----------------------------------------------------------------------------
(* What the steps of the tasks do to the line of batches.                  *)

(* Positions in the line and their contents.                               *)
LEMMA LineTypes ==
    ASSUME TypeOK
    PROVE  /\ Len(results) \in Nat /\ Len(pages) \in Nat /\ Ahead \in Nat
           /\ Len(results) <= Ahead
           /\ \A i \in 1 .. Ahead : At(i) \in Seq(Heights)
<1>1. Len(results) \in Nat /\ Len(pages) \in Nat
    BY DEF TypeOK
<1>2. ASSUME NEW i \in 1 .. Len(results) PROVE HeightsOf(results[i].blocks) \in Seq(Heights)
    <2>1. results[i] \in Messages
        BY DEF TypeOK
    <2>2. results[i].blocks \in Seq(Blocks)
        BY <2>1 DEF Messages
    <2> DEFINE bs == results[i].blocks
    <2> HIDE DEF bs
    <2>3. bs \in Seq(Blocks)
        BY <2>2 DEF bs
    <2>4. \A j \in 1 .. Len(bs) : bs[j].height \in Heights
        <3>1. \A j \in 1 .. Len(bs) : bs[j] \in Blocks
            BY <2>3
        <3> QED BY <3>1 DEF Blocks
    <2>5. [j \in DOMAIN bs |-> bs[j].height] \in Seq(Heights)
        BY <2>3, <2>4
    <2> QED BY <2>5 DEF HeightsOf, bs
<1>3. ASSUME NEW i \in 1 .. Ahead PROVE At(i) \in Seq(Heights)
    <2>1. CASE i <= Len(results)
        BY <1>1, <1>2, <2>1 DEF At, Ahead
    <2>2. CASE ~ (i <= Len(results))
        <3>1. i - Len(results) \in 1 .. Len(pages)
            BY <1>1, <2>2 DEF Ahead
        <3> QED BY <2>2, <3>1 DEF At, TypeOK
    <2> QED BY <2>1, <2>2
<1> QED BY <1>1, <1>3 DEF Ahead

(* A message without blocks goes to the end of results, before the pages.  *)
LEMMA StopSent ==
    ASSUME TypeOK, NEW p, InLine(p), NEW m \in Messages, m.blocks = <<>>,
           results' = Append(results, m), pages' = pages \/ pages' = <<>>,
           dl'.step \notin {"tip", "header"}, dl'.step = "page" => pages' = <<>>
    PROVE  InLine(p)'
<1>1. /\ Len(results) \in Nat /\ Len(results') = Len(results) + 1
      /\ \A i \in 1 .. Len(results) : results'[i] = results[i]
      /\ results'[Len(results) + 1] = m
    BY Appended DEF TypeOK
<1>2. Len(pages) \in Nat /\ Len(pages') \in Nat /\ Len(pages') <= Len(pages)
    BY DEF TypeOK
<1>3. \A i \in 1 .. Len(results) : At(i)' = At(i)
    BY <1>1 DEF At
<1>4. ASSUME NEW i, i = Len(results) + 1 PROVE At(i)' = <<>>
    <2>1. At(i)' = HeightsOf(m.blocks)
        BY <1>1, <1>4 DEF At, HeightsOf
    <2> QED BY <2>1 DEF HeightsOf
<1>5. Ahead' = Len(results) + 1 + Len(pages')
    BY <1>1 DEF Ahead
<1>6. \A i \in 1 .. Ahead' : Clear(i)' => i \in 1 .. Len(results) /\ Clear(i)
    BY <1>1, <1>2, <1>3, <1>4, <1>5 DEF Clear
<1>7. ASSUME NEW i \in 1 .. Ahead', Clear(i)'
      PROVE  Consecutive(At(i))' /\ At(i)'[1] = After(i - 1, p)'
    <2>1. i \in 1 .. Len(results) /\ Clear(i)
        BY <1>6, <1>7
    <2>2. Consecutive(At(i)) /\ At(i)[1] = After(i - 1, p)
        BY <1>1, <1>2, <2>1 DEF InLine, Ahead
    <2>3. At(i)' = At(i) /\ (i # 1 => At(i - 1)' = At(i - 1))
        BY <1>1, <1>3, <2>1
    <2>4. After(i - 1, p)' = After(i - 1, p)
        BY <2>1, <2>3 DEF After
    <2> QED BY <2>2, <2>3, <2>4 DEF Consecutive
<1>8. dl'.step = "page" => ~ Clear(Ahead)'
    BY <1>1, <1>2, <1>5, <1>6
<1> QED BY <1>7, <1>8 DEF InLine

(* A page goes to the end of the line, where the download had got to.      *)
LEMMA PageSent ==
    ASSUME TypeOK, NEW p, InLine(p), results' = results,
           NEW page \in Seq(Heights), pages' = Append(pages, page), dl.step = "page",
           \A i \in 1 .. Len(page) : page[i] = dl.from + i - 1,
           dl'.step \notin {"tip", "header"},
           dl'.step = "page" => dl'.from = dl.from + Len(page)
    PROVE  InLine(p)'
<1>1. /\ Len(pages) \in Nat /\ Len(pages') = Len(pages) + 1
      /\ \A i \in 1 .. Len(pages) : pages'[i] = pages[i]
      /\ pages'[Len(pages) + 1] = page
    BY Appended DEF TypeOK
<1>2. Len(results) \in Nat /\ Ahead \in Nat /\ Ahead' = Ahead + 1 /\ dl.from \in Nat
    BY <1>1 DEF TypeOK, Ahead
<1>3. \A i \in 1 .. Ahead : At(i)' = At(i)
    BY <1>1, <1>2 DEF At, Ahead
<1>4. \A i : i = Ahead + 1 => At(i)' = page
    BY <1>1, <1>2 DEF At, Ahead
<1>5. \A i \in 0 .. Ahead : Clear(i)' <=> Clear(i)
    BY <1>2, <1>3 DEF Clear
<1>6. \A i \in 0 .. Ahead : After(i, p)' = After(i, p)
    BY <1>2, <1>3 DEF After
<1>7. ASSUME NEW i, i = Ahead + 1, Clear(i)' PROVE Clear(Ahead) /\ page # <<>>
    <2>1. At(i)' = page /\ i \in 1 .. i /\ \A j \in 1 .. Ahead : j \in 1 .. i
        BY <1>2, <1>4, <1>7
    <2> QED BY <1>3, <1>7, <2>1 DEF Clear
<1>8. ASSUME NEW i \in 1 .. Ahead', Clear(i)'
      PROVE  Consecutive(At(i))' /\ At(i)'[1] = After(i - 1, p)'
    <2>1. CASE i \in 1 .. Ahead
        <3>1. Consecutive(At(i)) /\ At(i)[1] = After(i - 1, p)
            BY <1>2, <1>5, <1>8, <2>1 DEF InLine
        <3> QED BY <1>2, <1>3, <1>6, <2>1, <3>1 DEF Consecutive
    <2>2. CASE i = Ahead + 1
        <3>1. Clear(Ahead) /\ page # <<>>
            BY <1>7, <1>8, <2>2
        <3>2. page[1] = dl.from /\ \A j \in DOMAIN page : page[j] = page[1] + j - 1
            <4>1. DOMAIN page = 1 .. Len(page) /\ Len(page) \in Nat /\ Len(page) # 0
                BY <3>1
            <4>2. 1 \in 1 .. Len(page)
                BY <4>1
            <4>3. page[1] = dl.from + 1 - 1
                BY <4>2
            <4>4. page[1] = dl.from
                BY <1>2, <4>3
            <4> QED BY <4>1, <4>4
        <3>3. dl.from = After(Ahead, p)
            BY <3>1 DEF InLine
        <3> QED BY <1>2, <1>4, <1>6, <2>2, <3>2, <3>3 DEF Consecutive
    <2> QED BY <1>2, <2>1, <2>2
<1>9. dl'.step = "page" /\ Clear(Ahead)' => dl'.from = After(Ahead, p)'
    <2> SUFFICES ASSUME dl'.step = "page", Clear(Ahead)' PROVE dl'.from = After(Ahead, p)'
        OBVIOUS
    <2>1. PICK n : n = Ahead'
        OBVIOUS
    <2>2. Clear(n)' /\ n = Ahead + 1 /\ n # 0
        BY <1>2, <2>1
    <2>3. page # <<>> /\ At(n)' = page
        BY <1>4, <1>7, <2>2
    <2>4. page[1] = dl.from
        BY <1>2, <2>3
    <2>5. After(n, p)' = page[1] + Len(page)
        BY <2>2, <2>3 DEF After
    <2> QED BY <2>1, <2>4, <2>5
<1> QED BY <1>8, <1>9 DEF InLine

(* Processing moves the first page to the end of results: the line stays.  *)
LEMMA PageProcessed ==
    ASSUME TypeOK, NEW p, InLine(p), ProcessPage
    PROVE  InLine(p)'
<1>1. /\ results' = Append(results, Batch(Processed(Head(pages)))) /\ pages' = Tail(pages)
      /\ pages # <<>> /\ dl' = dl /\ conf' = conf
    BY DEF ProcessPage, loop
<1>2. Head(pages) \in Seq(Heights) /\ Head(pages) = pages[1]
    BY <1>1 DEF TypeOK
<1> DEFINE m == Batch(Processed(Head(pages)))
<1>3. m \in Messages /\ HeightsOf(m.blocks) = pages[1]
    BY <1>2, ProcessedPage DEF Batch, Messages
<1> HIDE DEF m
<1>4. /\ Len(results) \in Nat /\ Len(results') = Len(results) + 1
      /\ \A i \in 1 .. Len(results) : results'[i] = results[i]
      /\ results'[Len(results) + 1] = m
    BY <1>1, <1>3, Appended DEF TypeOK, m
<1>5. /\ Len(pages) \in Nat \ {0} /\ Len(pages') = Len(pages) - 1
      /\ \A i \in 1 .. Len(pages') : pages'[i] = pages[i + 1]
    BY <1>1 DEF TypeOK
<1>6. Ahead' = Ahead /\ Ahead \in Nat
    BY <1>4, <1>5 DEF Ahead
<1>7. ASSUME NEW i \in 1 .. Ahead PROVE At(i)' = At(i)
    <2>1. CASE i \in 1 .. Len(results)
        BY <1>4, <2>1 DEF At
    <2>2. CASE i = Len(results) + 1
        <3>1. At(i)' = HeightsOf(m.blocks)
            BY <1>4, <2>2 DEF At, HeightsOf
        <3>2. At(i) = pages[1]
            BY <1>4, <2>2 DEF At
        <3> QED BY <1>3, <3>1, <3>2
    <2>3. CASE i > Len(results) + 1
        <3>1. At(i)' = pages'[i - Len(results')]
            BY <1>4, <2>3 DEF At
        <3>2. i - Len(results') \in 1 .. Len(pages')
            BY <1>4, <1>5, <2>3 DEF Ahead
        <3>3. At(i)' = pages[i - Len(results)]
            BY <1>4, <1>5, <3>1, <3>2
        <3> QED BY <1>4, <2>3, <3>3 DEF At
    <2> QED BY <1>4, <1>6, <2>1, <2>2, <2>3
<1>8. \A i \in 0 .. Ahead : Clear(i)' <=> Clear(i)
    BY <1>6, <1>7 DEF Clear
<1>9. \A i \in 0 .. Ahead : After(i, p)' = After(i, p)
    BY <1>6, <1>7 DEF After
<1>10. ASSUME NEW i \in 1 .. Ahead', Clear(i)'
      PROVE  Consecutive(At(i))' /\ At(i)'[1] = After(i - 1, p)'
    <2>1. Consecutive(At(i)) /\ At(i)[1] = After(i - 1, p)
        BY <1>6, <1>8, <1>10 DEF InLine
    <2> QED BY <1>6, <1>7, <1>9, <2>1 DEF Consecutive
<1>11. dl.step = "page" /\ Clear(Ahead)' => dl.from = After(Ahead, p)'
    <2>1. Clear(Ahead)' => Clear(Ahead)
        BY <1>6, <1>8
    <2>2. After(Ahead, p)' = After(Ahead, p)
        BY <1>6, <1>9
    <2> QED BY <2>1, <2>2 DEF InLine
<1> QED BY <1>1, <1>6, <1>10, <1>11 DEF InLine

(* No step of the tasks breaks the line.                                   *)
LEMMA LineOfTasks ==
    ASSUME TypeOK, TaskStep, NEW p, InLine(p)
    PROVE  InLine(p)'
<1>1. conf' = conf
    BY TaskFrame
<1>2. /\ dl.step \in {"tip", "header", "page", "marker", "done"} /\ dl.from \in Nat
      /\ dl = [step |-> dl.step, from |-> dl.from, tries |-> dl.tries]
      /\ conf.start \in Nat /\ conf.limit \in Nat \ {0}
    BY DEF TypeOK
<1>3. ASSUME results' = results, pages' = pages,
             \/ dl'.step \in {"marker", "done"}
             \/ dl'.step = dl.step /\ dl'.from = dl.from
             \/ dl.step = "tip" /\ dl'.step = "header"
      PROVE  InLine(p)'
    <2>1. /\ Ahead' = Ahead /\ \A i : At(i)' = At(i) /\ (Clear(i)' <=> Clear(i))
          /\ \A i : After(i, p)' = After(i, p)
        BY <1>3 DEF Ahead, At, Clear, After
    <2>2. \A i \in 1 .. Ahead : Clear(i)' =>
                Consecutive(At(i))' /\ At(i)'[1] = After(i - 1, p)'
        BY <2>1 DEF InLine, Consecutive
    <2>3. dl'.step = "page" /\ Clear(Ahead)' => dl'.from = After(Ahead, p)'
        BY <1>2, <1>3, <2>1 DEF InLine
    <2>4. dl'.step \in {"tip", "header"} => Ahead = 0 /\ conf.start = p
        BY <1>2, <1>3 DEF InLine
    <2> QED BY <1>1, <2>1, <2>2, <2>3, <2>4 DEF InLine
<1>4. CASE TipAnswered
    <2>1. CASE conf.start > get_tip_info
        <3>1. results' = Append(results, Marker) /\ dl'.step = "done" /\ pages' = pages
            BY <1>2, <1>4, <2>1 DEF TipAnswered
        <3> QED BY <3>1, EmptyMessages, StopSent
    <2>2. CASE ~ (conf.start > get_tip_info)
        <3>1. results' = results /\ dl.step = "tip" /\ dl'.step = "header" /\ pages' = pages
            BY <1>2, <1>4, <2>2 DEF TipAnswered
        <3> QED BY <1>3, <3>1
    <2> QED BY <2>1, <2>2
<1>5. CASE HeaderAnswered
    <2>1. /\ results' = results /\ pages' = pages /\ dl.step = "header"
          /\ dl'.step = "page" /\ dl'.from = conf.start
        BY <1>5 DEF HeaderAnswered
    <2>2. Ahead = 0 /\ conf.start = p
        BY <2>1 DEF InLine
    <2>3. Ahead' = 0
        BY <2>1, <2>2 DEF Ahead
    <2> QED BY <1>1, <2>1, <2>2, <2>3 DEF InLine, After
<1>6. CASE fetch_block_range
    <2> DEFINE page == sync_utxos_by_block(dl.from, conf.limit)
               crosses == \E i \in DOMAIN page : page[i] > conf.end
               more == dl.from + conf.limit <= tip /\ ~ crosses
    <2>1. /\ page \in Seq(Heights)
          /\ \A i \in 1 .. Len(page) : page[i] = dl.from + i - 1
          /\ dl.from + conf.limit <= tip => Len(page) = conf.limit
        BY <1>2, PageOf
    <2>2. /\ Deliver(page, IF more THEN "page" ELSE "marker", dl.from + conf.limit)
          /\ results' = results /\ dl.step = "page"
        BY <1>6 DEF fetch_block_range
    <2>3. more => dl.from + conf.limit <= tip
        OBVIOUS
    <2> HIDE DEF page, more
    <2>4. \/ dl' = [dl EXCEPT !.step = "done"] /\ pages' = pages
          \/ /\ pages' = Append(pages, page)
             /\ dl' = [step |-> IF more THEN "page" ELSE "marker",
                       from |-> dl.from + conf.limit, tries |-> Fresh]
        BY <2>1, <2>2, Delivered
    <2>5. CASE dl' = [dl EXCEPT !.step = "done"] /\ pages' = pages
        BY <1>2, <1>3, <2>2, <2>5
    <2>6. CASE /\ pages' = Append(pages, page)
               /\ dl' = [step |-> IF more THEN "page" ELSE "marker",
                         from |-> dl.from + conf.limit, tries |-> Fresh]
        <3>1. dl'.step \notin {"tip", "header"}
              /\ (dl'.step = "page" => dl'.from = dl.from + Len(page))
            BY <2>1, <2>3, <2>6
        <3> QED BY <2>1, <2>2, <2>6, <3>1, PageSent
    <2> QED BY <2>4, <2>5, <2>6
<1>7. CASE SendMarker
    <2>1. results' = Append(results, Marker) /\ dl'.step = "done" /\ pages' = pages
        BY <1>2, <1>7 DEF SendMarker
    <2> QED BY <2>1, EmptyMessages, StopSent
<1>8. CASE ProcessPage
    BY <1>8, PageProcessed
<1>9. CASE NodeReturnsNothing
    <2>1. Deliver(<<>>, "marker", dl.from) /\ results' = results /\ dl.step = "page"
        BY <1>9 DEF NodeReturnsNothing
    <2>2. <<>> \in Seq(Heights) /\ Len(<<>>) = 0
        OBVIOUS
    <2>3. \/ dl' = [dl EXCEPT !.step = "done"] /\ pages' = pages
          \/ pages' = Append(pages, <<>>) /\ dl' = [step |-> "marker", from |-> dl.from, tries |-> Fresh]
        BY <2>1, <2>2, Delivered
    <2>4. CASE dl' = [dl EXCEPT !.step = "done"] /\ pages' = pages
        BY <1>2, <1>3, <2>1, <2>4
    <2>5. CASE pages' = Append(pages, <<>>) /\ dl' = [step |-> "marker", from |-> dl.from, tries |-> Fresh]
        <3>1. dl'.step = "marker"
            BY <2>5
        <3>2. PICK page \in Seq(Heights) : page = <<>>
            BY <2>2
        <3>3. \A i \in 1 .. Len(page) : page[i] = dl.from + i - 1
            BY <3>2
        <3>4. pages' = Append(pages, page)
            BY <2>5, <3>2
        <3> QED BY <2>1, <3>1, <3>3, <3>4, PageSent
    <2> QED BY <2>3, <2>4, <2>5
<1>10. ASSUME NEW k \in Kinds, TipFails(k) PROVE InLine(p)'
    <2>1. /\ results' = results /\ pages' = pages
          /\ dl'.from = dl.from /\ (dl'.step = "done" \/ dl'.step = dl.step)
        BY <1>2, <1>10 DEF TipFails
    <2> QED BY <1>3, <2>1
<1>11. ASSUME NEW k \in Kinds, HeaderFails(k) \/ PageFails(k) PROVE InLine(p)'
    <2>1. Refuse(k) /\ Fault(1) /\ pages' = pages
        BY <1>11 DEF HeaderFails, PageFails
    <2>2. \/ dl' = [dl EXCEPT !.step = "done"] /\ results' = Append(results, Error)
          \/ dl' = [dl EXCEPT !.tries = Retry(dl.tries, k)] /\ results' = results
        BY <2>1, Refused
    <2>3. CASE dl' = [dl EXCEPT !.step = "done"] /\ results' = Append(results, Error)
        <3>1. dl'.step = "done"
            BY <1>2, <2>3
        <3> QED BY <2>1, <2>3, <3>1, EmptyMessages, StopSent
    <2>4. CASE dl' = [dl EXCEPT !.tries = Retry(dl.tries, k)] /\ results' = results
        <3>1. dl'.step = dl.step /\ dl'.from = dl.from
            BY <1>2, <2>4
        <3> QED BY <1>3, <2>1, <2>4, <3>1
    <2> QED BY <2>2, <2>3, <2>4
<1>12. ASSUME NEW k \in Kinds, LookupFails(k) PROVE InLine(p)'
    <2>1. /\ dl' = dl /\ pages # <<>>
          /\ \/ pages' = <<>> /\ results' = Append(results, Error)
             \/ pages' = pages /\ results' = results
        BY <1>12 DEF LookupFails
    <2>2. CASE pages' = <<>> /\ results' = Append(results, Error)
        <3>1. Ahead # 0
            BY <2>1 DEF Ahead, TypeOK
        <3>2. dl.step \notin {"tip", "header"}
            BY <3>1 DEF InLine
        <3> QED BY <2>1, <2>2, <3>2, EmptyMessages, StopSent
    <2>3. CASE pages' = pages /\ results' = results
        BY <1>3, <2>1, <2>3
    <2> QED BY <2>1, <2>2, <2>3
<1> QED BY <1>4, <1>5, <1>6, <1>7, <1>8, <1>9, <1>10, <1>11, <1>12 DEF TaskStep, Download

(* Nor does one go beyond the end height by more than a batch ...          *)
LEMMA CapsOfTasks ==
    ASSUME TypeOK, PagesAreCapped, TaskStep
    PROVE  PagesAreCapped'
<1>1. conf' = conf /\ pc' = pc /\ batch' = batch
    BY TaskFrame
<1>2. /\ dl.step \in {"tip", "header", "page", "marker", "done"} /\ dl.from \in Nat
      /\ dl = [step |-> dl.step, from |-> dl.from, tries |-> dl.tries]
      /\ conf.start \in Nat /\ conf.end \in Nat /\ conf.limit \in Nat \ {0} /\ batch_size \in Nat
    BY StreamAssumption DEF TypeOK
<1>3. Cap' = Cap /\ Cap \in Nat
    BY <1>1, <1>2 DEF Cap
<1> DEFINE PagesOK == \A i \in DOMAIN pages : \A j \in DOMAIN pages[i] : pages[i][j] <= Cap
           ResultsOK == \A i \in DOMAIN results : \A j \in DOMAIN results[i].blocks :
                            results[i].blocks[j].height <= Cap
           DlOK == /\ dl.step \in {"tip", "header"} => conf.start <= conf.end + 1
                   /\ dl.step = "page" => dl.from <= conf.end + 1
<1>4. PagesOK /\ ResultsOK /\ DlOK
    BY DEF PagesAreCapped
<1>5. ASSUME PagesOK', ResultsOK', DlOK' PROVE PagesAreCapped'
    BY <1>1, <1>3, <1>5 DEF PagesAreCapped
<1>6. ASSUME NEW m \in Messages, m.blocks = <<>>, results' = Append(results, m) PROVE ResultsOK'
    <2>1. /\ Len(results) \in Nat /\ results' \in Seq(Messages)
          /\ Len(results') = Len(results) + 1
          /\ \A i \in 1 .. Len(results) : results'[i] = results[i]
          /\ results'[Len(results) + 1] = m
        BY <1>6, Appended DEF TypeOK
    <2>2. DOMAIN results' = 1 .. Len(results) + 1 /\ DOMAIN results = 1 .. Len(results)
        BY <2>1 DEF TypeOK
    <2>3. ASSUME NEW i \in DOMAIN results', NEW j \in DOMAIN results'[i].blocks
          PROVE  results'[i].blocks[j].height <= Cap
        <3>1. i \in DOMAIN results
            BY <1>6, <2>1, <2>2
        <3> QED BY <1>4, <2>1, <2>2, <3>1
    <2> QED BY <1>3, <2>3
<1>7. ASSUME NEW page \in Seq(Heights), pages' = Append(pages, page),
             \A j \in 1 .. Len(page) : page[j] <= Cap
      PROVE  PagesOK'
    <2>1. /\ Len(pages) \in Nat /\ pages' \in Seq(Seq(Heights))
          /\ Len(pages') = Len(pages) + 1
          /\ \A i \in 1 .. Len(pages) : pages'[i] = pages[i]
          /\ pages'[Len(pages) + 1] = page
        BY <1>7, Appended DEF TypeOK
    <2>2. DOMAIN pages' = 1 .. Len(pages) + 1 /\ DOMAIN pages = 1 .. Len(pages)
        BY <2>1 DEF TypeOK
    <2>3. ASSUME NEW i \in DOMAIN pages', NEW j \in DOMAIN pages'[i] PROVE pages'[i][j] <= Cap
        <3>1. CASE i = Len(pages) + 1
            BY <1>7, <2>1, <3>1
        <3>2. CASE i \in DOMAIN pages
            BY <1>4, <2>1, <2>2, <3>2
        <3> QED BY <2>1, <2>2, <3>1, <3>2
    <2> QED BY <1>3, <2>3
<1>8. pages' = pages => PagesOK'
    BY <1>3, <1>4
<1>9. results' = results => ResultsOK'
    BY <1>3, <1>4
<1>10. dl'.step \in {"marker", "done"} \/ (dl'.step = dl.step /\ dl'.from = dl.from) => DlOK'
    BY <1>1, <1>2, <1>4
<1> HIDE DEF PagesOK, ResultsOK
<1>11. CASE TipAnswered
    <2>1. /\ pages' = pages /\ (results' = results \/ results' = Append(results, Marker))
          /\ dl.step = "tip" /\ dl'.step \in {"done", "header"}
        BY <1>2, <1>11 DEF TipAnswered
    <2>2. DlOK'
        BY <1>1, <1>4, <2>1
    <2> QED BY <1>5, <1>6, <1>8, <1>9, <2>1, <2>2, EmptyMessages
<1>12. CASE HeaderAnswered
    <2>1. /\ pages' = pages /\ results' = results /\ dl.step = "header"
          /\ dl'.step = "page" /\ dl'.from = conf.start
        BY <1>12 DEF HeaderAnswered
    <2>2. DlOK'
        BY <1>1, <1>4, <2>1
    <2> QED BY <1>5, <1>8, <1>9, <2>1, <2>2
<1>13. CASE fetch_block_range
    <2> DEFINE page == sync_utxos_by_block(dl.from, conf.limit)
               crosses == \E i \in DOMAIN page : page[i] > conf.end
               more == dl.from + conf.limit <= tip /\ ~ crosses
    <2>1. /\ page \in Seq(Heights) /\ Len(page) <= conf.limit
          /\ \A i \in 1 .. Len(page) : page[i] = dl.from + i - 1
          /\ dl.from + conf.limit <= tip => Len(page) = conf.limit
        BY <1>2, PageOf
    <2>2. /\ Deliver(page, IF more THEN "page" ELSE "marker", dl.from + conf.limit)
          /\ results' = results /\ dl.step = "page"
        BY <1>13 DEF fetch_block_range
    <2>3. more => dl.from + conf.limit <= tip /\ \A i \in DOMAIN page : ~ (page[i] > conf.end)
        OBVIOUS
    <2> HIDE DEF page, more
    <2>4. dl.from <= conf.end + 1 /\ conf.limit <= batch_size
        BY <2>2 DEF PagesAreCapped
    <2>5. ASSUME NEW j \in 1 .. Len(page) PROVE page[j] <= Cap
        <3>1. j \in Nat /\ j <= conf.limit /\ page[j] = dl.from + j - 1
            BY <1>2, <2>1
        <3> QED BY <1>2, <2>4, <3>1 DEF Cap
    <2>6. more => dl.from + conf.limit <= conf.end + 1
        <3> SUFFICES ASSUME more PROVE dl.from + conf.limit <= conf.end + 1
            OBVIOUS
        <3>1. Len(page) = conf.limit /\ conf.limit \in DOMAIN page
            BY <1>2, <2>1, <2>3
        <3>2. page[conf.limit] = dl.from + conf.limit - 1 /\ ~ (page[conf.limit] > conf.end)
            BY <1>2, <2>1, <2>3, <3>1
        <3> QED BY <1>2, <3>2
    <2>7. \/ dl' = [dl EXCEPT !.step = "done"] /\ pages' = pages
          \/ /\ pages' = Append(pages, page)
             /\ dl' = [step |-> IF more THEN "page" ELSE "marker",
                       from |-> dl.from + conf.limit, tries |-> Fresh]
        BY <2>1, <2>2, Delivered
    <2>8. CASE dl' = [dl EXCEPT !.step = "done"] /\ pages' = pages
        <3>1. dl'.step = "done"
            BY <1>2, <2>8
        <3> QED BY <1>5, <1>8, <1>9, <1>10, <2>2, <2>8, <3>1
    <2>9. CASE /\ pages' = Append(pages, page)
               /\ dl' = [step |-> IF more THEN "page" ELSE "marker",
                         from |-> dl.from + conf.limit, tries |-> Fresh]
        <3>1. DlOK'
            BY <1>1, <2>6, <2>9
        <3> QED BY <1>5, <1>7, <1>9, <2>1, <2>2, <2>5, <2>9, <3>1
    <2> QED BY <2>7, <2>8, <2>9
<1>14. CASE SendMarker
    <2>1. results' = Append(results, Marker) /\ dl'.step = "done" /\ pages' = pages
        BY <1>2, <1>14 DEF SendMarker
    <2> QED BY <1>5, <1>6, <1>8, <1>10, <2>1, EmptyMessages
<1>15. CASE ProcessPage
    <2>1. /\ results' = Append(results, Batch(Processed(Head(pages)))) /\ pages' = Tail(pages)
          /\ pages # <<>> /\ dl' = dl
        BY <1>15 DEF ProcessPage
    <2>2. Head(pages) = pages[1] /\ pages[1] \in Seq(Heights) /\ 1 \in DOMAIN pages
        BY <2>1 DEF TypeOK
    <2> DEFINE m == Batch(Processed(pages[1]))
    <2>3. /\ m \in Messages /\ DOMAIN m.blocks = DOMAIN pages[1]
          /\ \A j \in DOMAIN m.blocks : m.blocks[j].height = pages[1][j]
        BY <2>2, ProcessedPage DEF Batch, Messages
    <2>4. \A j \in DOMAIN m.blocks : m.blocks[j].height <= Cap
        BY <1>4, <2>2, <2>3 DEF PagesOK
    <2> HIDE DEF m
    <2>5. /\ Len(results) \in Nat /\ results' \in Seq(Messages)
          /\ Len(results') = Len(results) + 1
          /\ \A i \in 1 .. Len(results) : results'[i] = results[i]
          /\ results'[Len(results) + 1] = m
        BY <2>1, <2>2, <2>3, Appended DEF TypeOK, m
    <2>6. DOMAIN results' = 1 .. Len(results) + 1 /\ DOMAIN results = 1 .. Len(results)
        BY <2>5 DEF TypeOK
    <2>7. ASSUME NEW i \in DOMAIN results', NEW j \in DOMAIN results'[i].blocks
          PROVE  results'[i].blocks[j].height <= Cap
        <3>1. CASE i = Len(results) + 1
            BY <2>4, <2>5, <3>1
        <3>2. CASE i \in DOMAIN results
            BY <1>4, <2>5, <2>6, <3>2 DEF ResultsOK
        <3> QED BY <2>5, <2>6, <3>1, <3>2
    <2>8. ResultsOK'
        BY <1>3, <2>7 DEF ResultsOK
    <2>9. /\ \A i \in DOMAIN pages' : i + 1 \in DOMAIN pages /\ pages'[i] = pages[i + 1]
        BY <2>1 DEF TypeOK
    <2>10. PagesOK'
        BY <1>3, <1>4, <2>9 DEF PagesOK
    <2> QED BY <1>5, <1>10, <2>1, <2>8, <2>10
<1>16. CASE NodeReturnsNothing
    <2>1. Deliver(<<>>, "marker", dl.from) /\ results' = results /\ dl.step = "page"
        BY <1>16 DEF NodeReturnsNothing
    <2>a. <<>> \in Seq(Heights)
        OBVIOUS
    <2>2. PICK page \in Seq(Heights) : page = <<>>
        BY <2>a
    <2>3. Deliver(page, "marker", dl.from) /\ \A j \in 1 .. Len(page) : page[j] <= Cap
        BY <2>1, <2>2
    <2>4. \/ dl' = [dl EXCEPT !.step = "done"] /\ pages' = pages
          \/ pages' = Append(pages, page) /\ dl' = [step |-> "marker", from |-> dl.from, tries |-> Fresh]
        BY <2>3, Delivered
    <2>5. dl'.step \in {"marker", "done"}
        BY <1>2, <2>4
    <2> QED BY <1>5, <1>7, <1>8, <1>9, <1>10, <2>1, <2>3, <2>4, <2>5
<1>17. ASSUME NEW k \in Kinds, TipFails(k) PROVE PagesAreCapped'
    <2>1. /\ results' = results /\ pages' = pages
          /\ dl'.from = dl.from /\ (dl'.step = "done" \/ dl'.step = dl.step)
        BY <1>2, <1>17 DEF TipFails
    <2> QED BY <1>5, <1>8, <1>9, <1>10, <2>1
<1>18. ASSUME NEW k \in Kinds, HeaderFails(k) \/ PageFails(k) PROVE PagesAreCapped'
    <2>1. Refuse(k) /\ Fault(1) /\ pages' = pages
        BY <1>18 DEF HeaderFails, PageFails
    <2>2. \/ dl' = [dl EXCEPT !.step = "done"] /\ results' = Append(results, Error)
          \/ dl' = [dl EXCEPT !.tries = Retry(dl.tries, k)] /\ results' = results
        BY <2>1, Refused
    <2>3. dl'.step = "done" \/ (dl'.step = dl.step /\ dl'.from = dl.from)
        BY <1>2, <2>2
    <2> QED BY <1>5, <1>6, <1>8, <1>9, <1>10, <2>1, <2>2, <2>3, EmptyMessages
<1>19. ASSUME NEW k \in Kinds, LookupFails(k) PROVE PagesAreCapped'
    <2>1. /\ dl' = dl
          /\ \/ pages' = <<>> /\ results' = Append(results, Error)
             \/ pages' = pages /\ results' = results
        BY <1>19 DEF LookupFails
    <2>2. pages' = <<>> => PagesOK'
        BY DEF PagesOK
    <2> QED BY <1>5, <1>6, <1>8, <1>9, <1>10, <2>1, <2>2, EmptyMessages
<1> QED BY <1>11, <1>12, <1>13, <1>14, <1>15, <1>16, <1>17, <1>18, <1>19 DEF TaskStep, Download

(* The whole invariant under a step of a task.                             *)
LEMMA IInvOfTasks ==
    ASSUME IInv, TaskStep
    PROVE  IInv'
<1>1. /\ tip' = tip /\ scanned' = scanned /\ mode' = mode /\ pc' = pc /\ outcome' = outcome
      /\ next' = next /\ total' = total /\ active' = active /\ conf' = conf
      /\ batch' = batch /\ todo' = todo
    BY TaskFrame
<1>2. TypeOK' /\ PagesAreCapped'
    BY TypeOfTasks, CapsOfTasks DEF IInv
<1>3. NoBlockIsSkipped' /\ PartialBudget' /\ PartialOvershootIsBounded'
    BY <1>1 DEF IInv, NoBlockIsSkipped, Running, PartialBudget, PartialOvershootIsBounded
<1>4. \A p : InLine(p) => InLine(p)'
    BY LineOfTasks DEF IInv
<1>5. StreamIsInOrder'
    <2>1. ASSUME pc = "recv", NEW i \in active PROVE InLine(next[Targets[i]])'
        <3>1. PICK p : p = next[Targets[i]]
            OBVIOUS
        <3>2. InLine(p)'
            BY <1>4, <2>1, <3>1 DEF IInv, StreamIsInOrder
        <3> QED BY <1>1, <3>1, <3>2
    <2>2. BatchEnd' = BatchEnd
        BY <1>1 DEF BatchEnd
    <2>3. ASSUME pc = "apply" PROVE InLine(BatchEnd)'
        <3>1. PICK p : p = BatchEnd
            OBVIOUS
        <3>2. InLine(p)'
            BY <1>4, <2>3, <3>1 DEF IInv, StreamIsInOrder
        <3> QED BY <2>2, <3>1, <3>2
    <2> QED BY <1>1, <2>1, <2>2, <2>3 DEF IInv, StreamIsInOrder, Consecutive, HeightsOf
<1> QED BY <1>2, <1>3, <1>5 DEF IInv

-----------------------------------------------------------------------------
(* The steps of the coordinator.                                           *)

(* The receiver of a stream is dropped.                                    *)
LEMMA Closed ==
    ASSUME CloseStream, pc' \in {"plan", "poll", "ended"}, faults' \in Nat
    PROVE  /\ TaskTypes' /\ conf' \in [start : Nat, end : Nat, limit : Nat \ {0}]
           /\ StreamIsInOrder' /\ PagesAreCapped'
<1>1. /\ conf' = [start |-> 0, end |-> MaxTip + 1, limit |-> batch_size]
      /\ dl' = [step |-> "done", from |-> 0, tries |-> Fresh]
      /\ proc' = [stopped |-> FALSE, tries |-> Fresh]
      /\ pages' = <<>> /\ results' = <<>>
    BY DEF CloseStream, NoConf, NoEnd, Idle, Ready
<1>2. Fresh \in [Kinds -> Nat] /\ \A k \in Kinds : Fresh[k] = 0
    BY DEF Fresh
<1>3. TaskTypes'
    BY <1>1, <1>2 DEF TaskTypes
<1>4. conf' \in [start : Nat, end : Nat, limit : Nat \ {0}]
    BY <1>1, StreamAssumption
<1>5. StreamIsInOrder'
    BY DEF StreamIsInOrder
<1>6. PagesAreCapped'
    <2>1. conf'.limit <= batch_size /\ dl'.step = "done"
        BY <1>1, StreamAssumption
    <2>2. DOMAIN pages' = {} /\ DOMAIN results' = {}
        BY <1>1
    <2> QED BY <2>1, <2>2 DEF PagesAreCapped
<1> QED BY <1>3, <1>4, <1>5, <1>6

(* A run ends, for whatever reason.                                        *)
LEMMA RunEnds ==
    ASSUME IInv, NEW how, End(how), tip' = tip, scanned' = scanned, mode' = mode,
           next' = next, total' = total, faults' \in Nat
    PROVE  IInv'
<1>1. /\ pc' = "ended" /\ outcome' = how /\ CloseStream
      /\ active' = {} /\ batch' = <<>> /\ todo' = {}
    BY DEF End
<1>2. /\ TaskTypes' /\ conf' \in [start : Nat, end : Nat, limit : Nat \ {0}]
      /\ StreamIsInOrder' /\ PagesAreCapped'
    BY <1>1, Closed DEF IInv
<1>3. TypeOK'
    <2>1. <<>> \in Seq(Blocks) /\ {} \in SUBSET (DOMAIN Targets)
        OBVIOUS
    <2> QED BY <1>1, <1>2, <2>1 DEF IInv, TypeOK, TaskTypes
<1>4. NoBlockIsSkipped'
    BY <1>1 DEF IInv, NoBlockIsSkipped, Running
<1>5. PartialBudget' /\ PartialOvershootIsBounded'
    BY <1>1 DEF IInv, PartialBudget, PartialOvershootIsBounded
<1> QED BY <1>2, <1>3, <1>4, <1>5 DEF IInv

(* The plan for a stream: the accounts furthest behind, from where they    *)
(* are, to the next account or to the limit of a Partial scan.             *)
LEMMA Plan ==
    ASSUME IInv, pc = "plan"
    PROVE  /\ global_next \in Nat /\ Behind # {} /\ Behind \in SUBSET (DOMAIN Targets)
           /\ effective_batch_size \in Nat \ {0} /\ effective_batch_size <= batch_size
           /\ end_height \in Nat /\ global_next <= end_height
           /\ mode = "Partial" => total + end_height <= max_blocks + global_next
<1>1. /\ MaxTip \in Nat /\ batch_size \in Nat \ {0} /\ max_blocks \in Nat /\ total \in Nat
      /\ next \in [Accounts -> 0 .. MaxTip + 1]
    BY StreamAssumption DEF IInv, TypeOK
<1> DEFINE N == {next[a] : a \in Accounts}
<1>2. N \in SUBSET (0 .. MaxTip + 1) /\ N \in SUBSET Nat /\ N # {}
    <2>1. \A a \in Accounts : next[a] \in 0 .. MaxTip + 1
        BY <1>1
    <2>2. PICK a \in Accounts : TRUE
        BY Places
    <2>3. next[a] \in N
        BY <2>2
    <2>4. 0 .. MaxTip + 1 \subseteq Nat
        BY <1>1
    <2> QED BY <2>1, <2>3, <2>4
<1>3. global_next \in N /\ \A h \in N : global_next <= h
    BY <1>2, Smallest DEF global_next
<1>4. global_next \in Nat /\ global_next <= MaxTip + 1
    BY <1>1, <1>2, <1>3
<1>5. Behind # {}
    <2>1. PICK a \in Accounts : global_next = next[a]
        BY <1>3
    <2>2. PICK i \in DOMAIN Targets : a = Targets[i]
        BY Places
    <2> QED BY <2>1, <2>2 DEF Behind
<1>6. Behind \in SUBSET (DOMAIN Targets)
    BY DEF Behind
<1>7. \A h \in Horizons : h \in Nat /\ h > global_next
    <2>1. Horizons = N \ {global_next}
        BY DEF Horizons
    <2> HIDE DEF N
    <2>2. ASSUME NEW h \in Horizons PROVE h \in Nat /\ h > global_next
        BY <1>2, <1>3, <1>4, <2>1, <2>2
    <2> QED BY <2>2
<1> HIDE DEF N
<1>8. effective_batch_size \in Nat \ {0} /\ effective_batch_size <= batch_size
    <2> DEFINE B == {h - global_next : h \in Horizons} \cup {batch_size}
    <2>1. \A x \in B : x \in Nat \ {0}
        BY <1>1, <1>4, <1>7
    <2>2. B \in SUBSET Nat /\ batch_size \in B
        BY <2>1
    <2>3. effective_batch_size = Min(B)
        BY DEF effective_batch_size
    <2> HIDE DEF B
    <2>4. Min(B) \in B /\ Min(B) <= batch_size
        BY <2>2, Smallest
    <2> QED BY <2>1, <2>3, <2>4
<1>9. /\ end_height \in Nat /\ global_next <= end_height
      /\ mode = "Partial" => total + end_height <= max_blocks + global_next
    <2> DEFINE P == IF mode = "Partial" THEN {global_next + max_blocks - total} ELSE {}
               E == {h - 1 : h \in Horizons} \cup {NoEnd} \cup P
    <2>1. mode = "Partial" => total < max_blocks
        BY DEF IInv, PartialBudget
    <2>2. \A x \in P : x \in Nat /\ global_next <= x
        BY <1>1, <1>4, <2>1
    <2>3. \A x \in E : x \in Nat /\ global_next <= x
        BY <1>1, <1>4, <1>7, <2>2 DEF NoEnd
    <2>4. E \in SUBSET Nat /\ NoEnd \in E
        BY <2>3
    <2>5. end_height = Min(E)
        BY DEF end_height
    <2>6. mode = "Partial" => global_next + max_blocks - total \in E
        OBVIOUS
    <2> HIDE DEF E, P
    <2>7. Min(E) \in E /\ \A y \in E : Min(E) <= y
        BY <2>4, Smallest
    <2>8. end_height \in Nat /\ global_next <= end_height
        BY <2>3, <2>5, <2>7
    <2>9. mode = "Partial" => end_height <= global_next + max_blocks - total
        BY <2>5, <2>6, <2>7
    <2> QED BY <1>1, <1>4, <2>8, <2>9
<1> QED BY <1>4, <1>5, <1>6, <1>8, <1>9

(* A new stream starts where its accounts are.                             *)
LEMMA IInvOfOpenStream ==
    ASSUME IInv, OpenStream
    PROVE  IInv'
<1>1. /\ pc = "plan" /\ pc' = "recv" /\ active' = Behind
      /\ conf' = [start |-> global_next, end |-> end_height, limit |-> effective_batch_size]
      /\ dl' = [step |-> "tip", from |-> 0, tries |-> Fresh]
      /\ proc' = [stopped |-> FALSE, tries |-> Fresh]
      /\ pages' = <<>> /\ results' = <<>>
      /\ tip' = tip /\ scanned' = scanned /\ mode' = mode /\ outcome' = outcome /\ next' = next
      /\ total' = total /\ batch' = batch /\ todo' = todo /\ faults' = faults
    BY DEF OpenStream, Ready, db
<1>2. /\ global_next \in Nat /\ Behind # {} /\ Behind \in SUBSET (DOMAIN Targets)
      /\ effective_batch_size \in Nat \ {0} /\ effective_batch_size <= batch_size
      /\ end_height \in Nat /\ global_next <= end_height
      /\ mode = "Partial" => total + end_height <= max_blocks + global_next
    BY <1>1, Plan
<1>3. Fresh \in [Kinds -> Nat] /\ \A k \in Kinds : Fresh[k] = 0
    BY DEF Fresh
<1>4. /\ conf'.start = global_next /\ conf'.end = end_height
      /\ conf'.limit = effective_batch_size /\ dl'.step = "tip"
      /\ DOMAIN pages' = {} /\ DOMAIN results' = {} /\ Len(pages') = 0 /\ Len(results') = 0
    BY <1>1
<1>5. TypeOK'
    <2>1. conf' \in [start : Nat, end : Nat, limit : Nat \ {0}]
        BY <1>1, <1>2
    <2>2. TaskTypes'
        BY <1>1, <1>3 DEF TaskTypes, IInv, TypeOK
    <2> QED BY <1>1, <1>2, <2>1, <2>2 DEF IInv, TypeOK, TaskTypes
<1>6. NoBlockIsSkipped' /\ PartialOvershootIsBounded'
    BY <1>1 DEF IInv, NoBlockIsSkipped, Running, PartialOvershootIsBounded
<1>7. \A i \in Behind : next[Targets[i]] = global_next
    BY DEF Behind
<1>8. StreamIsInOrder'
    <2>1. Ahead' = 0
        BY <1>4 DEF Ahead
    <2>2. ASSUME NEW i \in Behind PROVE InLine(next[Targets[i]])'
        BY <1>1, <1>4, <1>7, <2>1 DEF InLine
    <2> QED BY <1>1, <1>2, <2>2 DEF StreamIsInOrder
<1>9. PagesAreCapped'
    BY <1>1, <1>2, <1>4 DEF PagesAreCapped
<1>10. PartialBudget'
    BY <1>1, <1>2, <1>4, <1>7 DEF IInv, PartialBudget
<1> QED BY <1>5, <1>6, <1>8, <1>9, <1>10 DEF IInv

(* The stream is over: the run ends, or plans again.                       *)
LEMMA IInvAfterStream ==
    ASSUME IInv, NEW empty \in BOOLEAN, AfterStream(empty), pc # "ended", tip' = tip, scanned' = scanned,
           mode' = mode, total' = total, faults' = faults
    PROVE  IInv'
<1>1. faults \in Nat /\ max_blocks \in Nat /\ total \in Nat /\ MaxTip \in Nat
      /\ next \in [Accounts -> 0 .. MaxTip + 1]
    BY StreamAssumption DEF IInv, TypeOK
<1>2. CASE End("limit") /\ next' = next
    BY <1>1, <1>2, RunEnds
<1>3. CASE End("completed") /\ next' = next
    BY <1>1, <1>3, RunEnds
<1>4. ASSUME pc' \in {"plan", "poll"}, CloseStream, outcome' = outcome, active' = active,
             batch' = batch, todo' = todo,
             \A a \in Accounts : next'[a] \in 0 .. next[a], next' \in [Accounts -> 0 .. MaxTip + 1],
             mode = "Partial" => pc' = "plan" /\ total < max_blocks
      PROVE  IInv'
    <2>1. /\ TaskTypes' /\ conf' \in [start : Nat, end : Nat, limit : Nat \ {0}]
          /\ StreamIsInOrder' /\ PagesAreCapped'
        BY <1>1, <1>4, Closed DEF IInv
    <2>2. TypeOK'
        BY <1>4, <2>1 DEF IInv, TypeOK, TaskTypes
    <2>3. NoBlockIsSkipped'
        <3> SUFFICES ASSUME NEW a \in Accounts
                     PROVE  /\ \A h \in scanned[a] : First[a] .. h \subseteq scanned[a]
                            /\ First[a] .. (next'[a] - 1) \subseteq scanned[a]
            BY DEF NoBlockIsSkipped
        <3>1. /\ \A h \in scanned[a] : First[a] .. h \subseteq scanned[a]
              /\ First[a] .. (next[a] - 1) \subseteq scanned[a]
            BY <1>4 DEF IInv, NoBlockIsSkipped, Running
        <3>2. next[a] \in Nat /\ next'[a] \in Nat /\ next'[a] <= next[a] /\ First[a] \in Nat
            BY <1>1, <1>4, StreamAssumption
        <3>3. First[a] .. (next'[a] - 1) \subseteq First[a] .. (next[a] - 1)
            BY <3>2
        <3> QED BY <3>1, <3>3
    <2>4. PartialBudget' /\ PartialOvershootIsBounded'
        BY <1>4 DEF IInv, PartialBudget, PartialOvershootIsBounded
    <2> QED BY <2>1, <2>2, <2>3, <2>4 DEF IInv
<1>5. (/\ ~ (mode = "Partial" /\ total >= max_blocks) /\ empty /\ mode = "Continuous"
           /\ next' = [a \in Accounts |-> Max({next[a] - 1, 0})]
           /\ pc' = "poll" /\ CloseStream
           /\ UNCHANGED <<outcome, active, batch, todo>>) => IInv'
    <2> SUFFICES ASSUME mode = "Continuous",
                        next' = [a \in Accounts |-> Max({next[a] - 1, 0})], pc' = "poll", CloseStream,
                        UNCHANGED <<outcome, active, batch, todo>>
                 PROVE  IInv'
        OBVIOUS
    <2>1. ASSUME NEW a \in Accounts PROVE next'[a] \in 0 .. next[a] /\ next'[a] \in 0 .. MaxTip + 1
        <3>1. next[a] \in 0 .. MaxTip + 1
            BY <1>1
        <3>2. PICK n \in Int : n = next[a] - 1
            BY <1>1, <3>1
        <3>3. Max({n, 0}) \in {n, 0} /\ Max({n, 0}) >= 0
            <4>1. n \in Int /\ 0 \in Int
                BY <3>2
            <4> QED BY ONLY <4>1, Larger
        <3>4. next'[a] = Max({n, 0})
            BY <3>2
        <3> QED BY <1>1, <3>1, <3>2, <3>3, <3>4
    <2>2. next' \in [Accounts -> 0 .. MaxTip + 1]
        BY <2>1
    <2> QED BY <1>4, <2>1, <2>2
<1>6. (/\ ~ (mode = "Partial" /\ total >= max_blocks)
           /\ pc' = "plan" /\ CloseStream
           /\ UNCHANGED <<outcome, next, active, batch, todo>>) => IInv'
    <2> SUFFICES ASSUME ~ (mode = "Partial" /\ total >= max_blocks), pc' = "plan", CloseStream,
                        UNCHANGED <<outcome, next, active, batch, todo>>
                 PROVE  IInv'
        OBVIOUS
    <2>1. \A a \in Accounts : next'[a] \in 0 .. next[a]
        BY <1>1
    <2>2. mode = "Partial" => total < max_blocks
        BY <1>1
    <2> QED BY <1>1, <1>4, <2>1, <2>2
<1> QED BY <1>2, <1>3, <1>5, <1>6 DEF AfterStream

(* Where the accounts of a stream, and those still to do, are.             *)
LEMMA Cursors ==
    ASSUME TypeOK
    PROVE  \A i \in active \cup todo : Targets[i] \in Accounts /\ next[Targets[i]] \in Nat
<1>1. \A i \in active \cup todo : Targets[i] \in Accounts
    BY Places DEF TypeOK
<1>2. \A a \in Accounts : next[a] \in 0 .. MaxTip + 1
    BY DEF TypeOK
<1>3. 0 .. MaxTip + 1 \subseteq Nat
    BY StreamAssumption
<1> QED BY <1>1, <1>2, <1>3

(* The next message is a batch: it becomes the one to apply.               *)
LEMMA BatchReceived ==
    ASSUME IInv, pc = "recv", results # <<>>, Head(results).ok, Head(results) # Marker,
           results' = Tail(results), pc' = "apply", batch' = Head(results).blocks, todo' = active,
           outcome' = outcome, next' = next, active' = active, conf' = conf, dl' = dl,
           proc' = proc, pages' = pages, tip' = tip, scanned' = scanned, mode' = mode,
           total' = total, faults' = faults
    PROVE  IInv'
<1>1. /\ results \in Seq(Messages) /\ Len(results) \in Nat \ {0}
      /\ Head(results) = results[1] /\ results[1] \in Messages
      /\ results' \in Seq(Messages) /\ Len(results') = Len(results) - 1
      /\ \A i \in 1 .. Len(results') : results'[i] = results[i + 1]
      /\ pages \in Seq(Seq(Heights)) /\ Len(pages) \in Nat
    BY DEF IInv, TypeOK
<1>2. results[1].blocks \in Seq(Blocks) /\ results[1] = [ok |-> TRUE, blocks |-> results[1].blocks]
    BY <1>1 DEF Messages
<1>3. batch' \in Seq(Blocks) /\ batch' # <<>>
    BY <1>1, <1>2 DEF Marker, Batch
<1>4. TypeOK'
    BY <1>1, <1>3 DEF IInv, TypeOK
<1>5. NoBlockIsSkipped' /\ PartialOvershootIsBounded'
    BY DEF IInv, NoBlockIsSkipped, Running, PartialOvershootIsBounded
<1>6. PagesAreCapped'
    <2>1. \A i \in DOMAIN results' : i + 1 \in DOMAIN results /\ results'[i] = results[i + 1]
        BY <1>1
    <2>2. 1 \in DOMAIN results
        BY <1>1
    <2>3. Cap' = Cap
        BY DEF Cap
    <2>4. \A j \in DOMAIN batch' : batch'[j].height <= Cap
        BY <1>1, <2>2 DEF IInv, PagesAreCapped
    <2>5. \A i \in DOMAIN results' : \A j \in DOMAIN results'[i].blocks :
              results'[i].blocks[j].height <= Cap
        BY <2>1 DEF IInv, PagesAreCapped
    <2> QED BY <2>3, <2>4, <2>5 DEF IInv, PagesAreCapped
<1>7. active # {}
    BY DEF IInv, StreamIsInOrder
<1>8. Ahead \in Nat \ {0} /\ Ahead' = Ahead - 1
    BY <1>1 DEF Ahead
<1>9. ASSUME NEW i \in 1 .. Ahead - 1 PROVE At(i)' = At(i + 1)
    <2>1. CASE i <= Len(results')
        <3>1. results'[i] = results[i + 1] /\ i + 1 <= Len(results)
            BY <1>1, <2>1
        <3> QED BY <2>1, <3>1 DEF At, HeightsOf
    <2>2. CASE ~ (i <= Len(results'))
        <3>1. ~ (i + 1 <= Len(results)) /\ i - Len(results') = i + 1 - Len(results)
            BY <1>1, <2>2
        <3> QED BY <2>2, <3>1 DEF At
    <2> QED BY <2>1, <2>2
<1>10. /\ HeightsOf(batch)' = At(1) /\ At(1) # <<>>
       /\ batch'[1].height = At(1)[1] /\ Len(batch') = Len(At(1))
    <2>1. At(1) = HeightsOf(results[1].blocks)
        BY <1>1 DEF At
    <2>2. HeightsOf(batch)' = At(1)
        BY <1>1, <2>1 DEF HeightsOf
    <2>3. HeightsOf(batch)' = [j \in 1 .. Len(batch') |-> batch'[j].height] /\ Len(batch') \in Nat \ {0}
        BY <1>3 DEF HeightsOf
    <2>4. At(1) = [j \in 1 .. Len(batch') |-> batch'[j].height]
        BY <2>2, <2>3
    <2>5. Len(At(1)) = Len(batch') /\ At(1)[1] = batch'[1].height /\ At(1) # <<>>
        BY <2>3, <2>4
    <2> QED BY <2>2, <2>5
<1>11. \A i \in 0 .. Ahead - 1 : Clear(i)' => Clear(i + 1)
    <2> SUFFICES ASSUME NEW i \in 0 .. Ahead - 1, Clear(i)', NEW j \in 1 .. i + 1
                 PROVE  At(j) # <<>>
        BY DEF Clear
    <2>1. CASE j = 1
        BY <1>10, <2>1
    <2>2. CASE j # 1
        <3>1. j - 1 \in 1 .. i /\ j - 1 \in 1 .. Ahead - 1 /\ (j - 1) + 1 = j
            BY <1>8, <2>2
        <3>2. PICK q : q = j - 1
            OBVIOUS
        <3>3. At(q)' # <<>> /\ At(q)' = At(q + 1) /\ q + 1 = j
            BY <1>9, <3>1, <3>2 DEF Clear
        <3> QED BY <3>3
    <2> QED BY <2>1, <2>2
<1>12. ASSUME NEW a \in active
       PROVE  /\ InLine(next[Targets[a]]) /\ Consecutive(At(1)) /\ At(1)[1] = next[Targets[a]]
              /\ dl.step \notin {"tip", "header"}
    <2>1. InLine(next[Targets[a]])
        BY DEF IInv, StreamIsInOrder
    <2>2. Clear(1) /\ 1 \in 1 .. Ahead
        BY <1>8, <1>10 DEF Clear
    <2>3. After(0, next[Targets[a]]) = next[Targets[a]]
        BY DEF After
    <2> QED BY <1>8, <2>1, <2>2, <2>3 DEF InLine
<1>13. PICK a \in active : TRUE
    BY <1>7
<1> DEFINE p == next[Targets[a]]
<1>14. InLine(p) /\ Consecutive(At(1)) /\ At(1)[1] = p /\ dl.step \notin {"tip", "header"}
    BY <1>12, <1>13
<1> HIDE DEF p
<1>15. BatchEnd' = At(1)[1] + Len(At(1))
    BY <1>10 DEF BatchEnd
<1>16. PICK e : e = BatchEnd'
    OBVIOUS
<1>17. \A i \in 0 .. Ahead - 1 : After(i, e)' = After(i + 1, p)
    <2> SUFFICES ASSUME NEW i \in 0 .. Ahead - 1 PROVE After(i, e)' = After(i + 1, p)
        OBVIOUS
    <2>1. CASE i = 0
        BY <1>15, <1>16, <2>1 DEF After
    <2>2. CASE i # 0
        <3>1. i \in 1 .. Ahead - 1 /\ i + 1 # 0
            BY <1>8, <2>2
        <3> QED BY <1>9, <2>2, <3>1 DEF After
    <2> QED BY <2>1, <2>2
<1>18. InLine(e)'
    <2>1. ASSUME NEW i \in 1 .. Ahead', Clear(i)'
          PROVE  Consecutive(At(i))' /\ At(i)'[1] = After(i - 1, e)'
        <3>1. i + 1 \in 1 .. Ahead /\ Clear(i + 1) /\ i \in 1 .. Ahead - 1
            BY <1>8, <1>11, <2>1
        <3>2. Consecutive(At(i + 1)) /\ At(i + 1)[1] = After(i, p)
            <4>1. Consecutive(At(i + 1)) /\ At(i + 1)[1] = After((i + 1) - 1, p)
                BY <1>14, <3>1 DEF InLine
            <4>2. (i + 1) - 1 = i
                BY <3>1
            <4> QED BY <4>1, <4>2
        <3>3. PICK q : q = i - 1
            OBVIOUS
        <3>4. q \in 0 .. Ahead - 1 /\ q + 1 = i
            BY <1>8, <3>1, <3>3
        <3>5. After(q, e)' = After(i, p)
            BY <1>17, <3>4
        <3> QED BY <1>9, <3>1, <3>2, <3>3, <3>5 DEF Consecutive
    <2>2. dl'.step = "page" /\ Clear(Ahead)' => dl'.from = After(Ahead, e)'
        <3> SUFFICES ASSUME dl.step = "page", Clear(Ahead)' PROVE dl.from = After(Ahead, e)'
            OBVIOUS
        <3>1. PICK q : q = Ahead - 1
            OBVIOUS
        <3>2. q = Ahead' /\ q + 1 = Ahead /\ q \in 0 .. Ahead - 1
            BY <1>8, <3>1
        <3>3. Clear(q)'
            BY <3>2
        <3>4. Clear(Ahead) /\ After(q, e)' = After(Ahead, p)
            BY <1>11, <1>17, <3>2, <3>3
        <3>5. dl.from = After(Ahead, p)
            BY <1>14, <3>4 DEF InLine
        <3> QED BY <3>2, <3>4, <3>5
    <2> QED BY <1>14, <2>1, <2>2 DEF InLine
<1>19. StreamIsInOrder'
    <2>1. InLine(BatchEnd)'
        BY <1>16, <1>18
    <2>2. Consecutive(HeightsOf(batch))'
        BY <1>10, <1>14 DEF Consecutive
    <2>3. \A i \in active : batch'[1].height = next[Targets[i]]
        BY <1>10, <1>12
    <2>4. \A i \in active : next[Targets[i]] \in Nat
        BY Cursors DEF IInv
    <2>5. \A i \in active : batch'[1].height <= next[Targets[i]]
        BY <2>3, <2>4
    <2> QED BY <1>3, <1>7, <2>1, <2>2, <2>5 DEF StreamIsInOrder
<1>20. PartialBudget'
    <2>1. batch'[1].height = next[Targets[a]]
        BY <1>10, <1>14 DEF p
    <2> QED BY <2>1 DEF IInv, PartialBudget
<1> QED BY <1>4, <1>5, <1>6, <1>19, <1>20 DEF IInv

(* A batch is applied to one account more.                                 *)
LEMMA IInvOfApply ==
    ASSUME IInv, Apply
    PROVE  IInv'
<1> DEFINE i0 == Min(todo)
           a == Targets[i0]
           b == batch[1].height
<1>1. /\ pc = "apply" /\ batch # <<>> /\ Consecutive(HeightsOf(batch)) /\ InLine(BatchEnd)
      /\ todo # {} /\ active # {}
      /\ \A i \in todo : b <= next[Targets[i]]
      /\ \A i \in active \ todo : next[Targets[i]] = BatchEnd
    BY DEF Apply, IInv, StreamIsInOrder
<1>2. i0 \in todo
    <2>1. todo \in SUBSET Nat
        BY Places DEF IInv, TypeOK
    <2> QED BY <1>1, <2>1, Smallest
<1>3. a \in Accounts /\ next[a] \in Nat
    BY <1>2, Cursors DEF IInv
<1>4. /\ Len(batch) \in Nat \ {0} /\ batch \in Seq(Blocks) /\ DOMAIN batch = 1 .. Len(batch)
      /\ \A j \in 1 .. Len(batch) : batch[j].height \in Heights
      /\ b \in Nat
    <2>1. batch \in Seq(Blocks)
        BY DEF IInv, TypeOK
    <2>2. Len(batch) \in Nat \ {0} /\ \A j \in 1 .. Len(batch) : batch[j] \in Blocks
        BY <1>1, <2>1
    <2>3. \A j \in 1 .. Len(batch) : batch[j].height \in Heights
        BY <2>2 DEF Blocks
    <2>4. Heights \subseteq Nat
        BY StreamAssumption DEF Heights
    <2>5. 1 \in 1 .. Len(batch)
        BY <2>2
    <2>6. b \in Nat
        BY <2>3, <2>4, <2>5
    <2>7. DOMAIN batch = 1 .. Len(batch)
        BY <2>1
    <2> QED BY <2>1, <2>2, <2>3, <2>6, <2>7
<1>5. \A j \in 1 .. Len(batch) : batch[j].height = b + j - 1
    <2>1. \A j \in DOMAIN HeightsOf(batch) : HeightsOf(batch)[j] = HeightsOf(batch)[1] + j - 1
        BY <1>1 DEF Consecutive
    <2>2. \A j \in 1 .. Len(batch) : j \in DOMAIN HeightsOf(batch) /\ HeightsOf(batch)[j] = batch[j].height
        BY <1>4 DEF HeightsOf
    <2> QED BY <1>4, <2>1, <2>2
<1>6. BatchEnd = b + Len(batch) /\ BatchEnd \in Nat /\ BatchEnd <= MaxTip + 1
    <2>1. batch[Len(batch)].height = b + Len(batch) - 1 /\ batch[Len(batch)].height \in Heights
        BY <1>4, <1>5
    <2> QED BY <1>4, <2>1, StreamAssumption DEF BatchEnd, Heights
<1>7. Last(batch).height + 1 = BatchEnd
    <2>1. batch[Len(batch)].height = b + Len(batch) - 1
        BY <1>4, <1>5
    <2>2. Last(batch) = batch[Len(batch)]
        BY DEF Last
    <2> HIDE DEF b
    <2> QED BY <1>4, <1>6, <2>1, <2>2
<1> DEFINE taken == process_blocks(a)
           new == {batch[j].height : j \in taken}
<1>8. /\ scanned' = [scanned EXCEPT ![a] = @ \cup new]
      /\ next' = [next EXCEPT ![a] = BatchEnd]
      /\ todo' = todo \ {i0}
      /\ tip' = tip /\ mode' = mode /\ outcome' = outcome /\ active' = active /\ conf' = conf
      /\ dl' = dl /\ proc' = proc /\ pages' = pages /\ results' = results /\ faults' = faults
    BY <1>7 DEF Apply, tasks
<1>9. /\ todo' # {} => pc' = "apply" /\ batch' = batch /\ total' = total
      /\ todo' = {} => /\ pc' = "recv" /\ batch' = <<>>
                       /\ total' = IF mode = "Partial" THEN total + Len(batch) ELSE total
    BY <1>1 DEF Apply
<1>10. \A h : h \in new <=> h \in b .. BatchEnd - 1 /\ h >= next[a]
    <2>1. taken = {j \in 1 .. Len(batch) : batch[j].height >= next[a]}
        BY <1>4 DEF process_blocks
    <2>2. ASSUME NEW h \in new PROVE h \in b .. BatchEnd - 1 /\ h >= next[a]
        <3>1. PICK j \in 1 .. Len(batch) : h = batch[j].height /\ batch[j].height >= next[a]
            BY <2>1
        <3> QED BY <1>4, <1>5, <1>6, <3>1
    <2>3. ASSUME NEW h \in b .. BatchEnd - 1, h >= next[a] PROVE h \in new
        <3>1. h - b + 1 \in 1 .. Len(batch) /\ b + (h - b + 1) - 1 = h
            BY <1>4, <1>6
        <3>2. batch[h - b + 1].height = h
            BY <1>5, <3>1
        <3>3. h - b + 1 \in taken
            BY <2>1, <2>3, <3>1, <3>2
        <3> QED BY <3>2, <3>3
    <2> QED BY <2>2, <2>3
<1> HIDE DEF new, taken
<1>11. b <= next[a]
    BY <1>1, <1>2
<1> HIDE DEF i0
<1>12. scanned[a] \in SUBSET Heights /\ scanned \in [Accounts -> SUBSET Heights]
       /\ next \in [Accounts -> 0 .. MaxTip + 1] /\ MaxTip \in Nat
       /\ First[a] \in Nat
    <2>1. First[a] \in 0 .. InitTip /\ InitTip \in Nat /\ MaxTip \in Nat
        BY <1>3, StreamAssumption
    <2>2. scanned \in [Accounts -> SUBSET Heights] /\ next \in [Accounts -> 0 .. MaxTip + 1]
        BY DEF IInv, TypeOK
    <2> QED BY <1>3, <2>1, <2>2
<1>13. scanned'[a] = scanned[a] \cup new /\ next'[a] = BatchEnd
       /\ \A c \in Accounts : c # a => scanned'[c] = scanned[c] /\ next'[c] = next[c]
    BY <1>3, <1>8, <1>12
<1>14. TypeOK'
    <2>1. new \in SUBSET Heights
        BY <1>4, <1>6, <1>10, <1>12 DEF Heights
    <2>2. scanned' \in [Accounts -> SUBSET Heights]
        BY <1>3, <1>8, <1>12, <2>1
    <2>3. next' \in [Accounts -> 0 .. MaxTip + 1]
        <3>1. BatchEnd \in 0 .. MaxTip + 1
            BY <1>6, <1>12
        <3> QED BY <1>3, <1>8, <1>12, <3>1
    <2>4. pc' \in {"apply", "recv"} /\ batch' \in Seq(Blocks) /\ total' \in Nat
        <3>1. total \in Nat /\ total + Len(batch) \in Nat /\ <<>> \in Seq(Blocks)
            BY <1>4 DEF IInv, TypeOK
        <3> QED BY <1>4, <1>9, <3>1
    <2>5. todo' \in SUBSET (DOMAIN Targets)
        BY <1>8 DEF IInv, TypeOK
    <2> QED BY <1>8, <2>2, <2>3, <2>4, <2>5 DEF IInv, TypeOK
<1>15. NoBlockIsSkipped'
    <2>1. \A c \in Accounts : /\ \A h \in scanned[c] : First[c] .. h \subseteq scanned[c]
                              /\ First[c] .. (next[c] - 1) \subseteq scanned[c]
        BY <1>1 DEF IInv, NoBlockIsSkipped, Running
    <2>2. First[a] .. (BatchEnd - 1) \subseteq scanned'[a]
        <3> SUFFICES ASSUME NEW h \in First[a] .. (BatchEnd - 1) PROVE h \in scanned[a] \cup new
            BY <1>13
        <3>1. CASE h < next[a]
            <4>1. h \in First[a] .. (next[a] - 1)
                BY <1>3, <1>6, <1>12, <3>1
            <4> QED BY <1>3, <2>1, <4>1
        <3>2. CASE ~ (h < next[a])
            <4>1. h \in b .. BatchEnd - 1 /\ h >= next[a]
                BY <1>3, <1>4, <1>6, <1>11, <1>12, <3>2
            <4> QED BY <1>10, <4>1
        <3> QED BY <3>1, <3>2
    <2>3. \A h \in scanned'[a] : First[a] .. h \subseteq scanned'[a]
        <3> SUFFICES ASSUME NEW h \in scanned[a] \cup new PROVE First[a] .. h \subseteq scanned'[a]
            BY <1>13
        <3>1. CASE h \in scanned[a]
            BY <1>3, <1>13, <2>1, <3>1
        <3>2. CASE h \in new
            <4>1. h \in b .. BatchEnd - 1
                BY <1>10, <3>2
            <4>2. First[a] .. h \subseteq First[a] .. (BatchEnd - 1)
                BY <1>4, <1>6, <1>12, <4>1
            <4> QED BY <2>2, <4>2
        <3> QED BY <3>1, <3>2
    <2>4. ASSUME NEW c \in Accounts
          PROVE  /\ \A h \in scanned'[c] : First[c] .. h \subseteq scanned'[c]
                 /\ First[c] .. (next'[c] - 1) \subseteq scanned'[c]
        <3>1. CASE c = a
            BY <1>13, <2>2, <2>3, <3>1
        <3>2. CASE c # a
            BY <1>13, <2>1, <3>2
        <3> QED BY <3>1, <3>2
    <2> QED BY <2>4 DEF NoBlockIsSkipped
<1>16. PagesAreCapped'
    BY <1>1, <1>8, <1>9 DEF IInv, PagesAreCapped, Cap
<1>17. \A i \in active \cup todo : Targets[i] \in Accounts
    BY Cursors DEF IInv
<1>18. ASSUME NEW i \in active, i \notin todo' PROVE next'[Targets[i]] = BatchEnd
    <2>1. CASE Targets[i] = a
        BY <1>13, <2>1
    <2>2. CASE Targets[i] # a
        <3>1. i \notin todo
            BY <1>8, <1>18, <2>2
        <3> QED BY <1>1, <1>13, <1>17, <2>2, <3>1
    <2> QED BY <2>1, <2>2
<1>19. PICK e : e = BatchEnd
    OBVIOUS
<1>20. InLine(e)'
    <2>1. InLine(e)
        BY <1>1, <1>19
    <2>2. Ahead' = Ahead /\ \A i : At(i)' = At(i) /\ (Clear(i)' <=> Clear(i)) /\ After(i, e)' = After(i, e)
        BY <1>8 DEF Ahead, At, Clear, After
    <2>3. \A i \in 1 .. Ahead : Clear(i)' => Consecutive(At(i))' /\ At(i)'[1] = After(i - 1, e)'
        BY <2>1, <2>2 DEF InLine, Consecutive
    <2>4. dl'.step = "page" /\ Clear(Ahead)' => dl'.from = After(Ahead, e)'
        BY <1>8, <2>1, <2>2 DEF InLine
    <2>5. dl'.step \in {"tip", "header"} => Ahead' = 0 /\ conf'.start = e
        BY <1>8, <2>1, <2>2 DEF InLine
    <2> QED BY <2>2, <2>3, <2>4, <2>5 DEF InLine
<1>21. StreamIsInOrder'
    <2>1. CASE todo' = {}
        <3>1. pc' = "recv"
            BY <1>9, <2>1
        <3>2. ASSUME NEW i \in active PROVE InLine(next[Targets[i]])'
            <4>1. next'[Targets[i]] = e
                BY <1>18, <1>19, <2>1
            <4> QED BY <1>20, <4>1
        <3> QED BY <1>1, <1>8, <3>1, <3>2 DEF StreamIsInOrder
    <2>2. CASE todo' # {}
        <3>1. pc' = "apply" /\ batch' = batch
            BY <1>9, <2>2
        <3>2. BatchEnd' = BatchEnd /\ InLine(BatchEnd)'
            BY <1>19, <1>20, <3>1 DEF BatchEnd
        <3>3. ASSUME NEW i \in todo' PROVE b <= next'[Targets[i]]
            <4>1. i \in todo
                BY <1>8
            <4>2. CASE Targets[i] = a
                BY <1>4, <1>6, <1>13, <4>2
            <4>3. CASE Targets[i] # a
                BY <1>1, <1>13, <1>17, <4>1, <4>3
            <4> QED BY <4>2, <4>3
        <3>4. Consecutive(HeightsOf(batch))'
            BY <1>1, <3>1 DEF Consecutive, HeightsOf
        <3> QED BY <1>1, <1>8, <1>18, <2>2, <3>1, <3>2, <3>3, <3>4 DEF StreamIsInOrder
    <2> QED BY <2>1, <2>2
<1>22. total \in Nat /\ max_blocks \in Nat /\ batch_size \in Nat /\ conf.end \in Nat
    BY StreamAssumption DEF IInv, TypeOK
<1>23. mode = "Partial" => total + conf.end <= max_blocks + b
    BY <1>1 DEF IInv, PartialBudget
<1>24. PartialBudget'
    <2>1. CASE todo' # {}
        BY <1>1, <1>8, <1>9, <2>1 DEF IInv, PartialBudget
    <2>2. CASE todo' = {}
        <3>1. /\ pc' = "recv"
              /\ mode = "Partial" => total' = total + Len(batch)
              /\ mode # "Partial" => total' = total
            BY <1>9, <2>2
        <3>2. ASSUME mode = "Partial", NEW i \in active
              PROVE  total' + conf'.end <= max_blocks + next'[Targets[i]]
            <4>1. next'[Targets[i]] = b + Len(batch)
                BY <1>6, <1>18, <2>2
            <4> QED BY <1>4, <1>8, <1>22, <1>23, <3>1, <3>2, <4>1
        <3> QED BY <1>8, <3>1, <3>2 DEF IInv, PartialBudget
    <2> QED BY <2>1, <2>2
<1>25. PartialOvershootIsBounded'
    <2>1. CASE todo' # {} \/ mode # "Partial"
        BY <1>9, <2>1 DEF IInv, PartialOvershootIsBounded
    <2>2. CASE todo' = {} /\ mode = "Partial"
        <3>1. total' = total + Len(batch)
            BY <1>9, <2>2
        <3>2. batch[Len(batch)].height = b + Len(batch) - 1
            BY <1>4, <1>5
        <3>3. batch[Len(batch)].height <= conf.end + batch_size
            BY <1>1, <1>4 DEF IInv, PagesAreCapped, Cap
        <3> QED BY <1>4, <1>22, <1>23, <2>2, <3>1, <3>2, <3>3, SMTT(30) DEF PartialOvershootIsBounded
    <2> QED BY <2>1, <2>2
<1> QED BY <1>14, <1>15, <1>16, <1>21, <1>24, <1>25 DEF IInv

(* The rest of the coordinator, the program around it and the node.        *)
LEMMA IInvOfRest ==
    ASSUME IInv, \/ handle_pause \/ ConnectionTestFails \/ check_global_reorgs_fails \/ Kill
                 \/ Receive \/ StreamClosed \/ wait_for_next_poll_cycle \/ Cancel
                 \/ NextRun \/ NodeExtends
    PROVE  IInv'
<1>1. /\ faults \in Nat /\ max_error_retries \in Nat /\ MaxTip \in Nat /\ max_blocks \in Nat \ {0}
      /\ batch_size \in Nat /\ tip \in 0 .. MaxTip
    BY StreamAssumption DEF IInv, TypeOK, Heights
<1>2. CASE handle_pause
    <2>1. /\ End("cancelled") /\ tip' = tip /\ scanned' = scanned /\ mode' = mode /\ next' = next
          /\ total' = total /\ faults' = faults
        BY <1>2 DEF handle_pause, db
    <2> QED BY <1>1, <2>1, RunEnds
<1>3. CASE ConnectionTestFails
    <2>1. /\ End("unreachable") /\ tip' = tip /\ scanned' = scanned /\ mode' = mode /\ next' = next
          /\ total' = total /\ faults' = faults + 1
        BY <1>3 DEF ConnectionTestFails, Fault, db
    <2>2. faults' \in Nat
        BY <1>1, <2>1
    <2> QED BY <2>1, <2>2, RunEnds
<1>4. CASE check_global_reorgs_fails
    <2>1. /\ End("fatal") /\ tip' = tip /\ scanned' = scanned /\ mode' = mode /\ next' = next
          /\ total' = total /\ faults' = faults + max_error_retries
        BY <1>4 DEF check_global_reorgs_fails, Fault, db
    <2>2. faults' \in Nat
        BY <1>1, <2>1
    <2> QED BY <2>1, <2>2, RunEnds
<1>5. CASE Kill
    <2>1. /\ End("killed") /\ tip' = tip /\ scanned' = scanned /\ mode' = mode /\ next' = next
          /\ total' = total /\ faults' = faults + 1
        BY <1>5 DEF Kill, Fault, db
    <2>2. faults' \in Nat
        BY <1>1, <2>1
    <2> QED BY <2>1, <2>2, RunEnds
<1>6. CASE Receive
    <2>1. /\ pc = "recv" /\ results # <<>> /\ tip' = tip /\ scanned' = scanned /\ mode' = mode
          /\ total' = total /\ faults' = faults
        BY <1>6 DEF Receive, db
    <2>2. CASE ~ Head(results).ok /\ End("failed") /\ UNCHANGED next
        BY <1>1, <2>1, <2>2, RunEnds
    <2>3. CASE AfterStream(TRUE)
        BY <2>1, <2>3, IInvAfterStream
    <2>4. CASE /\ Head(results).ok /\ Head(results) # Marker
               /\ results' = Tail(results)
               /\ pc' = "apply" /\ batch' = Head(results).blocks /\ todo' = active
               /\ UNCHANGED <<outcome, next, active, conf, dl, proc, pages>>
        BY <2>1, <2>4, BatchReceived
    <2> QED BY <1>6, <2>2, <2>3, <2>4 DEF Receive
<1>7. CASE StreamClosed
    <2>1. /\ pc = "recv" /\ tip' = tip /\ scanned' = scanned /\ mode' = mode
          /\ total' = total /\ faults' = faults /\ AfterStream(FALSE)
        BY <1>7 DEF StreamClosed, db
    <2> QED BY <2>1, IInvAfterStream
<1>8. ASSUME pc' = pc \/ (pc = "poll" /\ pc' = "plan") \/ (pc = "ended" /\ pc' = "plan" /\ total' = 0),
             total' = total \/ (pc = "ended" /\ total' = 0),
             scanned' = scanned, mode' = mode, active' = active, conf' = conf, batch' = batch,
             todo' = todo, dl' = dl, proc' = proc, pages' = pages, results' = results,
             faults' \in Nat,
             tip' \in Heights, next' \in [Accounts -> 0 .. MaxTip + 1],
             next' = next \/ pc = "ended",
             pc = "ended" /\ pc' # "ended" =>
                 \A c \in Accounts : First[c] .. (next'[c] - 1) \subseteq scanned[c]
      PROVE  IInv'
    <2>1. TypeOK'
        BY <1>8 DEF IInv, TypeOK
    <2>2. NoBlockIsSkipped'
        BY <1>8 DEF IInv, NoBlockIsSkipped, Running
    <2>3. StreamIsInOrder'
        <3>1. ASSUME pc' \in {"recv", "apply"} PROVE pc' = pc /\ next' = next
            BY <1>8, <3>1
        <3>2. \A p : InLine(p)' <=> InLine(p)
            BY <1>8 DEF InLine, Ahead, At, Clear, After, Consecutive, HeightsOf
        <3>3. BatchEnd' = BatchEnd /\ (Consecutive(HeightsOf(batch))' <=> Consecutive(HeightsOf(batch)))
            BY <1>8 DEF BatchEnd, Consecutive, HeightsOf
        <3>4. ASSUME pc' = "recv", NEW i \in active PROVE InLine(next[Targets[i]])'
            <4>1. PICK p : p = next[Targets[i]]
                OBVIOUS
            <4> QED BY <3>1, <3>2, <3>4, <4>1 DEF IInv, StreamIsInOrder
        <3>5. ASSUME pc' = "apply" PROVE InLine(BatchEnd)'
            <4>1. PICK p : p = BatchEnd
                OBVIOUS
            <4> QED BY <3>1, <3>2, <3>3, <3>5, <4>1 DEF IInv, StreamIsInOrder
        <3> QED BY <1>8, <3>1, <3>3, <3>4, <3>5 DEF IInv, StreamIsInOrder
    <2>4. PagesAreCapped'
        <3>1. pc' = "apply" => pc = "apply"
            BY <1>8
        <3> QED BY <1>8, <3>1 DEF IInv, PagesAreCapped, Cap
    <2>5. PartialBudget' /\ PartialOvershootIsBounded'
        <3>1. PartialOvershootIsBounded'
            BY <1>1, <1>8 DEF IInv, PartialOvershootIsBounded
        <3>2. PartialBudget'
            <4>1. mode # "Partial" => total' = 0
                BY <1>8 DEF IInv, PartialBudget
            <4>2. CASE pc' = pc /\ total' = total /\ (next' = next \/ pc = "ended")
                BY <1>8, <4>2 DEF IInv, PartialBudget
            <4>3. CASE pc = "ended" /\ total' = 0
                BY <1>1, <1>8, <4>1, <4>3 DEF IInv, PartialBudget
            <4>4. CASE pc = "poll" /\ pc' = "plan" /\ total' = total
                BY <1>8, <4>1, <4>4 DEF IInv, PartialBudget
            <4> QED BY <1>8, <4>2, <4>3, <4>4
        <3> QED BY <3>1, <3>2
    <2> QED BY <2>1, <2>2, <2>3, <2>4, <2>5 DEF IInv
<1>9. tip \in Heights /\ next \in [Accounts -> 0 .. MaxTip + 1]
    BY DEF IInv, TypeOK
<1>10. CASE wait_for_next_poll_cycle
    <2>1. /\ pc = "poll" /\ pc' = "plan" /\ total' = total /\ scanned' = scanned /\ mode' = mode
          /\ active' = active /\ conf' = conf /\ batch' = batch /\ todo' = todo /\ dl' = dl
          /\ proc' = proc /\ pages' = pages /\ results' = results /\ faults' = faults
          /\ outcome' = outcome /\ tip' = tip /\ next' = next
        BY <1>10 DEF wait_for_next_poll_cycle, db, tasks
    <2> QED BY <1>1, <1>8, <1>9, <2>1
<1>11. CASE Cancel
    <2>1. /\ pc' = pc /\ total' = total /\ scanned' = scanned /\ mode' = mode
          /\ active' = active /\ conf' = conf /\ batch' = batch /\ todo' = todo /\ dl' = dl
          /\ proc' = proc /\ pages' = pages /\ results' = results /\ faults' = faults + 1
          /\ outcome' = outcome /\ tip' = tip /\ next' = next
        BY <1>11 DEF Cancel, Fault, db, tasks
    <2>2. faults' \in Nat
        BY <1>1, <2>1
    <2> QED BY <1>8, <1>9, <2>1, <2>2
<1>12. CASE NextRun
    <2>1. /\ pc = "ended" /\ pc' = "plan" /\ total' = 0 /\ scanned' = scanned /\ mode' = mode
          /\ active' = active /\ conf' = conf /\ batch' = batch /\ todo' = todo /\ dl' = dl
          /\ proc' = proc /\ pages' = pages /\ results' = results /\ faults' = faults
          /\ outcome' = "running" /\ tip' = tip
          /\ next' = [c \in Accounts |-> resume_height(c)]
        BY <1>12 DEF NextRun, db, tasks
    <2>2. ASSUME NEW c \in Accounts
          PROVE  /\ resume_height(c) \in 0 .. MaxTip + 1
                 /\ First[c] .. (resume_height(c) - 1) \subseteq scanned[c]
        <3>1. First[c] \in 0 .. MaxTip /\ First[c] \in Nat
            <4>1. First[c] \in 0 .. InitTip /\ InitTip \in 0 .. MaxTip
                BY StreamAssumption
            <4> QED BY <1>1, <4>1
        <3>2. scanned[c] \in SUBSET (0 .. MaxTip)
            BY DEF IInv, TypeOK, Heights
        <3>3. CASE scanned[c] = {}
            <4>1. resume_height(c) = First[c]
                BY <3>3 DEF resume_height
            <4>2. First[c] .. (First[c] - 1) = {}
                BY <3>1
            <4> QED BY <1>1, <3>1, <4>1, <4>2
        <3>4. CASE scanned[c] # {}
            <4>1. Max(scanned[c]) \in scanned[c]
                BY <1>1, <3>2, <3>4, Largest
            <4>2. resume_height(c) = Max(scanned[c]) + 1
                BY <3>4 DEF resume_height
            <4>3. First[c] .. Max(scanned[c]) \subseteq scanned[c]
                BY <4>1 DEF IInv, NoBlockIsSkipped
            <4>4. Max(scanned[c]) \in 0 .. MaxTip
                BY <3>2, <4>1
            <4>5. resume_height(c) \in 0 .. MaxTip + 1 /\ resume_height(c) - 1 = Max(scanned[c])
                BY <1>1, <4>2, <4>4
            <4> QED BY <4>3, <4>5
        <3> QED BY <3>3, <3>4
    <2>3. next' \in [Accounts -> 0 .. MaxTip + 1]
        BY <2>1, <2>2
    <2>4. \A c \in Accounts : First[c] .. (next'[c] - 1) \subseteq scanned[c]
        BY <2>1, <2>2
    <2> QED BY <1>1, <1>8, <1>9, <2>1, <2>3, <2>4
<1>13. CASE NodeExtends
    <2>1. /\ pc' = pc /\ total' = total /\ scanned' = scanned /\ mode' = mode
          /\ active' = active /\ conf' = conf /\ batch' = batch /\ todo' = todo /\ dl' = dl
          /\ proc' = proc /\ pages' = pages /\ results' = results /\ faults' = faults
          /\ outcome' = outcome /\ next' = next /\ tip' = tip + 1 /\ tip < MaxTip
        BY <1>13 DEF NodeExtends, db, loop, tasks
    <2>2. tip' \in Heights
        BY <1>1, <2>1 DEF Heights
    <2> QED BY <1>1, <1>8, <1>9, <2>1, <2>2
<1> QED BY <1>2, <1>3, <1>4, <1>5, <1>6, <1>7, <1>10, <1>11, <1>12, <1>13

-----------------------------------------------------------------------------
(* The inductive invariant holds throughout.                               *)
THEOREM Invariance == Spec => []IInv
<1>1. Init => IInv
    <2> SUFFICES ASSUME Init PROVE IInv
        OBVIOUS
    <2>1. /\ pc = "plan" /\ total = 0 /\ outcome = "running" /\ faults = 0 /\ next = First
          /\ conf = [start |-> 0, end |-> MaxTip + 1, limit |-> batch_size]
          /\ dl = [step |-> "done", from |-> 0, tries |-> Fresh]
          /\ proc = [stopped |-> FALSE, tries |-> Fresh]
          /\ pages = <<>> /\ results = <<>> /\ batch = <<>> /\ todo = {} /\ active = {}
          /\ scanned = [a \in Accounts |-> {}] /\ tip = InitTip /\ mode \in ScanMode
        BY StreamAssumption DEF Init, NoConf, NoEnd, Idle, Ready
    <2>2. Fresh \in [Kinds -> Nat] /\ \A k \in Kinds : Fresh[k] = 0
        BY DEF Fresh
    <2>3. First \in [Accounts -> 0 .. MaxTip + 1] /\ \A a \in Accounts : First[a] \in Nat
        BY StreamAssumption
    <2>4. TypeOK
        BY <2>1, <2>2, <2>3, StreamAssumption DEF TypeOK, Heights
    <2>5. NoBlockIsSkipped
        BY <2>1, <2>3 DEF NoBlockIsSkipped
    <2>6. StreamIsInOrder /\ PartialBudget /\ PartialOvershootIsBounded
        BY <2>1, StreamAssumption DEF StreamIsInOrder, PartialBudget, PartialOvershootIsBounded
    <2>7. PagesAreCapped
        <3>1. DOMAIN pages = {} /\ DOMAIN results = {}
            BY <2>1
        <3> QED BY <2>1, <3>1, StreamAssumption DEF PagesAreCapped
    <2> QED BY <2>4, <2>5, <2>6, <2>7 DEF IInv
<1>2. IInv /\ [Next]_vars => IInv'
    <2> SUFFICES ASSUME IInv, [Next]_vars PROVE IInv'
        OBVIOUS
    <2>1. CASE Next
        BY <2>1, IInvOfTasks, IInvOfOpenStream, IInvOfApply, IInvOfRest
        DEF Next, TaskStep, Coordinator, Failure
    <2>2. CASE UNCHANGED vars
        <3>1. /\ tip' = tip /\ scanned' = scanned /\ mode' = mode /\ pc' = pc /\ outcome' = outcome
              /\ next' = next /\ total' = total /\ active' = active /\ conf' = conf
              /\ batch' = batch /\ todo' = todo /\ dl' = dl /\ proc' = proc /\ pages' = pages
              /\ results' = results /\ faults' = faults
            BY <2>2 DEF vars, db, loop, tasks
        <3>2. TypeOK' /\ NoBlockIsSkipped' /\ PartialOvershootIsBounded'
            BY <3>1 DEF IInv, TypeOK, NoBlockIsSkipped, Running, PartialOvershootIsBounded
        <3>3. PagesAreCapped' /\ PartialBudget'
            BY <3>1 DEF IInv, PagesAreCapped, Cap, PartialBudget
        <3>4. StreamIsInOrder'
            <4>1. \A p : InLine(p)' <=> InLine(p)
                BY <3>1 DEF InLine, Ahead, At, Clear, After, Consecutive, HeightsOf
            <4>2. BatchEnd' = BatchEnd /\ (Consecutive(HeightsOf(batch))' <=> Consecutive(HeightsOf(batch)))
                BY <3>1 DEF BatchEnd, Consecutive, HeightsOf
            <4>3. InLine(BatchEnd)' <=> InLine(BatchEnd)
                BY <4>1, <4>2
            <4>4. \A i \in active : InLine(next[Targets[i]])' <=> InLine(next[Targets[i]])
                BY <3>1, <4>1
            <4> QED BY <3>1, <4>2, <4>3, <4>4 DEF IInv, StreamIsInOrder
        <3> QED BY <3>2, <3>3, <3>4 DEF IInv
    <2> QED BY <2>1, <2>2
<1> QED BY <1>1, <1>2, PTL DEF Spec

(* No message, page or cursor ever holds a value the code does not write.  *)
THEOREM TypeCorrect == Spec => []TypeOK
BY Invariance, PTL DEF IInv

(* However many accounts start at whatever heights, however the channels   *)
(* are interleaved and wherever a run is cut short: resume_height and      *)
(* process_blocks leave no gap in what an account has scanned.             *)
THEOREM NoGaps == Spec => []NoBlockIsSkipped
BY Invariance, PTL DEF IInv

(* ScanMode::Partial takes blocks beyond its limit (PartialScanKeepsLimit  *)
(* fails), since pages are delivered whole, but no more than a batch and a *)
(* block of them.                                                          *)
THEOREM PartialOvershoot == Spec => []PartialOvershootIsBounded
BY Invariance, PTL DEF IInv
=============================================================================
