----------------------------- MODULE ScanStream -----------------------------
(***************************************************************************)
(* A scan of several accounts over a chain that only grows: the loop of    *)
(* the scan coordinator (scan/coordinator.rs, in its three modes), the     *)
(* HTTP scanner's download task and processing task                        *)
(* (scanning/http/scanner.rs), the two channels between them and the retry *)
(* loops around every request.  Reorganisations are ScanLedger's subject:  *)
(* here a block is its height.                                             *)
(*                                                                         *)
(* The download task hands a page of blocks to the processing task, which  *)
(* tries the keys of the accounts of the stream on it and passes the batch *)
(* on to the coordinator.  Errors of the download and the empty batch that *)
(* marks its end go to the coordinator directly, on the second channel.    *)
(* Both channels hold 1000 messages; that limit is not reached here.       *)
(***************************************************************************)
EXTENDS Integers, Sequences, FiniteSets, SequencesExt, FiniteSetsExt

CONSTANTS
    Targets,        \* the accounts of the scan, a sequence in scanning order
    First,          \* first height of an account, from its birthday
    Owners,         \* the accounts that own an output of the block at a height
    Modes,          \* the scan modes to consider
    InitTip,        \* height of the node's chain when the scan begins ...
    MaxTip,         \* ... and the height it may grow to
    batch_size,
    max_blocks,     \* of ScanMode::Partial
    max_error_retries,
    MaxFaults       \* bound on failures, kills and cancellations

Accounts == ToSet(Targets)
Heights  == 0 .. MaxTip

ScanMode == {"Full", "Partial", "Continuous"}

ASSUME StreamAssumption ==
    /\ Targets \in Seq(Accounts) /\ Targets # <<>>
    /\ First \in [Accounts -> 0 .. InitTip]
    /\ Owners \in [Heights -> SUBSET Accounts]
    /\ Modes \subseteq ScanMode
    /\ MaxTip \in Nat /\ InitTip \in 0 .. MaxTip
    /\ batch_size \in Nat \ {0} /\ max_blocks \in Nat \ {0}
    /\ max_error_retries \in Nat \ {0} /\ MaxFaults \in Nat

VARIABLES
    tip,       \* height of the node's chain
    scanned,   \* scanned_tip_blocks: heights on record per account
    recorded,  \* outputs table: heights whose output is stored, per account
    mode,      \* ScanMode of the run
    pc,        \* the coordinator: "plan", "recv", "apply", "poll" or "ended"
    outcome,   \* how the run ended
    cancelled, \* the CancellationToken
    next,      \* next_block_to_scan of every target
    total,     \* total_scanned_globally; it matters to the Partial mode alone
    active,    \* the accounts the HTTP scanner was built for: places in Targets
    conf,      \* ScanConfig of the stream: start, end, limit
    batch,     \* the batch being applied ...
    todo,      \* ... and the active accounts it is still to be applied to
    dl,        \* download task: step, next height, failures of the request
    proc,      \* processing task: failures of its request, or stopped
    pages,     \* channel from the download to the processing task
    results,   \* channel to the coordinator
    faults

db    == <<scanned, recorded>>
loop  == <<pc, outcome, cancelled, next, total, active, conf, batch, todo>>
tasks == <<dl, proc, pages, results>>
vars  == <<tip, db, mode, loop, tasks, faults>>

-----------------------------------------------------------------------------
(* Requests.  Each one is repeated until it is answered or has failed      *)
(* max_error_retries times with an error, or that often with a timeout.    *)

Kinds == {"error", "timeout"}
Fresh == [k \in Kinds |-> 0]

Retry(r, k) == [r EXCEPT ![k] = @ + 1]

Exhausted(r) == \E k \in Kinds : r[k] >= max_error_retries

Fault(n) == faults + n <= MaxFaults /\ faults' = faults + n

-----------------------------------------------------------------------------
(* Messages.  A block of a batch is its height and the indices, into the   *)
(* keys of the scanner, of the accounts an output was recovered for.       *)

Error       == [ok |-> FALSE, blocks |-> <<>>]
Batch(bs)   == [ok |-> TRUE, blocks |-> bs]
Marker      == Batch(<<>>)

(* Index of the key of an account among the keys of the scanner.           *)
wallet_index(i) == Cardinality({j \in active : j <= i})

scan_for_recoverable_output(h) ==
    {wallet_index(i) : i \in {j \in active : Targets[j] \in Owners[h]}}

(* The blocks of a page that are fetched in full.                          *)
get_utxos_by_block(page) == {h \in ToSet(page) : scan_for_recoverable_output(h) # {}}

(* The blocks of a page are finished in any order by the thread pool; the  *)
(* batch is sorted by height, the order they have in the page.             *)
Processed(page) ==
    [i \in DOMAIN page |-> [height |-> page[i], found |-> scan_for_recoverable_output(page[i])]]

-----------------------------------------------------------------------------
(* The download task.                                                      *)

Running == pc # "ended"

(* The two tasks before their first step.                                  *)
Idle  == [step |-> "done", from |-> 0, tries |-> Fresh]
Ready == [stopped |-> FALSE, tries |-> Fresh]

(* The node's answers.                                                     *)
get_tip_info                 == tip
get_header_by_height(h)      == h <= tip
sync_utxos_by_block(h, limit) == [i \in 1 .. Min({limit, tip - h + 1}) |-> h + i - 1]

TipAnswered ==
    /\ Running /\ dl.step = "tip"
    /\ IF conf.start > get_tip_info
         THEN /\ dl' = [dl EXCEPT !.step = "done"]
              /\ results' = Append(results, Marker)
         ELSE /\ dl' = [dl EXCEPT !.step = "header", !.tries = Fresh]
              /\ UNCHANGED results
    /\ UNCHANGED <<tip, db, mode, loop, proc, pages, faults>>

(* A tip that cannot be had ends the task without a word.                  *)
TipFails(k) ==
    /\ Running /\ dl.step = "tip" /\ Fault(1)
    /\ LET r == Retry(dl.tries, k) IN
       dl' = [dl EXCEPT !.tries = r, !.step = IF Exhausted(r) THEN "done" ELSE @]
    /\ UNCHANGED <<tip, db, mode, loop, proc, pages, results>>

HeaderAnswered ==
    /\ Running /\ dl.step = "header"
    /\ get_header_by_height(conf.start)
    /\ dl' = [step |-> "page", from |-> conf.start, tries |-> Fresh]
    /\ UNCHANGED <<tip, db, mode, loop, proc, pages, results, faults>>

(* Any other request that cannot be had sends its error past the batches.  *)
Refuse(k) ==
    LET r == Retry(dl.tries, k) IN
    IF Exhausted(r)
      THEN /\ dl' = [dl EXCEPT !.step = "done"]
           /\ results' = Append(results, Error)
      ELSE /\ dl' = [dl EXCEPT !.tries = r]
           /\ UNCHANGED results

HeaderFails(k) ==
    /\ Running /\ dl.step = "header" /\ Fault(1)
    /\ Refuse(k)
    /\ UNCHANGED <<tip, db, mode, loop, proc, pages>>

PageFails(k) ==
    /\ Running /\ dl.step = "page" /\ Fault(1)
    /\ Refuse(k)
    /\ UNCHANGED <<tip, db, mode, loop, proc, pages>>

(* Hands a page over.  The send fails once the processing task has gone.   *)
Deliver(page, step, from) ==
    IF proc.stopped
      THEN dl' = [dl EXCEPT !.step = "done"] /\ UNCHANGED pages
      ELSE /\ pages' = Append(pages, page)
           /\ dl' = [step |-> step, from |-> from, tries |-> Fresh]

(* A page that crosses the end height is the last one, and is delivered    *)
(* whole; so is the one after which the node names no next header.         *)
FaultNoEndHeight ==
    /\ Running /\ dl.step = "page"
    /\ LET page == sync_utxos_by_block(dl.from, conf.limit)
           more == dl.from + conf.limit <= tip IN
       Deliver(page, IF more THEN "page" ELSE "marker", dl.from + conf.limit)
    /\ UNCHANGED <<tip, db, mode, loop, proc, results, faults>>
fetch_block_range ==
    /\ Running /\ dl.step = "page"
    /\ LET page    == sync_utxos_by_block(dl.from, conf.limit)
           crosses == \E i \in DOMAIN page : page[i] > conf.end
           more    == dl.from + conf.limit <= tip /\ ~ crosses IN
       Deliver(page, IF more THEN "page" ELSE "marker", dl.from + conf.limit)
    /\ UNCHANGED <<tip, db, mode, loop, proc, results, faults>>

(* The node answers with no block at all: an empty page, then the marker.  *)
NodeReturnsNothing ==
    /\ Running /\ dl.step = "page" /\ Fault(1)
    /\ Deliver(<<>>, "marker", dl.from)
    /\ UNCHANGED <<tip, db, mode, loop, proc, results>>

SendMarker ==
    /\ Running /\ dl.step = "marker"
    /\ dl' = [dl EXCEPT !.step = "done"]
    /\ results' = Append(results, Marker)
    /\ UNCHANGED <<tip, db, mode, loop, proc, pages, faults>>

-----------------------------------------------------------------------------
(* The processing task.  A block with an output of the wallet is looked up *)
(* in full; the lookups of a page run at once and the first that fails for *)
(* good ends the stream, so one stands for them all.                       *)

ProcessPage ==
    /\ Running /\ pages # <<>> /\ ~ proc.stopped
    /\ results' = Append(results, Batch(Processed(Head(pages))))
    /\ pages' = Tail(pages)
    /\ proc' = Ready
    /\ UNCHANGED <<tip, db, mode, loop, dl, faults>>

LookupFails(k) ==
    /\ Running /\ pages # <<>> /\ ~ proc.stopped
    /\ get_utxos_by_block(Head(pages)) # {}
    /\ Fault(1)
    /\ LET r == Retry(proc.tries, k) IN
       IF Exhausted(r)
         THEN /\ proc' = [stopped |-> TRUE, tries |-> Fresh]
              /\ pages' = <<>>
              /\ results' = Append(results, Error)
         ELSE /\ proc' = [proc EXCEPT !.tries = r]
              /\ UNCHANGED <<pages, results>>
    /\ UNCHANGED <<tip, db, mode, loop, dl>>

-----------------------------------------------------------------------------
(* The coordinator.                                                        *)

(* The accounts that are furthest behind are scanned, up to the height of  *)
(* the next one; a Partial scan also stops at its limit.                   *)
global_next   == Min({next[a] : a \in Accounts})
Behind        == {i \in DOMAIN Targets : next[Targets[i]] = global_next}
Horizons      == {next[a] : a \in Accounts} \ {global_next}
NoEnd         == MaxTip + 1
end_height ==
    Min({h - 1 : h \in Horizons} \cup {NoEnd}
        \cup (IF mode = "Partial" THEN {global_next + max_blocks - total} ELSE {}))
effective_batch_size == Min({h - global_next : h \in Horizons} \cup {batch_size})

(* The receiver is dropped: what the tasks still send goes nowhere.        *)
NoConf == [start |-> 0, end |-> NoEnd, limit |-> batch_size]
CloseStream ==
    /\ conf' = NoConf /\ dl' = Idle /\ proc' = Ready
    /\ pages' = <<>> /\ results' = <<>>

End(how) ==
    /\ pc' = "ended" /\ outcome' = how
    /\ CloseStream
    /\ active' = {} /\ batch' = <<>> /\ todo' = {}

handle_pause ==
    /\ pc = "plan" /\ cancelled
    /\ End("cancelled")
    /\ UNCHANGED <<tip, db, mode, cancelled, next, total, faults>>

(* scan_blocks: two new tasks and two new channels.                        *)
FaultIgnoreCancel ==
    /\ pc = "plan"
    /\ active' = Behind
    /\ conf' = [start |-> global_next, end |-> end_height, limit |-> effective_batch_size]
    /\ dl' = [step |-> "tip", from |-> 0, tries |-> Fresh]
    /\ proc' = Ready
    /\ pages' = <<>> /\ results' = <<>>
    /\ pc' = "recv"
    /\ UNCHANGED <<tip, db, mode, outcome, cancelled, next, total, batch, todo, faults>>
OpenStream ==
    /\ pc = "plan" /\ ~ cancelled
    /\ active' = Behind
    /\ conf' = [start |-> global_next, end |-> end_height, limit |-> effective_batch_size]
    /\ dl' = [step |-> "tip", from |-> 0, tries |-> Fresh]
    /\ proc' = Ready
    /\ pages' = <<>> /\ results' = <<>>
    /\ pc' = "recv"
    /\ UNCHANGED <<tip, db, mode, outcome, cancelled, next, total, batch, todo, faults>>

(* A scanner for other accounts is built anew and first tries the node,    *)
(* once.                                                                   *)
ConnectionTestFails ==
    /\ pc = "plan" /\ ~ cancelled /\ active # Behind
    /\ Fault(1)
    /\ End("unreachable")
    /\ UNCHANGED <<tip, db, mode, cancelled, next, total>>

(* After the stream.  One that was closed without a marker is opened again *)
(* at once; the Continuous mode steps every account back by a block.       *)
AfterStream(is_batch_empty) ==
    LET full == mode = "Partial" /\ total >= max_blocks IN
    \/ full /\ End("limit") /\ UNCHANGED next
    \/ /\ ~ full /\ is_batch_empty /\ mode # "Continuous"
       /\ End("completed") /\ UNCHANGED next
    \/ /\ ~ full /\ is_batch_empty /\ mode = "Continuous"
       /\ next' = [a \in Accounts |-> Max({next[a] - 1, 0})]
       /\ pc' = "poll" /\ CloseStream
       /\ UNCHANGED <<outcome, active, batch, todo>>
    \/ /\ ~ full /\ ~ is_batch_empty
       /\ pc' = "plan" /\ CloseStream
       /\ UNCHANGED <<outcome, next, active, batch, todo>>

Receive ==
    /\ pc = "recv" /\ results # <<>>
    /\ LET msg == Head(results) IN
       \/ ~ msg.ok /\ End("failed") /\ UNCHANGED next
       \/ msg = Marker /\ AfterStream(TRUE)
       \/ /\ msg.ok /\ msg # Marker
          /\ results' = Tail(results)
          /\ pc' = "apply" /\ batch' = msg.blocks /\ todo' = active
          /\ UNCHANGED <<outcome, next, active, conf, dl, proc, pages>>
    /\ UNCHANGED <<tip, db, mode, cancelled, total, faults>>

StreamClosed ==
    /\ pc = "recv" /\ results = <<>> /\ pages = <<>> /\ dl.step = "done"
    /\ AfterStream(FALSE)
    /\ UNCHANGED <<tip, db, mode, cancelled, total, faults>>

(* The blocks of a batch an account takes, and the outputs it stores of    *)
(* them: those whose index among the keys of the scanner is the account's  *)
(* index among all the accounts of the scan.                               *)
FaultSkipFirst(a) == {i \in DOMAIN batch : batch[i].height > next[a]}
process_blocks(a) == {i \in DOMAIN batch : batch[i].height >= next[a]}

wallet_index_to_account_id == Targets
process_outputs(a, blocks) ==
    {batch[i].height : i \in {j \in blocks :
        \E k \in batch[j].found : wallet_index_to_account_id[k] = a}}

(* One account, in one database transaction.                               *)
Apply ==
    /\ pc = "apply"
    /\ LET a == Targets[Min(todo)]  taken == process_blocks(a) IN
       /\ scanned'  = [scanned EXCEPT ![a] = @ \cup {batch[i].height : i \in taken}]
       /\ recorded' = [recorded EXCEPT ![a] = @ \cup process_outputs(a, taken)]
       /\ next'     = [next EXCEPT ![a] = Last(batch).height + 1]
    /\ todo' = todo \ {Min(todo)}
    /\ IF todo' = {}
         THEN /\ pc' = "recv" /\ batch' = <<>>
              /\ total' = IF mode = "Partial" THEN total + Len(batch) ELSE total
         ELSE UNCHANGED <<pc, batch, total>>
    /\ UNCHANGED <<tip, mode, outcome, cancelled, active, conf, tasks, faults>>

(* The sleep is over or interrupted; the check finds no reorg here.        *)
wait_for_next_poll_cycle ==
    /\ pc = "poll"
    /\ pc' = "plan"
    /\ UNCHANGED <<tip, db, mode, outcome, cancelled, next, total, active, conf, batch,
                   todo, tasks, faults>>

(* A reorg check, after a poll or between two batches, whose requests fail *)
(* for good ends the run with a fatal error.                               *)
check_global_reorgs_fails ==
    /\ pc \in {"poll", "recv"}
    /\ Fault(max_error_retries)
    /\ End("fatal")
    /\ UNCHANGED <<tip, db, mode, cancelled, next, total>>

-----------------------------------------------------------------------------
(* The program around the coordinator.                                     *)

Cancel ==
    /\ Running /\ ~ cancelled /\ Fault(1)
    /\ cancelled' = TRUE
    /\ UNCHANGED <<tip, db, mode, pc, outcome, next, total, active, conf, batch, todo, tasks>>

Kill ==
    /\ Running /\ Fault(1)
    /\ End("killed")
    /\ UNCHANGED <<tip, db, mode, cancelled, next, total>>

FaultResumeTogether(a) ==
    IF scanned[a] = {} THEN First[a] ELSE Max(UNION {scanned[b] : b \in Accounts}) + 1
resume_height(a) == IF scanned[a] = {} THEN First[a] ELSE Max(scanned[a]) + 1

(* The daemon's next cycle, or the command given once more.                *)
NextRun ==
    /\ pc = "ended"
    /\ pc' = "plan" /\ outcome' = "running" /\ cancelled' = FALSE
    /\ next' = [a \in Accounts |-> resume_height(a)]
    /\ total' = 0
    /\ UNCHANGED <<tip, db, mode, active, conf, batch, todo, tasks, faults>>

NodeExtends ==
    /\ tip < MaxTip
    /\ tip' = tip + 1
    /\ UNCHANGED <<db, mode, loop, tasks, faults>>

Init ==
    /\ tip = InitTip
    /\ scanned = [a \in Accounts |-> {}] /\ recorded = [a \in Accounts |-> {}]
    /\ mode \in Modes
    /\ pc = "plan" /\ outcome = "running" /\ cancelled = FALSE
    /\ next = First
    /\ total = 0 /\ active = {} /\ batch = <<>> /\ todo = {}
    /\ conf = NoConf
    /\ dl = Idle /\ proc = Ready
    /\ pages = <<>> /\ results = <<>>
    /\ faults = 0

Download    == TipAnswered \/ HeaderAnswered \/ fetch_block_range \/ SendMarker
Coordinator == \/ handle_pause \/ OpenStream \/ Receive \/ StreamClosed \/ Apply
               \/ wait_for_next_poll_cycle \/ NextRun
Failure ==
    \/ \E k \in Kinds : TipFails(k) \/ HeaderFails(k) \/ PageFails(k) \/ LookupFails(k)
    \/ NodeReturnsNothing \/ ConnectionTestFails \/ check_global_reorgs_fails
    \/ Cancel \/ Kill

Next == Download \/ ProcessPage \/ Coordinator \/ Failure \/ NodeExtends

Spec == Init /\ [][Next]_vars

(* Both tasks and the coordinator go on, requests are answered once the    *)
(* failures are used up, and the daemon or its user runs the scan again.   *)
FairSpec ==
    Spec /\ WF_vars(Download) /\ WF_vars(ProcessPage) /\ WF_vars(Coordinator)

-----------------------------------------------------------------------------

(* No block is passed over, whatever fails and wherever the accounts are:  *)
(* what an account has on record has no gap above its first height, and    *)
(* its cursor never stands beyond the first block it lacks.                *)
NoBlockIsSkipped ==
    \A a \in Accounts :
        /\ \A h \in scanned[a] : First[a] .. h \subseteq scanned[a]
        /\ Running => First[a] .. (next[a] - 1) \subseteq scanned[a]

(* scan/config.rs promises of a Partial scan to "Scan at most" max_blocks  *)
(* blocks, the "Maximum number of blocks to scan before stopping".  The    *)
(* end height is inclusive, and a page that crosses it is delivered whole. *)
PartialScanKeepsLimit == mode = "Partial" => total <= max_blocks

(* What the code keeps instead: the pages on their way when the limit is   *)
(* reached, to which the coordinator applies no limit, make no more than a *)
(* batch and a block beyond it.                                            *)
PartialOvershootIsBounded == total <= max_blocks + batch_size + 1

(* A Full or Partial run comes to an end, and any run does once its token  *)
(* is cancelled.                                                           *)
RunsEnd == (mode # "Continuous" \/ cancelled) ~> pc = "ended"

CaughtUp == \A a \in Accounts : First[a] .. tip \subseteq scanned[a]

(* The marker reaches the coordinator before a batch, which is dropped.    *)
Overtaken ==
    /\ Receive /\ Head(results) = Marker
    /\ pages # <<>> \/ \E i \in 2 .. Len(results) : results[i].blocks # <<>>

(* Runs of a Full or Partial scan, one after the other, bring every        *)
(* account to the node's tip, from whatever heights the accounts start and *)
(* wherever runs are cut short, unless the marker overtakes a batch again  *)
(* and again.                                                              *)
EveryAccountCatchesUp ==
    mode # "Continuous" /\ <>[][~ Overtaken]_vars => <>[]CaughtUp

(* block_processor.rs takes the accounts of the scan as the "Ordered list  *)
(* mapping scanner wallet index to (account_id, account_view_key)": every  *)
(* output of an account in a block it has scanned is stored for it.        *)
OwnOutputsAreStored ==
    \A a \in Accounts : \A h \in scanned[a] : a \in Owners[h] => h \in recorded[a]

=============================================================================
