------------------------- MODULE MCDisplayedHistory -------------------------
(***************************************************************************)
(* Two payments; the sender spends the first and gets change; the other is *)
(* spent elsewhere, without change.                                        *)
(*                                                                         *)
(* The instance is too small to put the search for the inputs of a change  *)
(* output to the test.  Therefore blocks of values are grown beside the    *)
(* history, one input or one output at a time, while it has not begun: the *)
(* search is compared with its meaning on every block with up to MaxInputs *)
(* spent inputs and MaxTargets change outputs.                             *)
(***************************************************************************)
EXTENDS DisplayedHistory

CONSTANTS pay1, pay2, sent1, made1, change1

CONSTANTS
    MaxInputs,   \* bound: inputs of a block of values
    MaxTargets,  \* bound: change outputs of a block of values
    MaxValue,    \* bound: value of an input
    MaxTarget    \* bound: cost of a transaction

VARIABLES
    nums,        \* values of the inputs, ascending
    targets      \* cost of the transaction of each change output

MCReceipts == {pay1, pay2}
MCSent     == {sent1}
MCForeign  == {made1}
MCItems    == {pay1, pay2, sent1, made1}
MCSpends   == (sent1 :> {pay1}) @@ (made1 :> {pay2})
MCChange   == (sent1 :> {change1}) @@ (made1 :> {})
MCValue    == (pay1 :> 5) @@ (pay2 :> 3) @@ (change1 :> 2)
MCPaid     == (sent1 :> 3) @@ (made1 :> 3)
MCNeeds    == (pay1 :> {}) @@ (pay2 :> {}) @@ (sent1 :> {pay1}) @@ (made1 :> {pay2})

(* search_inputs sorts what it is given: an input is no smaller than those *)
(* before it.                                                              *)
AddInput(v) ==
    /\ Len(nums) < MaxInputs
    /\ \A k \in DOMAIN nums : nums[k] <= v
    /\ nums' = Append(nums, v)
    /\ UNCHANGED targets

AddOutput(v) ==
    /\ Len(targets) < MaxTargets
    /\ targets' = Append(targets, v)
    /\ UNCHANGED nums

GrowBlock == (\E v \in 1 .. MaxValue : AddInput(v)) \/ (\E v \in 1 .. MaxTarget : AddOutput(v))

NotBegun == mempool = {} /\ chain = <<>> /\ rows = <<>> /\ \A t \in Sent : sender[t] = "new"

NoBlock == nums = <<>> /\ targets = <<>>

MCNext ==
    \/ Next /\ NoBlock /\ UNCHANGED <<nums, targets>>
    \/ NotBegun /\ GrowBlock /\ UNCHANGED vars

MCInit == Init /\ NoBlock

MCSpec == MCInit /\ [][MCNext]_<<vars, nums, targets>>

(* The inputs found for a change output (processor.rs, solve_back_track)   *)
(* add up to what its transaction cost, and no two outputs share an input. *)
SolutionsAreSound == IsSound(nums, targets)

(* The search finds the inputs of a change output whenever a set of those  *)
(* that are left adds up: nothing is lost to the pruning (back_track).     *)
FoundWhenPossible == IsComplete(nums, targets)
=============================================================================
