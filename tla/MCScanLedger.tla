---------------------------- MODULE MCScanLedger ----------------------------
(***************************************************************************)
(* Two branches over a common block s1 at height 1.  c1 is mined below the *)
(* fork and spent on both branches at different heights; c2 is mined on    *)
(* branch a at height 2 and on branch b at height 3, and spent there; c3   *)
(* is mined in s1 and never spent.                                         *)
(***************************************************************************)
EXTENDS ScanLedger, TLC

CONSTANTS g, s1, a2, a3, b2, b3, b4, c1, c2, c3

MCBlocks == {g, s1, a2, a3, b2, b3, b4}

MCHeight == (g :> 0) @@ (s1 :> 1) @@ (a2 :> 2) @@ (a3 :> 3)
            @@ (b2 :> 2) @@ (b3 :> 3) @@ (b4 :> 4)

MCOuts == (s1 :> {c1, c3}) @@ (a2 :> {c2}) @@ (b3 :> {c2}) @@ [b \in MCBlocks |-> {}]
MCIns  == (a3 :> {c1}) @@ (b4 :> {c1, c2}) @@ [b \in MCBlocks |-> {}]

MCValue == (c1 :> 1) @@ (c2 :> 2) @@ (c3 :> 4)

BranchA == <<g, s1, a2, a3>>
BranchB == <<g, s1, b2, b3, b4>>
MCChains == {SubSeq(BranchA, 1, n) : n \in 2 .. 4} \cup {SubSeq(BranchB, 1, n) : n \in 2 .. 5}
=============================================================================
