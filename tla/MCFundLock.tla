----------------------------- MODULE MCFundLock -----------------------------
(* FundLock on small instances: two calls over two outputs mined at        *)
(* different heights.  Two calls are enough for every race of a call with  *)
(* a call, with the unlocker and with the scanner; a third call only       *)
(* repeats one of the two roles.                                           *)
EXTENDS FundLock, FiniteSets, TLC

CONSTANTS o1, o2, l1, l2, s1, s2

TwoOutputs == {o1, o2}
MCHeight   == (o1 :> 1) @@ (o2 :> 2)

(* A call and its retry with the same key.                                 *)
SameKey == [c \in Calls |-> 1]

(* Two payments with different keys.                                       *)
OwnKeys == [c \in Calls |-> IF c = l1 THEN 1 ELSE 2]

(* Two senders, or a sender and a locker: one of three calls never comes.  *)
OnePair == Cardinality({c \in Calls : pc[c] \notin {"validate", "find"}}) <= 2
=============================================================================
