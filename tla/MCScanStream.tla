---------------------------- MODULE MCScanStream ----------------------------
(* Two accounts whose birthdays differ, over a chain of up to six blocks;  *)
(* both own an output in some blocks.                                      *)
EXTENDS ScanStream, TLC

CONSTANTS a1, a2

TwoTargets == <<a1, a2>>
MCFirst    == (a1 :> 2) @@ (a2 :> 0)
MCOwners   == (1 :> {a2}) @@ (3 :> {a1}) @@ [h \in Heights |-> {}]
=============================================================================
