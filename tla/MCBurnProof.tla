---------------------------- MODULE MCBurnProof ----------------------------
(* Two burn requests, with the same idempotency key or with two of their   *)
(* own, over two coins.  The calls are alike, so that the first row of     *)
(* burn_proofs may be taken to be that of c1: what happens if it is that   *)
(* of c2 is the same with the names of calls and keys exchanged.           *)
EXTENDS BurnProof

CONSTANTS c1, c2, k1, k2

TwoCalls == {c1, c2}
TwoKeys  == {k1, k2}
OneOrTwo == {[c \in TwoCalls |-> k1], (c1 :> k1 @@ c2 :> k2)}
NoNeeds  == [c \in TwoCalls |-> {}]

FirstRowIsOfC1 == \A i \in {1} \cap DOMAIN proofs' : proofs'[i].call = c1

MCSpec == Init /\ [][Next /\ FirstRowIsOfC1]_vars /\ WF_vars(WorkerRound)
=============================================================================
