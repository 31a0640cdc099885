---------------------------- MODULE MCTxMonitor ----------------------------
(* TxMonitor with one transaction, which one block on top confirms: the    *)
(* races are between the sender, the monitor and the node over one row.    *)
(* Rows do not touch each other but for the flag has_pending_outbound.     *)
EXTENDS TxMonitor

CONSTANT t1

OneTx   == {t1}
NoNeeds == [t \in OneTx |-> {}]
=============================================================================
