------------------------------ MODULE BaseNode ------------------------------
(***************************************************************************)
(* The base node as the wallet sees it through its HTTP interface: a best  *)
(* chain that grows and reorganises, and a pool of submitted transactions. *)
(* The node itself is not part of the repository.                          *)
(*                                                                         *)
(* Blocks are numbered in the order they are mined, over all branches; the *)
(* number stands for the block hash and bodies[b] for what block b holds   *)
(* of interest to the wallet.  0 is the all-zero hash.                     *)
(***************************************************************************)
EXTENDS Naturals, Sequences, FiniteSets, FiniteSetsExt, SequencesExt

CONSTANTS
    Items,       \* what a block may hold: payments to the wallet, transactions of it
    Needs,       \* Needs[i]: the items that must be mined before item i
    MaxHeight,   \* bound: length of the chain
    MaxBlocks,   \* bound: blocks mined on all branches
    MaxBody      \* bound: items in one block

VARIABLES
    chain,       \* the best chain: block numbers, element h is at height h
    bodies,      \* bodies[b]: the items in block b
    mempool      \* transactions submitted and accepted

node == <<chain, bodies, mempool>>

Tip == Len(chain)

(* The items mined in the first h blocks of a chain.                       *)
MinedIn(c, h) == UNION {bodies[c[k]] : k \in 1 .. h}

OnChain(item) == item \in MinedIn(chain, Tip)

(* Location of a mined item: its height and block.                         *)
HeightOf(item) == CHOOSE h \in 1 .. Tip : item \in bodies[chain[h]]

(* Bodies a miner may put on top of the first h blocks: items not mined    *)
(* there, with what they need at hand, and known to the node.              *)
Bodies(h, pool) ==
    {s \in SUBSET (pool \ MinedIn(chain, h)) :
        /\ Cardinality(s) <= MaxBody
        /\ \A i \in s : Needs[i] \subseteq MinedIn(chain, h) \cup s}

NodeInit ==
    /\ chain   = <<>>
    /\ bodies  = <<>>
    /\ mempool = {}

(* A block on top of the best chain.                                       *)
Mine(body) ==
    /\ Tip < MaxHeight
    /\ Len(bodies) < MaxBlocks
    /\ bodies' = Append(bodies, body)
    /\ chain'  = Append(chain, Len(bodies) + 1)
    /\ UNCHANGED mempool

(* Another branch wins: the blocks above height h are replaced.  What they *)
(* held is back in the pool until it is mined again.                       *)
Reorganise(h, body) ==
    /\ h < Tip
    /\ Len(bodies) < MaxBlocks
    /\ bodies' = Append(bodies, body)
    /\ chain'  = Append(SubSeq(chain, 1, h), Len(bodies) + 1)
    /\ UNCHANGED mempool

(* submit_transaction at the node: accepted into the pool, unless it is on *)
(* the chain already (AlreadyMined) or spends what is not there.           *)
Accept(tx)        == mempool' = mempool \cup {tx} /\ UNCHANGED <<chain, bodies>>
Acceptable(tx)    == ~ OnChain(tx) /\ Needs[tx] \subseteq MinedIn(chain, Tip) \cup mempool
=============================================================================
