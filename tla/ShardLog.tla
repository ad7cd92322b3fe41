------------------------------ MODULE ShardLog ------------------------------
(***************************************************************************)
(* What the consensus of a shard promises, without messages: the leader    *)
(* proposes one block at a time; every node delivers only proposed blocks, *)
(* each at most once; the leader delivers them in the order of their       *)
(* heights and proposes the next block only after it delivered the last.   *)
(* (Nothing is promised about the order at the other nodes: see the        *)
(* run of SameBlockchain.)                                                 *)
(***************************************************************************)
EXTENDS Integers, Sequences

CONSTANTS Node, leader

VARIABLES proposals,   \* number of blocks proposed
          delivered    \* sequence of blocks, per node

Block(k) == [id |-> k, number |-> k]

LogInit ==
    /\ proposals = 0
    /\ delivered = [n \in Node |-> << >>]

ProposeNext ==
    /\ Len(delivered[leader]) = proposals
    /\ proposals' = proposals + 1
    /\ UNCHANGED delivered

Deliver(n, k) ==
    /\ \A i \in 1 .. Len(delivered[n]) : delivered[n][i] # Block(k)
    /\ n = leader => k = Len(delivered[n]) + 1
    /\ delivered' = [delivered EXCEPT ![n] = Append(@, Block(k))]
    /\ UNCHANGED proposals

LogNext ==
    \/ ProposeNext
    \/ \E n \in Node : \E k \in 1 .. proposals : Deliver(n, k)

LogSpec == LogInit /\ [][LogNext]_<<proposals, delivered>>
=============================================================================
