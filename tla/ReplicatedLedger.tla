-------------------------- MODULE ReplicatedLedger --------------------------
(***************************************************************************)
(* What a consortium promises of the blocks it certifies, whatever rounds,  *)
(* late commits, syncs, restarts and crashes it goes through:               *)
(*                                                                         *)
(*   - the certified blocks are one chain: a block is certified only on top *)
(*     of the last one, and stays certified;                               *)
(*   - the keeper, the node that proposes, stores a block in the step that  *)
(*     certifies it, and a step certifies at most one;                      *)
(*   - a database takes over certified blocks only, each with its height    *)
(*     and its predecessor, and loses none.                                *)
(*                                                                         *)
(* So the keeper stores the whole ledger and every copy is a part of it.    *)
(* PbftCluster and ConsortiumNode implement this module.                    *)
(***************************************************************************)
EXTENDS Naturals

CONSTANTS
    Nodes,
    Keeper,    \* the node that proposes
    Genesis,   \* the entry every database starts with
    Blocks     \* the blocks that may be built

VARIABLES
    ledger,    \* the entries of the certified blocks and genesis
    copies     \* node -> the entries in its database

vars == <<ledger, copies>>

Init ==
    /\ ledger = {Genesis}
    /\ copies = [n \in Nodes |-> {Genesis}]

\* A quorum for block b on top of the last one.
Certify(b, last) ==
    LET e == [height |-> last.height + 1, block |-> b, prev |-> last.block]
    IN  /\ \A f \in ledger : f.height <= last.height /\ f.block # b
        /\ ledger' = ledger \cup {e}
        /\ copies' = [copies EXCEPT ![Keeper] = @ \cup {e}]

\* Commits and syncs at any number of nodes.
Replicate ==
    /\ copies' \in [Nodes -> SUBSET ledger]
    /\ \A n \in Nodes : copies[n] \subseteq copies'[n]
    /\ UNCHANGED ledger

Next ==
    \/ Replicate
    \/ \E b \in Blocks, last \in ledger : Certify(b, last)

Spec == Init /\ [][Next]_vars
=============================================================================
