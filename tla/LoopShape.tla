------------------------------ MODULE LoopShape ------------------------------
(***************************************************************************)
(* A loop of the control flow graph as the block selectors see it.  A loop *)
(* shape is a record                                                       *)
(*   blocks   the blocks of the loop, those of inner loops included        *)
(*   succ     the successors of each block inside the loop                 *)
(*   header   the loop header; only it has predecessors outside the loop   *)
(*   payload  GetPayloadOnlyBlocks: the blocks without an instruction of   *)
(*            the loop's iterator                                          *)
(*   inner    the headers of the inner loops, each with the blocks of the  *)
(*            loop it heads                                                *)
(* Successors outside the loop are left out: no selector looks at them.    *)
(***************************************************************************)
EXTENDS Naturals, Sequences

CONSTANTS
  Blocks,      \* all basic blocks
  LoopShapes   \* the loops the selectors may be called for

ASSUME ShapeAssumption ==
  \A L \in LoopShapes :
     /\ L.blocks \subseteq Blocks
     /\ L.header \in L.blocks
     /\ L.succ \in [L.blocks -> SUBSET L.blocks]
     /\ L.payload \subseteq L.blocks
     /\ DOMAIN L.inner \subseteq L.blocks \ {L.header}
     /\ L.inner \in [DOMAIN L.inner -> SUBSET L.blocks]
     \* An inner loop leaves the header out and is entered through its own.
     /\ \A d \in DOMAIN L.inner :
           /\ d \in L.inner[d] /\ L.header \notin L.inner[d]
           /\ \A p \in L.blocks \ L.inner[d] : L.succ[p] \cap L.inner[d] \subseteq {d}

Preds(L, b) == {p \in L.blocks : b \in L.succ[p]}

Latches(L) == {b \in L.blocks : L.header \in L.succ[b]}

\* Loop::getLoopLatch: the latch if there is only one, nothing otherwise.
LoopLatch(L) == {b \in Latches(L) : Latches(L) = {b}}

\* The blocks of the loop that iterator and payload instructions share, or
\* that are all iterator.
IteratorBlocks(L) == L.blocks \ L.payload

\* S holds the successors within A of all its members.
Closed(L, A, S) == \A b \in S : L.succ[b] \cap A \subseteq S

\* The members of A that paths within A lead to from the blocks in From: they
\* are in every closed set that holds From.
Reachable(L, A, From) ==
  {b \in A : \A S \in SUBSET A : From \subseteq S /\ Closed(L, A, S) => b \in S}
=============================================================================
