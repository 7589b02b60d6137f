-------------------------- MODULE MCBlockSeparator --------------------------
(***************************************************************************)
(* An outer loop around an inner one.  The outer header has two phi nodes, *)
(* two more instructions and an unconditional branch to the inner header;  *)
(* the inner loop is one block with two phi nodes; the latch of the outer  *)
(* loop is a conditional branch.                                           *)
(***************************************************************************)
EXTENDS BlockSeparator

CONSTANTS outer, inner

MCLoops == {outer, inner}

MCPreorder == <<outer, inner>>

MCEnclosing == [l \in MCLoops |-> IF l = inner THEN {outer, inner} ELSE {outer}]

MCLayout ==
  <<[lo |-> 1, phis |-> 2, hi |-> 5, loop |-> outer],
    [lo |-> 6, phis |-> 2, hi |-> 8, loop |-> inner],
    [lo |-> 9, phis |-> 0, hi |-> 9, loop |-> outer]>>

MCUncondBrs == {5}
=============================================================================
