--------------------------- MODULE PayloadWeights ---------------------------
(***************************************************************************)
(* CalculatePayloadWeight: what a block is worth to the weighted selector. *)
(* Each instruction adds the weight of its kind; an unconditional branch   *)
(* is free, other terminators count as plain instructions.  The sums are   *)
(* 32 bits wide in the code; no block holds enough instructions to reach   *)
(* that.                                                                   *)
(***************************************************************************)
EXTENDS Naturals, FiniteSetsExt

MemoryKinds == {"load", "store", "alloca", "gep", "memintrinsic"}

Kinds == MemoryKinds \cup {"cast", "dbg", "call", "br", "other"}

KindWeight ==
  [k \in Kinds |-> CASE k \in MemoryKinds -> 20
                     [] k = "call" -> 35
                     [] k = "other" -> 2
                     [] k = "br" -> 0
                     [] k \in {"cast", "dbg"} -> 1]

\* The weight of a block given as the sequence of its instructions' kinds.
BlockWeight(kinds) == MapThenSumSet(LAMBDA i : KindWeight[kinds[i]], DOMAIN kinds)
=============================================================================
