------------------------------ MODULE LoopNest ------------------------------
(***************************************************************************)
(* One function as the block separator sees it: the basic blocks of its    *)
(* loops, the nest those loops form, and the two modes an instruction can  *)
(* have.                                                                   *)
(*                                                                         *)
(* The instructions of the function are numbered in layout order, so an    *)
(* original basic block is an interval of numbers.  Its first phis         *)
(* instructions are phi nodes and the last one is its terminator, which    *)
(* cannot be a phi node.  Blocks outside every loop are left out: the      *)
(* separator only walks blocks of loops.                                   *)
(***************************************************************************)
EXTENDS Integers, Sequences

CONSTANTS
  Loops,      \* the loops of LoopInfo
  Preorder,   \* LoopInfo::getLoopsInPreorder(), computed once by the pass
  Enclosing,  \* [Loops -> SUBSET Loops]: a loop and the loops around it
  Layout,     \* the original blocks: a sequence of [lo, phis, hi, loop]
  UncondBrs   \* the instructions that are unconditional branches

Instrs == UNION {Layout[o].lo .. Layout[o].hi : o \in DOMAIN Layout}

ASSUME NestAssumption ==
  /\ Preorder \in Seq(Loops)
  /\ \A i, j \in DOMAIN Preorder : Preorder[i] = Preorder[j] => i = j
  /\ Enclosing \in [Loops -> SUBSET Loops]

ASSUME LayoutAssumption ==
  /\ Layout \in Seq([lo : Nat, phis : Nat, hi : Nat, loop : Loops])
  /\ \A o \in DOMAIN Layout : Layout[o].lo + Layout[o].phis <= Layout[o].hi
  /\ \A o, q \in DOMAIN Layout :
       o # q => Layout[o].lo .. Layout[o].hi \cap Layout[q].lo .. Layout[q].hi = {}

\* Only a terminator is a branch.
ASSUME BranchAssumption == UncondBrs \subseteq {Layout[o].hi : o \in DOMAIN Layout}

Mode == {"Iterator", "Payload"}

InvertMode(m) == IF m = "Payload" THEN "Iterator" ELSE "Payload"

\* What BuildITRInfo may hand to the pass: for every loop it knows, the set of
\* that loop's instructions that belong to the loop's iterator.
IteratorInfos ==
  {info \in UNION {[K -> SUBSET Instrs] : K \in SUBSET Loops} :
     \A l \in DOMAIN info : \A i \in info[l] : \E o \in DOMAIN Layout :
        i \in Layout[o].lo .. Layout[o].hi /\ l \in Enclosing[Layout[o].loop]}
=============================================================================
