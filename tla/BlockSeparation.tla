--------------------------- MODULE BlockSeparation ---------------------------
(***************************************************************************)
(* What the block separator promises, without saying how: the blocks of a  *)
(* function are refined by cuts, every cut is one that some loop calls     *)
(* for, and the pass is done when every cut that is called for was made.   *)
(* A loop calls for a cut between two neighbouring instructions of a block *)
(* when their modes differ (an unconditional branch is never cut off), and *)
(* behind the phi nodes of a block whose phi nodes have different modes.   *)
(***************************************************************************)
EXTENDS LoopNest

VARIABLES
  itrInfo,   \* the iterator information, fixed for the whole pass
  eligible,  \* the function is defined and passes the white list
  cuts,      \* the instructions in front of which a block was cut
  done

vars == <<itrInfo, eligible, cuts, done>>

HomeMode(i, l) == IF i \in itrInfo[l] THEN "Iterator" ELSE "Payload"

IsPhi(o, i) == i < Layout[o].lo + Layout[o].phis

MixedPhis(o, l) ==
  \E i, j \in Layout[o].lo .. Layout[o].lo + Layout[o].phis - 1 :
     HomeMode(i, l) # HomeMode(j, l)

CalledForIn(o, l) ==
  {p \in Layout[o].lo + 1 .. Layout[o].hi :
     \/ MixedPhis(o, l) /\ p = Layout[o].lo + Layout[o].phis
     \/ /\ HomeMode(p, l) # HomeMode(p - 1, l)
        /\ p \notin UncondBrs
        /\ MixedPhis(o, l) => ~IsPhi(o, p - 1)}

CalledForBy(l) ==
  UNION {CalledForIn(o, l) : o \in {q \in DOMAIN Layout : l \in Enclosing[Layout[q].loop]}}

CalledFor ==
  IF eligible
  THEN UNION {CalledForBy(l) : l \in {Preorder[i] : i \in DOMAIN Preorder} \cap DOMAIN itrInfo}
  ELSE {}

Init ==
  /\ itrInfo \in IteratorInfos
  /\ eligible \in BOOLEAN
  /\ cuts = {}
  /\ done = FALSE

Cut ==
  /\ ~done
  /\ \E p \in CalledFor \ cuts : cuts' = cuts \cup {p}
  /\ UNCHANGED <<itrInfo, eligible, done>>

Finish ==
  /\ ~done
  /\ cuts = CalledFor
  /\ done' = TRUE
  /\ UNCHANGED <<itrInfo, eligible, cuts>>

Next == Cut \/ Finish

Spec == Init /\ [][Next]_vars
=============================================================================
