----------------------------- MODULE LoopBounds -----------------------------
(***************************************************************************)
(* The loop bounds analyzer: what it keeps of a loop nest (analyze), what  *)
(* it makes of that for a range of iterations (evaluate), and what it      *)
(* answers about a value.                                                  *)
(*                                                                         *)
(* The loops of a function are a sequence in preorder, each a record with  *)
(*   header, blocks   as in LoopInfo, which is not kept up to date         *)
(*   phis    the phi nodes of the header: [kind, start]                    *)
(*   taken   how often the back edge is taken: a number, or one of the two *)
(*           below                                                         *)
(* and edges are those of the control flow graph as it is.  The k-th phi   *)
(* node of loop l is the value <<l, k>>.                                   *)
(*                                                                         *)
(* A start is an expression base, or {..{base,+,step}<l>..,+,step'}<l'>,   *)
(* with recs the additive recurrences, the one on the outside first; known *)
(* tells whether base is a constant.                                       *)
(***************************************************************************)
EXTENDS Integers, Sequences, FiniteSets, FiniteSetsExt, Subsequences

NoValue == <<0, 0>>

Symbolic == -1     \* taken: an expression
Uncountable == -2  \* taken: unknown

\* The null pointer in the place of an expression.
NoStart == [known |-> FALSE, base |-> 0, recs |-> <<>>]

\* LoopIterationSpaceInfo, without the trip count, which nothing reads.
NoInfo == [ind |-> NoValue, start |-> NoStart, end |-> NoStart]

\* isOuterLoopOf: the loops around l.
OuterLoops(loops, l) == {m \in DOMAIN loops \ {l} : loops[l].header \in loops[m].blocks}

SubLoops(loops, l) ==
  {m \in DOMAIN loops : l \in OuterLoops(loops, m)
                        /\ OuterLoops(loops, m) \subseteq {l} \cup OuterLoops(loops, l)}

TopOf(loops, l) == CHOOSE t \in {l} \cup OuterLoops(loops, l) : OuterLoops(loops, t) = {}

NestOf(loops, t) == {m \in DOMAIN loops : loops[m].header \in loops[t].blocks}

LoopLatches(edges, L) == {b \in L.blocks : <<b, L.header>> \in edges}

Entering(edges, L) == {e[1] : e \in {x \in edges : x[2] = L.header /\ x[1] \notin L.blocks}}

ExitingBlocks(edges, L) == {b \in L.blocks : \E e \in edges : e[1] = b /\ e[2] \notin L.blocks}

OfKind(L, kind) == {k \in DOMAIN L.phis : L.phis[k].kind = kind}

\* GetInductionVariable: the canonical one, or the first that is an affine
\* recurrence with a constant step; a phi node of another type than numbers
\* and pointers ends the search.  Zero if there is none.
GetInductionVariable(edges, L) ==
  LET affine == {k \in OfKind(L, "affine") : \A i \in OfKind(L, "vector") : k < i}
      found == IF OfKind(L, "canonical") # {} THEN OfKind(L, "canonical") ELSE affine
  IN  IF \/ Cardinality(LoopLatches(edges, L)) # 1 \/ Cardinality(Entering(edges, L)) # 1
         \/ found = {}
      THEN 0 ELSE Min(found)

Info(loops, edges, l) ==
  LET k == GetInductionVariable(edges, loops[l])
  IN  IF k = 0 THEN NoInfo
      ELSE LET start == loops[l].phis[k].start
           IN  [ind |-> <<l, k>>, start |-> start, end |-> start]

\* The analyzer before its first loop.
Unanalyzed == [top |-> 0, map |-> <<>>]

\* Mutant: the first nest that is analyzed is kept for all loops.
AnalyzedOnce(lba, loops, edges, l) ==
  IF lba.top # 0 THEN lba
  ELSE LET top == TopOf(loops, l)
       IN  [top |-> top, map |-> [m \in NestOf(loops, top) |-> Info(loops, edges, m)]]

\* analyze: the nest around l, unless it was the last one to be analyzed.
Analyzed(lba, loops, edges, l) ==
  LET top == TopOf(loops, l)
  IN  IF lba.top = top THEN lba
      ELSE [top |-> top, map |-> [m \in NestOf(loops, top) |-> Info(loops, edges, m)]]

-----------------------------------------------------------------------------
\* SCEVAddRecExpr::evaluateAtIteration, for the recurrence on the outside.
AtIteration(s, n) == [s EXCEPT !.base = @ + n * Head(s.recs).step, !.recs = Tail(@)]

EvaluateAt(s, n) == IF s.recs = <<>> THEN s ELSE AtIteration(s, n)

\* ScalarEvolution::getSCEVAtScope for a loop of the pass's own LoopInfo: none
\* of the loops ScalarEvolution knows contains it, and a recurrence becomes its
\* value after the last iteration if those can be counted.
AtScope(loops, s) ==
  LET counted == {k \in DOMAIN s.recs : loops[s.recs[k].loop].taken # Uncountable}
      taken(k) == loops[s.recs[k].loop].taken
  IN  [known |-> s.known /\ \A k \in counted : taken(k) # Symbolic,
       base |-> s.base + MapThenSumSet(LAMBDA k : IF taken(k) = Symbolic THEN 0
                                                  ELSE s.recs[k].step * taken(k), counted),
       recs |-> Kept(s.recs, DOMAIN s.recs \ counted)]

\* One step of the inner loop of evaluate: a value that is no recurrence at the
\* scope is not stored.
EvaluateInner(loops, s, n) ==
  LET scoped == AtScope(loops, s) IN IF scoped.recs = <<>> THEN s ELSE AtIteration(scoped, n)

\* The loops of the nest up to the target in reverse sibling preorder.
Visited(loops, target) ==
  {target} \cup OuterLoops(loops, target)
  \cup {m \in NestOf(loops, TopOf(loops, target)) : m > target /\ target \notin OuterLoops(loops, m)}

\* Mutant: the target's own turn is left out.
EvaluateExprAround(loops, target, m, s, n) ==
  LET around == Cardinality(OuterLoops(loops, m) \cap Visited(loops, target))
      stepped[i \in 0 .. around] == IF i = 0 THEN s ELSE EvaluateInner(loops, stepped[i - 1], n)
  IN  stepped[around]

\* What evaluate makes of the start, or end, s of loop m: a step for every
\* visited loop around it, from the outside, and one of its own.
EvaluateExpr(loops, target, m, s, n) ==
  LET around == Cardinality(OuterLoops(loops, m) \cap Visited(loops, target))
      stepped[i \in 0 .. around] == IF i = 0 THEN s ELSE EvaluateInner(loops, stepped[i - 1], n)
  IN  IF m \in Visited(loops, target) THEN EvaluateAt(stepped[around], n) ELSE stepped[around]

\* evaluate, with the greatest bounds asked for.
Evaluated(lba, loops, target, first, last) ==
  [lba EXCEPT !.map = [m \in DOMAIN lba.map |->
     [lba.map[m] EXCEPT !.start = EvaluateExpr(loops, target, m, @, first),
                        !.end = EvaluateExpr(loops, target, m, @, last)]]]

\* Mutant: the outermost loop's as well.
EvaluateFailsAll(lba) == \E m \in DOMAIN lba.map : lba.map[m].ind = NoValue

\* The start of a loop without an induction variable is a null pointer, which
\* getSCEVAtScope dereferences if the loop is inside another one.
EvaluateFails(lba) == \E m \in DOMAIN lba.map \ {lba.top} : lba.map[m].ind = NoValue

-----------------------------------------------------------------------------
\* isValueOuterLoopInductionVariable, isValueInnerLoopInductionVariable
IsOuterInduction(lba, loops, v, l) ==
  \E m \in DOMAIN lba.map : lba.map[m].ind = v /\ v # NoValue /\ m \in OuterLoops(loops, l)

IsInnerInduction(lba, loops, v, l) ==
  \E m \in DOMAIN lba.map : lba.map[m].ind = v /\ v # NoValue /\ l \in OuterLoops(loops, m)

\* getInfo for an induction variable.
InfoOf(lba, v) == lba.map[CHOOSE m \in DOMAIN lba.map : lba.map[m].ind = v]

ConstantStart(info) == info.start.known /\ info.start.recs = <<>>

\* isValueUsedInLoopNestConditions appends the subloops of a subloop to the
\* vector of subloops it iterates over.  The iterators go stale with that: the
\* walk works out only if nothing is visited after it.
GrowsInWalk(loops, l) ==
  \E m \in SubLoops(loops, l) :
    SubLoops(loops, m) # {} /\ \E n \in SubLoops(loops, l) : n > m

ConditionLoops(loops, l) ==
  {l} \cup SubLoops(loops, l) \cup UNION {SubLoops(loops, m) : m \in SubLoops(loops, l)}

\* The assertions of GetBackedgeCondition: there is one exiting block, and the
\* branch at its end is conditional.
SingleExiting(edges, L) == Cardinality(ExitingBlocks(edges, L)) = 1

ConditionalExit(edges, L) ==
  \A b \in ExitingBlocks(edges, L) : \E d, e \in edges : d # e /\ d[1] = b /\ e[1] = b
=============================================================================
