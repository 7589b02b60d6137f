-------------------------- MODULE RegionSelection --------------------------
(***************************************************************************)
(* How LoopBodyCloner::cloneLoop gets the region it clones out of a loop:  *)
(* one of three selectors picks blocks of the loop,                        *)
(*   naive  all but the header and the latches,                            *)
(*   itr    the blocks up to the first one with iterator code, in reverse  *)
(*          post order,                                                    *)
(*   witr   the heaviest payload tree,                                     *)
(* and cloneLoop puts them in the loop's reverse post order.               *)
(***************************************************************************)
EXTENDS PayloadTrees, PayloadWeights

CONSTANTS
  Contents,    \* [Blocks -> Seq(Kinds)]: what the blocks may hold
  Traversals   \* [LoopShapes -> SUBSET Seq(Blocks)]: the reverse post orders
               \* LoopBlocksRPO may give for a loop

\* A traversal lists every block once and the header first, and leaves a
\* forward edge's source before its target.
ASSUME TraversalAssumption ==
  \A L \in LoopShapes : \A order \in Traversals[L] :
     /\ order \in Seq(L.blocks) /\ Len(order) > 0 /\ order[1] = L.header
     /\ \A b \in L.blocks : \E i \in DOMAIN order : order[i] = b
     /\ \A i, j \in DOMAIN order :
           /\ order[i] = order[j] => i = j
           /\ order[j] \in L.succ[order[i]] /\ j < i
                => \/ order[j] = L.header
                   \/ order[j] \in DOMAIN L.inner /\ order[i] \in L.inner[order[j]]

\* Blocks hold instructions, each of a kind that has a weight.
ASSUME ContentAssumption == \A c \in Contents : \A b \in Blocks : c[b] \in Seq(Kinds)

VARIABLES
  strategy,  \* the option atrox-selection-strategy
  known,     \* the iterator information has an entry for the loop
  content,   \* the instructions of the blocks
  rpo,       \* the loop's reverse post order
  next,      \* the position the itr selector has reached
  selected,  \* the selected blocks
  placed,    \* the position cloneLoop has reached when it orders them
  region,    \* blocks, as cloneLoop hands them to the code extractor
  pc         \* "select", "trees", "order", "done" or "aborted"

selectionVars == <<strategy, known, content, rpo, next, selected, placed, region, pc>>
vars == <<treeVars, selectionVars>>

EndBlocks(L) == {L.header} \cup Latches(L)

TreeWeight(blocks) == MapThenSumSet(LAMBDA b : BlockWeight(content[b]), blocks)

Init ==
  /\ TreeInit
  /\ strategy \in {"naive", "itr", "witr"}
  /\ known \in BOOLEAN
  /\ content \in Contents
  /\ rpo \in Traversals[loop]
  /\ next = 1
  /\ selected = {}
  /\ placed = 0
  /\ region = <<>>
  /\ pc = "select"

\* Mutant: a loop is taken to have one latch.
SelectNaiveOneLatch ==
  /\ pc = "select" /\ strategy = "naive"
  /\ selected' = loop.blocks \ ({loop.header} \cup LoopLatch(loop))
  /\ pc' = "order"
  /\ UNCHANGED <<treeVars, strategy, known, content, rpo, next, placed, region>>

SelectNaive ==
  /\ pc = "select" /\ strategy = "naive"
  /\ selected' = loop.blocks \ EndBlocks(loop)
  /\ pc' = "order"
  /\ UNCHANGED <<treeVars, strategy, known, content, rpo, next, placed, region>>

\* The selectors that ask for iterator information select nothing without it.
SelectUnknown ==
  /\ pc = "select" /\ strategy # "naive" /\ ~known
  /\ pc' = "order"
  /\ UNCHANGED <<treeVars, strategy, known, content, rpo, next, selected, placed, region>>

Walking == pc = "select" /\ strategy = "itr" /\ known /\ next <= Len(rpo)

\* Mutant: a block that came with its inner loop ends the walk.
ItrSkipStops ==
  /\ Walking /\ rpo[next] \in EndBlocks(loop) \cup selected
  /\ next' = next + 1
  /\ pc' = IF rpo[next] \in selected THEN "order" ELSE pc
  /\ UNCHANGED <<treeVars, strategy, known, content, rpo, selected, placed, region>>

\* Mutant: a block that came with its inner loop is looked at forever.
ItrSkipStuck ==
  /\ Walking /\ rpo[next] \in EndBlocks(loop) \cup selected
  /\ UNCHANGED vars

\* Header and latches are not walked; a block may have come with its inner
\* loop.
ItrSkip ==
  /\ Walking /\ rpo[next] \in EndBlocks(loop) \cup selected
  /\ next' = next + 1
  /\ UNCHANGED <<treeVars, strategy, known, content, rpo, selected, placed, region, pc>>

\* What the itr selector takes with block b: an inner loop as a whole.
Taken(b) == IF b \in DOMAIN loop.inner THEN loop.inner[b] ELSE {b}

\* Mutant: the walk jumps over the blocks of an inner loop and then goes on
\* from behind them as from any block.
ItrTakeJumps ==
  /\ Walking /\ rpo[next] \notin EndBlocks(loop) \cup selected
  /\ Taken(rpo[next]) \subseteq loop.payload
  /\ selected' = selected \cup Taken(rpo[next])
  /\ LET block == rpo[next]
     IN  next' = next + 1 + IF block \in DOMAIN loop.inner THEN Cardinality(loop.inner[block]) ELSE 0
  /\ UNCHANGED <<treeVars, strategy, known, content, rpo, placed, region, pc>>

ItrTake ==
  /\ Walking /\ rpo[next] \notin EndBlocks(loop) \cup selected
  /\ Taken(rpo[next]) \subseteq loop.payload
  /\ selected' = selected \cup Taken(rpo[next])
  /\ next' = next + 1
  /\ UNCHANGED <<treeVars, strategy, known, content, rpo, placed, region, pc>>

\* Mutant: blocks with iterator code are passed over.
ItrStopContinues ==
  /\ Walking /\ rpo[next] \notin EndBlocks(loop) \cup selected
  /\ ~(Taken(rpo[next]) \subseteq loop.payload)
  /\ next' = next + 1
  /\ UNCHANGED <<treeVars, strategy, known, content, rpo, selected, placed, region, pc>>

\* The first block, or inner loop, with iterator code ends the walk.
ItrStop ==
  /\ Walking /\ rpo[next] \notin EndBlocks(loop) \cup selected
  /\ ~(Taken(rpo[next]) \subseteq loop.payload)
  /\ pc' = "order"
  /\ UNCHANGED <<treeVars, strategy, known, content, rpo, next, selected, placed, region>>

ItrEnd ==
  /\ pc = "select" /\ strategy = "itr" /\ known /\ next > Len(rpo)
  /\ pc' = "order"
  /\ UNCHANGED <<treeVars, strategy, known, content, rpo, next, selected, placed, region>>

SelectTrees ==
  /\ pc = "select" /\ strategy = "witr" /\ known
  /\ pc' = "trees"
  /\ UNCHANGED <<treeVars, strategy, known, content, rpo, next, selected, placed, region>>

CollectTrees ==
  /\ pc = "trees"
  /\ TreeNext
  /\ UNCHANGED selectionVars

\* Mutant: the comparison is the wrong way round.
WitrPickLightest(r) ==
  /\ pc = "trees" /\ collected /\ r \in DOMAIN groups
  /\ \A s \in DOMAIN groups : TreeWeight(groups[s]) >= TreeWeight(groups[r])
  /\ selected' = groups[r]
  /\ pc' = "order"
  /\ UNCHANGED <<treeVars, strategy, known, content, rpo, next, placed, region>>

\* max_element: the first of the heaviest trees, by address of the root.
WitrPick(r) ==
  /\ pc = "trees" /\ collected /\ r \in DOMAIN groups
  /\ \A s \in DOMAIN groups : TreeWeight(groups[s]) <= TreeWeight(groups[r])
  /\ selected' = groups[r]
  /\ pc' = "order"
  /\ UNCHANGED <<treeVars, strategy, known, content, rpo, next, placed, region>>

\* Without a tree max_element returns the end iterator, and using it is
\* undefined.  libstdc++ yields a root that is in no map, and so an empty
\* tree; a library that checks iterators aborts.
WitrPickNone ==
  /\ pc = "trees" /\ collected /\ DOMAIN groups = {}
  /\ pc' \in {"order", "aborted"}
  /\ UNCHANGED <<treeVars, strategy, known, content, rpo, next, selected, placed, region>>

\* cloneLoop gives up on an empty selection and orders any other: it goes
\* over the traversal and keeps the selected blocks.
OrderBlock ==
  /\ pc = "order" /\ placed < Len(rpo)
  /\ placed' = placed + 1
  /\ region' = IF rpo[placed'] \in selected THEN Append(region, rpo[placed']) ELSE region
  /\ UNCHANGED <<treeVars, strategy, known, content, rpo, next, selected, pc>>

Ordered ==
  /\ pc = "order" /\ placed = Len(rpo)
  /\ pc' = "done"
  /\ UNCHANGED <<treeVars, strategy, known, content, rpo, next, selected, placed, region>>

Next ==
  \/ SelectNaive \/ SelectUnknown
  \/ ItrSkip \/ ItrTake \/ ItrStop \/ ItrEnd
  \/ SelectTrees \/ CollectTrees \/ (\E r \in DOMAIN groups : WitrPick(r)) \/ WitrPickNone
  \/ OrderBlock \/ Ordered

\* Sequential code: it runs until the region is ordered.
Spec == Init /\ [][Next]_vars /\ WF_vars(Next)
-----------------------------------------------------------------------------
InRegion(b) == \E i \in DOMAIN region : region[i] = b

RegionTypeOK ==
  /\ TreeTypeOK
  /\ strategy \in {"naive", "itr", "witr"} /\ known \in BOOLEAN
  /\ content \in Contents
  /\ rpo \in Traversals[loop]
  /\ next \in 1 .. Len(rpo) + 1
  /\ selected \subseteq loop.blocks
  /\ placed \in 0 .. Len(rpo)
  /\ region \in Seq(loop.blocks)
  /\ pc \in {"select", "trees", "order", "done", "aborted"}

\* The header of the loop is never cloned, and a latch only by the selectors
\* that look at payload: witr when the loop has several latches, itr when the
\* latch is in an inner loop that is all payload.  Those two clone no block
\* with iterator code.
RegionKeepsLoopEnds ==
  pc = "done" =>
    /\ ~InRegion(loop.header)
    /\ strategy # "naive" => \A b \in loop.blocks : InRegion(b) => b \in loop.payload
    /\ \A b \in Latches(loop) : InRegion(b) =>
          \/ strategy = "witr" /\ Latches(loop) # {b}
          \/ strategy = "itr" /\ \E d \in DOMAIN loop.inner \cap loop.payload :
                                    b \in loop.inner[d] /\ \A c \in loop.inner[d] : InRegion(c)

\* The code that runs before the itr region in an iteration is the header's:
\* its blocks are entered from the header, from latches left out, and from
\* each other only, whichever reverse post order was walked.
ItrEnteredFromHeader ==
  strategy = "itr" /\ pc = "done" =>
    \A b \in loop.blocks : InRegion(b) =>
      \A p \in Preds(loop, b) : InRegion(p) \/ p \in EndBlocks(loop)

\* The itr region stops at iterator code and nowhere else: a block left out,
\* or the inner loop it heads, holds iterator code, or some such block comes
\* before it in the walk.
ItrStopsAtIteratorCode ==
  strategy = "itr" /\ known /\ pc = "done" =>
    \A i \in DOMAIN rpo :
      rpo[i] \notin EndBlocks(loop) /\ ~InRegion(rpo[i]) =>
        \E j \in 1 .. i : rpo[j] \notin EndBlocks(loop) /\ ~(Taken(rpo[j]) \subseteq loop.payload)

\* No root could claim more for its tree alone than the selected tree weighs,
\* although the trees, and so their weights, depend on the order of the roots.
WitrIsHeaviest ==
  strategy = "witr" /\ known /\ pc = "done" =>
    \A r \in Entered(loop) :
      TreeWeight(ExclusivePayload(loop, r)) <= TreeWeight({b \in loop.blocks : InRegion(b)})

\* The code extractor takes the first block for the only entry of the region
\* ("All blocks other than the first must not have predecessors outside of
\* the subgraph which is being extracted", CodeExtractor.cpp:233).
SingleEntry ==
  pc = "done" =>
    \A i \in DOMAIN region : i > 1 => \A p \in Preds(loop, region[i]) : InRegion(p)

\* Selection comes to an end.
SelectionEnds == <>(pc \in {"done", "aborted"})
=============================================================================
