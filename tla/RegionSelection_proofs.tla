----------------------- MODULE RegionSelection_proofs -----------------------
(***************************************************************************)
(* What the selectors hand to the code extractor, for every loop, every    *)
(* reverse post order of it and every order of roots and worklists.  The   *)
(* walk over the payload trees is the one of PayloadTrees_proofs: a step   *)
(* of the selection is a step of the trees or leaves them alone.           *)
(***************************************************************************)
EXTENDS RegionSelection, PayloadTrees_proofs, DataLemmas

\* A region is filled in turn with what was selected, and with nothing else.
Placing ==
  /\ pc \in {"select", "trees"} => placed = 0 /\ region = <<>>
  /\ \A b \in loop.blocks : InRegion(b) => b \in selected
  /\ \A i \in 1 .. placed : rpo[i] \in selected => InRegion(rpo[i])
  /\ pc = "done" => placed = Len(rpo)

\* What the itr selector may hold: payload, and a latch with its inner loop.
PayloadTaken(L, S) ==
  /\ S \subseteq L.payload \ {L.header}
  /\ \A b \in S \cap Latches(L) :
        \E d \in DOMAIN L.inner \cap L.payload : b \in L.inner[d] /\ L.inner[d] \subseteq S

\* The blocks of S are entered from S and from header and latches.
EnteredFromEnds(L, S) == \A b \in S : Preds(L, b) \subseteq S \cup EndBlocks(L)

\* The first n blocks of the walk are behind it.
Behind(L, order, S, n) == \A i \in 1 .. n : order[i] \in S \cup EndBlocks(L)

\* The walk has come to block b, which it cannot take.
StopsAt(b) ==
  b \notin EndBlocks(loop) \cup selected /\ ~(Taken(b) \subseteq loop.payload)

Choosing ==
  /\ pc = "trees" => strategy = "witr"
  /\ strategy = "naive" => selected \cap EndBlocks(loop) = {}
  /\ strategy = "witr" => selected \subseteq Allowed(loop)
  /\ strategy = "itr" =>
        /\ PayloadTaken(loop, selected)
        /\ EnteredFromEnds(loop, selected)
        /\ Behind(loop, rpo, selected, next - 1)
        /\ known /\ pc \in {"order", "done"} =>
             next = Len(rpo) + 1 \/ (next <= Len(rpo) /\ StopsAt(rpo[next]))

\* The inductive invariant.
Selecting == Walk /\ RegionTypeOK /\ Placing /\ Choosing
-----------------------------------------------------------------------------
\* A reverse post order lists the blocks of its loop.
LEMMA TraversalFacts ==
  ASSUME NEW L \in LoopShapes, NEW order \in Traversals[L]
  PROVE  /\ order \in Seq(L.blocks) /\ Len(order) \in Nat /\ Len(order) > 0
         /\ DOMAIN order = 1 .. Len(order)
         /\ \A i \in 1 .. Len(order) : order[i] \in L.blocks
         /\ \A b \in L.blocks : \E i \in 1 .. Len(order) : order[i] = b
<1>1. order \in Seq(L.blocks) /\ Len(order) > 0
      /\ \A b \in L.blocks : \E i \in DOMAIN order : order[i] = b
  BY TraversalAssumption
<1> QED
  BY <1>1

LEMMA AppendTyped ==
  ASSUME NEW S, NEW s \in Seq(S), NEW e \in S
  PROVE  Append(s, e) \in Seq(S)
OBVIOUS

\* Whatever is done to the region, the trees take a step of their own or none.
LEMMA StepOfTrees == [Next]_vars => [TreeNext]_treeVars
BY DEF Next, vars, treeVars, SelectNaive, SelectUnknown, Walking, ItrSkip, ItrTake, ItrStop, ItrEnd,
       SelectTrees, CollectTrees, WitrPick, WitrPickNone, OrderBlock, Ordered

LEMMA LoopIsKept == [TreeNext]_treeVars => loop' = loop
BY DEF TreeNext, treeVars, StartTree, Visit, FinishTree, Collected

LEMMA WalkGoesOn == Walk /\ [Next]_vars => Walk'
BY StepOfTrees, WalkNext
-----------------------------------------------------------------------------
LEMMA SelectingInit == Init => Selecting
<1> SUFFICES ASSUME Init PROVE Selecting
  OBVIOUS
<1>1. Walk
  BY WalkInit DEF Init
<1>2. loop \in LoopShapes /\ TreeTypeOK
  BY <1>1 DEF Walk, Typed
<1>3. Len(rpo) \in Nat
  BY <1>2, TraversalFacts DEF Init
<1>4. \A b : ~InRegion(b)
  BY DEF Init, InRegion
<1>5. RegionTypeOK
  BY <1>2, <1>3 DEF Init, RegionTypeOK
<1>6. Placing
  BY <1>4 DEF Init, Placing
<1>7. Choosing
  BY DEF Init, Choosing, PayloadTaken, EnteredFromEnds, Behind
<1> QED
  BY <1>1, <1>5, <1>6, <1>7 DEF Selecting

\* Types.
LEMMA TypesKept == Selecting /\ [Next]_vars => RegionTypeOK'
<1> SUFFICES ASSUME Selecting, [Next]_vars PROVE RegionTypeOK'
  OBVIOUS
<1> USE DEF Selecting, RegionTypeOK
<1>0. /\ loop \in LoopShapes /\ loop' = loop /\ TreeTypeOK'
      /\ rpo \in Traversals[loop]
  BY WalkGoesOn, StepOfTrees, LoopIsKept DEF Walk, Typed
<1>1. /\ Len(rpo) \in Nat /\ \A i \in 1 .. Len(rpo) : rpo[i] \in loop.blocks
  BY <1>0, TraversalFacts
<1>2. /\ \A d \in DOMAIN loop.inner : loop.inner[d] \subseteq loop.blocks
      /\ DOMAIN groups = Roots(loop) /\ \A r \in Roots(loop) : groups[r] \subseteq loop.blocks
  BY <1>0, ShapeAssumption DEF TreeTypeOK
<1>3. CASE SelectNaive
  BY <1>0, <1>3 DEF SelectNaive
<1>4. CASE SelectUnknown
  BY <1>0, <1>4 DEF SelectUnknown
<1>5. CASE ItrSkip
  BY <1>0, <1>1, <1>5 DEF ItrSkip, Walking
<1>6. CASE ItrTake
  <2>1. Taken(rpo[next]) \subseteq loop.blocks
    BY <1>0, <1>6, ShapeAssumption DEF ItrTake
  <2> QED
    BY <1>0, <1>1, <1>6, <2>1 DEF ItrTake, Walking
<1>7. CASE ItrStop
  BY <1>0, <1>7 DEF ItrStop, Walking
<1>8. CASE ItrEnd
  BY <1>0, <1>8 DEF ItrEnd
<1>9. CASE SelectTrees
  BY <1>0, <1>9 DEF SelectTrees
<1>10. CASE CollectTrees
  BY <1>0, <1>10 DEF CollectTrees, selectionVars
<1>11. ASSUME NEW r \in DOMAIN groups, WitrPick(r) PROVE RegionTypeOK'
  BY <1>0, <1>2, <1>11 DEF WitrPick
<1>12. CASE WitrPickNone
  BY <1>0, <1>12 DEF WitrPickNone
<1>13. CASE OrderBlock
  <2>1. placed' \in 1 .. Len(rpo) /\ rpo[placed'] \in loop.blocks
    BY <1>1, <1>13 DEF OrderBlock
  <2>2. region' \in Seq(loop.blocks)
    <3>1. region' \in {region, Append(region, rpo[placed'])}
      BY <1>13 DEF OrderBlock
    <3>2. region \in Seq(loop.blocks)
      OBVIOUS
    <3>3. Append(region, rpo[placed']) \in Seq(loop.blocks)
      BY ONLY <2>1, <3>2, AppendTyped
    <3> QED
      BY <3>1, <3>2, <3>3
  <2> QED
    BY <1>0, <1>13, <2>1, <2>2 DEF OrderBlock
<1>14. CASE Ordered
  BY <1>0, <1>14 DEF Ordered
<1>15. CASE UNCHANGED vars
  BY <1>0, <1>15 DEF vars, selectionVars
<1> QED
  BY <1>3, <1>4, <1>5, <1>6, <1>7, <1>8, <1>9, <1>10, <1>11, <1>12, <1>13, <1>14, <1>15 DEF Next
-----------------------------------------------------------------------------
\* Placing: only the ordering fills the region, and only the choice before it
\* says with what.
LEMMA PlacingKept == Selecting /\ [Next]_vars => Placing'
<1> SUFFICES ASSUME Selecting, [Next]_vars PROVE Placing'
  OBVIOUS
<1>0. /\ loop \in LoopShapes /\ loop' = loop
      /\ rpo \in Traversals[loop] /\ selected \subseteq loop.blocks
      /\ region \in Seq(loop.blocks) /\ placed \in 0 .. Len(rpo)
  BY StepOfTrees, LoopIsKept DEF Selecting, Walk, Typed, RegionTypeOK
<1>1. Len(rpo) \in Nat
  BY <1>0, TraversalFacts
<1>2. ASSUME pc \in {"select", "trees"}, placed' = placed, region' = region, rpo' = rpo,
             pc' \in {"select", "trees", "order", "aborted"}
      PROVE  Placing'
  <2>1. placed = 0 /\ region = <<>>
    BY <1>2 DEF Selecting, Placing
  <2>2. \A b : ~InRegion(b)'
    BY <1>2, <2>1 DEF InRegion
  <2> QED
    BY <1>2, <2>1, <2>2 DEF Placing
<1>3. CASE SelectNaive
  BY <1>2, <1>3 DEF SelectNaive
<1>4. CASE SelectUnknown
  BY <1>2, <1>4 DEF SelectUnknown
<1>5. CASE ItrSkip
  BY <1>2, <1>5 DEF ItrSkip, Walking
<1>6. CASE ItrTake
  BY <1>2, <1>6 DEF ItrTake, Walking
<1>7. CASE ItrStop
  BY <1>2, <1>7 DEF ItrStop, Walking
<1>8. CASE ItrEnd
  BY <1>2, <1>8 DEF ItrEnd
<1>9. CASE SelectTrees
  BY <1>2, <1>9 DEF SelectTrees
<1>10. CASE CollectTrees
  BY <1>2, <1>10 DEF CollectTrees, selectionVars
<1>11. ASSUME NEW r \in DOMAIN groups, WitrPick(r) PROVE Placing'
  BY <1>2, <1>11 DEF WitrPick
<1>12. CASE WitrPickNone
  BY <1>2, <1>12 DEF WitrPickNone
<1>13. CASE OrderBlock
  <2> USE <1>13 DEF OrderBlock
  <2>1. /\ \A b \in loop.blocks : InRegion(b) => b \in selected
        /\ \A i \in 1 .. placed : rpo[i] \in selected => InRegion(rpo[i])
    BY DEF Selecting, Placing
  <2>2. placed' \in 1 .. Len(rpo) /\ rpo[placed'] \in loop.blocks
    BY <1>0, <1>1, TraversalFacts
  <2>3. ASSUME NEW b
        PROVE  InRegion(b)' <=> InRegion(b) \/ (b = rpo[placed'] /\ b \in selected)
    <3>1. CASE rpo[placed'] \notin selected
      BY <3>1 DEF InRegion
    <3>2. CASE rpo[placed'] \in selected
      <4>1. /\ Len(region) \in Nat /\ DOMAIN region = 1 .. Len(region)
            /\ region' = Append(region, rpo[placed'])
        BY <1>0, <3>2
      <4>2. /\ DOMAIN region' = 1 .. Len(region) + 1
            /\ region'[Len(region) + 1] = rpo[placed']
            /\ \A i \in 1 .. Len(region) : region'[i] = region[i]
        BY <1>0, <2>2, <4>1
      <4>3. InRegion(b)' <=> \E i \in 1 .. Len(region) + 1 : region'[i] = b
        BY <4>2 DEF InRegion
      <4>4. InRegion(b) <=> \E i \in 1 .. Len(region) : region[i] = b
        BY <4>1 DEF InRegion
      <4> QED
        BY <3>2, <4>1, <4>2, <4>3, <4>4
    <3> QED
      BY <3>1, <3>2
  <2>4. \A b \in loop.blocks : InRegion(b)' => b \in selected
    BY <2>1, <2>3
  <2>5. \A i \in 1 .. placed' : rpo[i] \in selected => InRegion(rpo[i])'
    <3> TAKE i \in 1 .. placed'
    <3>1. CASE i = placed'
      BY <2>3, <3>1
    <3>2. CASE i # placed'
      <4>1. i \in 1 .. placed
        BY <1>0, <1>1, <3>2
      <4> QED
        BY <2>1, <2>3, <4>1
    <3> QED
      BY <3>1, <3>2
  <2> QED
    BY <1>0, <2>4, <2>5 DEF Placing
<1>14. CASE Ordered
  <2>1. \A b : InRegion(b)' <=> InRegion(b)
    BY <1>14 DEF Ordered, InRegion
  <2> QED
    BY <1>0, <1>14, <2>1 DEF Ordered, Selecting, Placing
<1>15. CASE UNCHANGED vars
  <2>1. \A b : InRegion(b)' <=> InRegion(b)
    BY <1>15 DEF vars, selectionVars, InRegion
  <2> QED
    BY <1>0, <1>15, <2>1 DEF vars, selectionVars, Selecting, Placing
<1> QED
  BY <1>3, <1>4, <1>5, <1>6, <1>7, <1>8, <1>9, <1>10, <1>11, <1>12, <1>13, <1>14, <1>15 DEF Next
-----------------------------------------------------------------------------
\* What the itr selector takes with block b is entered from what lies behind
\* the walk.
LEMMA TakingKeeps ==
  ASSUME NEW L \in LoopShapes, NEW order \in Traversals[L],
         NEW n \in 1 .. Len(order), NEW S \in SUBSET L.blocks, NEW T,
         T = IF order[n] \in DOMAIN L.inner THEN L.inner[order[n]] ELSE {order[n]},
         order[n] \notin EndBlocks(L), T \subseteq L.payload,
         PayloadTaken(L, S), EnteredFromEnds(L, S), Behind(L, order, S, n - 1)
  PROVE  /\ PayloadTaken(L, S \cup T)
         /\ EnteredFromEnds(L, S \cup T)
         /\ Behind(L, order, S \cup T, n)
<1> DEFINE b == order[n]
<1>0. /\ Len(order) \in Nat /\ DOMAIN order = 1 .. Len(order) /\ b \in L.blocks
      /\ \A p \in L.blocks : \E i \in 1 .. Len(order) : order[i] = p
  BY TraversalFacts
<1>1. /\ b # L.header /\ b \notin Latches(L)
  BY DEF EndBlocks
<1>2. /\ DOMAIN L.inner \subseteq L.blocks
      /\ \A d \in DOMAIN L.inner : /\ L.inner[d] \subseteq L.blocks
                                   /\ d \in L.inner[d] /\ L.header \notin L.inner[d]
                                   /\ \A p \in L.blocks \ L.inner[d] : L.succ[p] \cap L.inner[d] \subseteq {d}
  BY ShapeAssumption
<1>3. b \in T /\ L.header \notin T /\ T \subseteq L.blocks
  BY <1>0, <1>1, <1>2
<1>4. PayloadTaken(L, S \cup T)
  <2>1. S \cup T \subseteq L.payload \ {L.header}
    BY <1>3 DEF PayloadTaken
  <2>2. ASSUME NEW c \in (S \cup T) \cap Latches(L)
        PROVE  \E d \in DOMAIN L.inner \cap L.payload : c \in L.inner[d] /\ L.inner[d] \subseteq S \cup T
    <3>1. CASE c \in S
      <4>1. PICK d \in DOMAIN L.inner \cap L.payload : c \in L.inner[d] /\ L.inner[d] \subseteq S
        BY <3>1 DEF PayloadTaken
      <4> QED
        BY <4>1
    <3>2. CASE c \in T
      <4>1. b \in DOMAIN L.inner /\ T = L.inner[b]
        BY <1>1, <3>2
      <4> QED
        BY <1>3, <3>2, <4>1
    <3> QED
      BY <3>1, <3>2
  <2> QED
    BY <2>1, <2>2 DEF PayloadTaken
<1>5. Behind(L, order, S \cup T, n)
  <2> SUFFICES ASSUME NEW i \in 1 .. n PROVE order[i] \in (S \cup T) \cup EndBlocks(L)
    BY DEF Behind
  <2>1. i = n \/ i \in 1 .. n - 1
    BY <1>0
  <2> QED
    BY <1>3, <2>1 DEF Behind
\* A predecessor of b comes before it, is b, or is in the inner loop of b.
<1>6. ASSUME NEW p \in Preds(L, b), p \notin T
      PROVE  p \in S \cup EndBlocks(L)
  <2>1. p \in L.blocks /\ b \in L.succ[p]
    BY DEF Preds
  <2>2. PICK i \in 1 .. Len(order) : order[i] = p
    BY <1>0, <2>1
  <2>3. ~(n < i)
    <3> SUFFICES ASSUME n < i PROVE FALSE
      OBVIOUS
    <3>1. b = L.header \/ (b \in DOMAIN L.inner /\ p \in L.inner[b])
      BY <1>0, <2>1, <2>2, TraversalAssumption
    <3> QED
      BY <1>1, <1>6, <3>1
  <2>4. i # n
    BY <1>3, <1>6, <2>2
  <2>5. i \in 1 .. n - 1
    BY <1>0, <2>3, <2>4
  <2> QED
    BY <2>2, <2>5 DEF Behind
<1>7. EnteredFromEnds(L, S \cup T)
  <2> SUFFICES ASSUME NEW c \in S \cup T, NEW p \in Preds(L, c), p \notin T
               PROVE  p \in S \cup EndBlocks(L)
    BY DEF EnteredFromEnds
  <2>1. CASE c \in S
    BY <2>1 DEF EnteredFromEnds
  <2>2. CASE c \in T /\ c # b
    <3>1. b \in DOMAIN L.inner /\ T = L.inner[b]
      BY <2>2
    <3>2. p \in L.blocks /\ c \in L.succ[p]
      BY DEF Preds
    <3> QED
      BY <1>2, <2>2, <3>1, <3>2
  <2>3. CASE c = b
    BY <1>6, <2>3
  <2> QED
    BY <2>1, <2>2, <2>3
<1> QED
  BY <1>4, <1>5, <1>7
-----------------------------------------------------------------------------
\* Choosing: how each selector makes its choice.
LEMMA ChoosingKept == Selecting /\ [Next]_vars => Choosing'
<1> SUFFICES ASSUME Selecting, [Next]_vars PROVE Choosing'
  OBVIOUS
<1>0. /\ loop \in LoopShapes /\ loop' = loop
      /\ rpo \in Traversals[loop] /\ selected \subseteq loop.blocks
      /\ next \in 1 .. Len(rpo) + 1
      /\ Walk /\ Choosing
  BY StepOfTrees, LoopIsKept DEF Selecting, Walk, Typed, RegionTypeOK
<1>1. Len(rpo) \in Nat
  BY <1>0, TraversalFacts
\* Steps that leave the choice alone.
<1>2. ASSUME UNCHANGED <<strategy, known, rpo, next, selected>>,
             pc' = "trees" => strategy = "witr",
             strategy = "itr" /\ known /\ pc' \in {"order", "done"} => pc \in {"order", "done"}
      PROVE  Choosing'
  <2>1. StopsAt(rpo[next])' <=> StopsAt(rpo[next])
    BY <1>0, <1>2 DEF StopsAt, Taken
  <2> QED
    BY <1>0, <1>2, <2>1 DEF Choosing
<1>3. CASE SelectNaive
  BY <1>0, <1>3 DEF SelectNaive, Choosing
<1>4. CASE SelectUnknown
  BY <1>0, <1>2, <1>4 DEF SelectUnknown
<1>5. CASE ItrSkip
  <2>1. Behind(loop, rpo, selected, next)
    <3> SUFFICES ASSUME NEW i \in 1 .. next PROVE rpo[i] \in selected \cup EndBlocks(loop)
      BY DEF Behind
    <3>1. i = next \/ i \in 1 .. next - 1
      BY <1>0, <1>1
    <3> QED
      BY <1>0, <1>5, <3>1 DEF ItrSkip, Walking, Choosing, Behind
  <2>2. next' - 1 = next
    BY <1>0, <1>1, <1>5 DEF ItrSkip
  <2> QED
    BY <1>0, <1>5, <2>1, <2>2 DEF ItrSkip, Walking, Choosing
<1>6. CASE ItrTake
  <2>1. /\ next \in 1 .. Len(rpo) /\ next' - 1 = next
        /\ rpo[next] \notin EndBlocks(loop)
        /\ Taken(rpo[next]) \subseteq loop.payload
    BY <1>0, <1>1, <1>6 DEF ItrTake, Walking
  <2>2. /\ PayloadTaken(loop, selected) /\ EnteredFromEnds(loop, selected)
        /\ Behind(loop, rpo, selected, next - 1)
    BY <1>0, <1>6 DEF ItrTake, Walking, Choosing
  <2>3. /\ PayloadTaken(loop, selected \cup Taken(rpo[next]))
        /\ EnteredFromEnds(loop, selected \cup Taken(rpo[next]))
        /\ Behind(loop, rpo, selected \cup Taken(rpo[next]), next)
    BY <1>0, <2>1, <2>2, TakingKeeps DEF Taken
  <2> QED
    BY <1>0, <1>6, <2>1, <2>3 DEF ItrTake, Walking, Choosing
<1>7. CASE ItrStop
  <2>1. StopsAt(rpo[next])'
    BY <1>0, <1>7 DEF ItrStop, StopsAt, Taken
  <2> QED
    BY <1>0, <1>7, <2>1 DEF ItrStop, Walking, Choosing
<1>8. CASE ItrEnd
  <2>1. next = Len(rpo) + 1
    BY <1>0, <1>1, <1>8 DEF ItrEnd
  <2> QED
    BY <1>0, <1>8, <2>1 DEF ItrEnd, Choosing
<1>9. CASE SelectTrees
  BY <1>2, <1>9 DEF SelectTrees
<1>10. CASE CollectTrees
  BY <1>0, <1>2, <1>10 DEF CollectTrees, selectionVars, Choosing
<1>11. ASSUME NEW r \in DOMAIN groups, WitrPick(r) PROVE Choosing'
  <2>1. groups[r] \subseteq Allowed(loop)
    BY <1>0 DEF Walk, Typed, TreeTypeOK, Led, Reachable
  <2> QED
    BY <1>0, <1>11, <2>1 DEF WitrPick, Choosing
<1>12. CASE WitrPickNone
  BY <1>0, <1>2, <1>12 DEF WitrPickNone, Choosing
<1>13. CASE OrderBlock
  BY <1>0, <1>2, <1>13 DEF OrderBlock, Choosing
<1>14. CASE Ordered
  BY <1>2, <1>14 DEF Ordered
<1>15. CASE UNCHANGED vars
  BY <1>0, <1>2, <1>15 DEF vars, selectionVars, Choosing
<1> QED
  BY <1>3, <1>4, <1>5, <1>6, <1>7, <1>8, <1>9, <1>10, <1>11, <1>12, <1>13, <1>14, <1>15 DEF Next

LEMMA SelectingInvariance == Spec => []Selecting
<1>1. Selecting /\ [Next]_vars => Selecting'
  BY WalkGoesOn, TypesKept, PlacingKept, ChoosingKept DEF Selecting
<1> QED
  BY SelectingInit, <1>1, PTL DEF Spec
-----------------------------------------------------------------------------
\* The variables of the selection keep their types.
THEOREM SelectionTypeCorrect == Spec => []RegionTypeOK
<1>1. Selecting => RegionTypeOK
  BY DEF Selecting
<1> QED
  BY SelectingInvariance, <1>1, PTL

\* When it is ordered, the region holds what was selected, no more and no less.
LEMMA RegionIsSelected ==
  ASSUME Selecting, pc = "done"
  PROVE  \A b \in loop.blocks : InRegion(b) <=> b \in selected
<1>1. /\ loop \in LoopShapes /\ rpo \in Traversals[loop] /\ Placing
  BY DEF Selecting, Walk, Typed, RegionTypeOK
<1>2. \A b \in loop.blocks : \E i \in 1 .. Len(rpo) : rpo[i] = b
  BY <1>1, TraversalFacts
<1>3. placed = Len(rpo)
  BY <1>1 DEF Placing
<1> QED
  BY <1>1, <1>2, <1>3 DEF Placing

\* Header, latches and iterator code are cloned by no selector, but for
\* latches of the two kinds the property names.
THEOREM LoopEndsStayOut == Spec => []RegionKeepsLoopEnds
<1>1. Selecting => RegionKeepsLoopEnds
  <2> SUFFICES ASSUME Selecting, pc = "done" PROVE RegionKeepsLoopEnds
    BY DEF RegionKeepsLoopEnds
  <2>1. /\ loop \in LoopShapes /\ Choosing /\ strategy \in {"naive", "itr", "witr"}
        /\ \A b \in loop.blocks : InRegion(b) <=> b \in selected
    BY RegionIsSelected DEF Selecting, Walk, Typed, RegionTypeOK
  <2>2. /\ loop.header \in loop.blocks /\ Latches(loop) \subseteq loop.blocks
        /\ \A d \in DOMAIN loop.inner : loop.inner[d] \subseteq loop.blocks
    BY <2>1, ShapeAssumption DEF Latches
  <2>3. CASE strategy = "naive"
    BY <2>1, <2>2, <2>3 DEF Choosing, EndBlocks, RegionKeepsLoopEnds
  <2>4. CASE strategy = "itr"
    <3>1. PayloadTaken(loop, selected)
      BY <2>1, <2>4 DEF Choosing
    <3>2. ASSUME NEW b \in Latches(loop), InRegion(b)
          PROVE  \E d \in DOMAIN loop.inner \cap loop.payload :
                    b \in loop.inner[d] /\ \A c \in loop.inner[d] : InRegion(c)
      <4>1. b \in selected
        BY <2>1, <2>2, <3>2
      <4>2. PICK d \in DOMAIN loop.inner \cap loop.payload :
                   b \in loop.inner[d] /\ loop.inner[d] \subseteq selected
        BY <3>1, <4>1 DEF PayloadTaken
      <4> QED
        BY <2>1, <2>2, <4>2
    <3> QED
      BY <2>1, <2>2, <2>4, <3>1, <3>2 DEF PayloadTaken, RegionKeepsLoopEnds
  <2>5. CASE strategy = "witr"
    <3>1. selected \subseteq Allowed(loop)
      BY <2>1, <2>5 DEF Choosing
    <3> QED
      BY <2>1, <2>2, <2>5, <3>1 DEF Allowed, RegionKeepsLoopEnds
  <2> QED
    BY <2>1, <2>3, <2>4, <2>5
<1> QED
  BY SelectingInvariance, <1>1, PTL

\* The itr region is entered from the ends of its loop only.
THEOREM ItrStaysEnteredFromHeader == Spec => []ItrEnteredFromHeader
<1>1. Selecting => ItrEnteredFromHeader
  <2> SUFFICES ASSUME Selecting, pc = "done", strategy = "itr",
                      NEW b \in loop.blocks, InRegion(b), NEW p \in Preds(loop, b)
               PROVE  InRegion(p) \/ p \in EndBlocks(loop)
    BY DEF ItrEnteredFromHeader
  <2>1. EnteredFromEnds(loop, selected)
    BY DEF Selecting, Choosing
  <2>2. b \in selected /\ p \in loop.blocks
    BY RegionIsSelected DEF Preds
  <2>3. p \in selected \cup EndBlocks(loop)
    BY <2>1, <2>2 DEF EnteredFromEnds
  <2> QED
    BY <2>2, <2>3, RegionIsSelected
<1> QED
  BY SelectingInvariance, <1>1, PTL

\* The itr region stops at iterator code and nowhere else.
THEOREM ItrOnlyStopsAtIteratorCode == Spec => []ItrStopsAtIteratorCode
<1>1. Selecting => ItrStopsAtIteratorCode
  <2> SUFFICES ASSUME Selecting, pc = "done", strategy = "itr", known,
                      NEW i \in DOMAIN rpo, rpo[i] \notin EndBlocks(loop), ~InRegion(rpo[i])
               PROVE  \E j \in 1 .. i : /\ rpo[j] \notin EndBlocks(loop)
                                        /\ ~(Taken(rpo[j]) \subseteq loop.payload)
    BY DEF ItrStopsAtIteratorCode
  <2>1. /\ loop \in LoopShapes /\ rpo \in Traversals[loop]
        /\ next \in 1 .. Len(rpo) + 1 /\ Choosing
    BY DEF Selecting, Walk, Typed, RegionTypeOK
  <2>2. /\ Len(rpo) \in Nat /\ i \in 1 .. Len(rpo) /\ rpo[i] \in loop.blocks
    BY <2>1, TraversalFacts
  <2>3. rpo[i] \notin selected
    BY <2>2, RegionIsSelected
  <2>4. i \notin 1 .. next - 1
    BY <2>1, <2>3 DEF Choosing, Behind
  <2>5. next \in 1 .. i
    BY <2>1, <2>2, <2>4
  <2>6. StopsAt(rpo[next])
    BY <2>1, <2>2, <2>5 DEF Choosing
  <2> QED
    BY <2>5, <2>6 DEF StopsAt
<1> QED
  BY SelectingInvariance, <1>1, PTL
-----------------------------------------------------------------------------
(* The heaviest tree *)

\* Blocks weigh a number, the sum over their instructions.
LEMMA BlockWeightType ==
  ASSUME NEW kinds \in Seq(Kinds)
  PROVE  BlockWeight(kinds) \in Nat
<1>0. PICK D : D = DOMAIN kinds
  OBVIOUS
<1> DEFINE Made(t) == t = [s \in SUBSET D |->
             IF s = {} THEN 0
             ELSE KindWeight[kinds[CHOOSE x \in s : TRUE]] + t[s \ {CHOOSE x \in s : TRUE}]]
<1>1. PICK w : w = [i \in D |-> KindWeight[kinds[i]]]
  OBVIOUS
<1>2. \A k \in Kinds : KindWeight[k] \in Nat
  BY DEF KindWeight, Kinds, MemoryKinds
<1>3. w \in [D -> Nat]
  BY <1>0, <1>1, <1>2
<1>4. IsFiniteSet(D)
  BY <1>0, FS_Interval
<1>5. BlockWeight(kinds) = (CHOOSE t : Made(t))[D]
  BY <1>0 DEF BlockWeight, MapThenSumSet, MapThenFoldSet
<1>6. ASSUME NEW t PROVE Made(t) <=> IsFold(w, D, t)
  <2>1. ASSUME NEW s \in SUBSET D, s # {}
        PROVE  KindWeight[kinds[CHOOSE x \in s : TRUE]] = w[CHOOSE x \in s : TRUE]
    BY <1>1, <2>1
  <2> QED
    BY <2>1 DEF Added, First, Rest, IsFold
<1> HIDE DEF Made
<1>7. PICK u : IsFold(w, D, u)
  BY <1>3, <1>4, FoldExists
<1>8. Made(CHOOSE t : Made(t))
  BY <1>6, <1>7
<1>9. PICK t : t = CHOOSE v : Made(v)
  OBVIOUS
<1>10. Adds(w, D, t)
  BY <1>3, <1>4, <1>6, <1>8, <1>9, FoldAdds
<1> QED
  BY <1>5, <1>9, <1>10 DEF Adds

\* What blocks with contents c weigh together.
Weighs(c, blocks) == MapThenSumSet(LAMBDA b : BlockWeight(c[b]), blocks)

LEMMA TreeWeightIs ==
  \A S : TreeWeight(S) = Weighs(content, S) /\ TreeWeight(S)' = Weighs(content', S)
BY DEF TreeWeight, Weighs, MapThenSumSet, MapThenFoldSet

LEMMA WeighsAdds ==
  ASSUME NEW c, NEW D, IsFiniteSet(D), NEW w \in [D -> Nat],
         \A b \in D : w[b] = BlockWeight(c[b])
  PROVE  \E t : Adds(w, D, t) /\ Weighs(c, D) = t[D]
<1> DEFINE Made(t) == t = [s \in SUBSET D |->
             IF s = {} THEN 0
             ELSE BlockWeight(c[CHOOSE x \in s : TRUE]) + t[s \ {CHOOSE x \in s : TRUE}]]
<1>1. Weighs(c, D) = (CHOOSE t : Made(t))[D]
  BY DEF Weighs, MapThenSumSet, MapThenFoldSet
<1>2. ASSUME NEW t PROVE Made(t) <=> IsFold(w, D, t)
  <2>1. ASSUME NEW s \in SUBSET D, s # {}
        PROVE  BlockWeight(c[CHOOSE x \in s : TRUE]) = w[CHOOSE x \in s : TRUE]
    BY <2>1
  <2> QED
    BY <2>1 DEF Added, First, Rest, IsFold
<1> HIDE DEF Made
<1>3. PICK u : IsFold(w, D, u)
  BY FoldExists
<1>4. Made(CHOOSE t : Made(t))
  BY <1>2, <1>3
<1>5. PICK t : t = CHOOSE v : Made(v)
  OBVIOUS
<1>6. Adds(w, D, t)
  BY <1>2, <1>4, <1>5, FoldAdds
<1> QED
  BY <1>1, <1>5, <1>6

\* More blocks do not weigh less.
LEMMA MoreWeighsMore ==
  ASSUME NEW c, NEW D, IsFiniteSet(D), \A b \in D : c[b] \in Seq(Kinds), NEW r \in SUBSET D
  PROVE  Weighs(c, r) <= Weighs(c, D) /\ Weighs(c, r) \in Nat /\ Weighs(c, D) \in Nat
<1>1. PICK w : w = [b \in D |-> BlockWeight(c[b])]
  OBVIOUS
<1>2. w \in [D -> Nat]
  BY <1>1, BlockWeightType
<1>3. PICK v : v = [b \in r |-> BlockWeight(c[b])]
  OBVIOUS
<1>4. v \in [r -> Nat] /\ IsFiniteSet(r)
  BY <1>3, BlockWeightType, FS_Subset
<1>5. PICK t : Adds(w, D, t) /\ Weighs(c, D) = t[D]
  BY <1>1, <1>2, WeighsAdds
<1>6. PICK u : Adds(v, r, u) /\ Weighs(c, r) = u[r]
  BY <1>3, <1>4, WeighsAdds
<1>7. Folds(w, r, u)
  <2> SUFFICES ASSUME NEW s \in SUBSET r PROVE u[s] = Added(w, u, s)
    BY DEF Folds
  <2>1. u[s] = Added(v, u, s)
    BY <1>6 DEF Adds, Folds
  <2>2. CASE s = {}
    BY <2>1, <2>2 DEF Added
  <2>3. CASE s # {}
    <3>1. First(s) \in r
      BY <2>3 DEF First
    <3>2. v[First(s)] = w[First(s)]
      BY <1>1, <1>3, <3>1
    <3> QED
      BY <2>1, <2>3, <3>2 DEF Added
  <2> QED
    BY <2>2, <2>3
<1>8. t[r] = u[r]
  BY <1>5, <1>7, AddsSame DEF Adds
<1>9. t[r] <= t[D] /\ t[r] \in Nat /\ t[D] \in Nat
  BY <1>2, <1>5, AddsMonotonic DEF Adds
<1> QED
  BY <1>5, <1>6, <1>8, <1>9

\* A loop has finitely many blocks: a traversal lists them.
LEMMA BlocksAreFinite ==
  ASSUME NEW L \in LoopShapes, NEW order \in Traversals[L]
  PROVE  IsFiniteSet(L.blocks)
<1>1. /\ Len(order) \in Nat /\ order \in [1 .. Len(order) -> L.blocks]
      /\ \A b \in L.blocks : \E i \in 1 .. Len(order) : order[i] = b
  BY TraversalFacts
<1>2. order \in Surjection(1 .. Len(order), L.blocks)
  BY <1>1 DEF Surjection
<1>3. IsFiniteSet(1 .. Len(order))
  BY <1>1, FS_Interval
<1> QED
  BY <1>2, <1>3, FS_Surjection

\* The trees are all there when one is picked, and none is heavier than it.
Heaviest ==
  strategy = "witr" /\ known /\ pc \in {"order", "done"} =>
    collected /\ \A r \in DOMAIN groups : TreeWeight(groups[r]) <= TreeWeight(selected)

LEMMA HeaviestKept == Selecting /\ Heaviest /\ [Next]_vars => Heaviest'
<1> SUFFICES ASSUME Selecting, Heaviest, [Next]_vars,
                    strategy' = "witr", known', pc' \in {"order", "done"}
             PROVE  /\ collected'
                    /\ \A r \in DOMAIN groups' :
                         Weighs(content', groups'[r]) <= Weighs(content', selected')
  <2>1. \A S : TreeWeight(S)' = Weighs(content', S)
    BY TreeWeightIs
  <2>2. (\A r \in DOMAIN groups : TreeWeight(groups[r]) <= TreeWeight(selected))'
        <=> \A r \in DOMAIN groups' : Weighs(content', groups'[r]) <= Weighs(content', selected')
    BY DEF TreeWeight, Weighs, MapThenSumSet, MapThenFoldSet
  <2> QED
    BY <2>2 DEF Heaviest
<1>1. ASSUME UNCHANGED <<strategy, known, content, groups, collected, selected>>,
             pc \in {"order", "done"}
      PROVE  /\ collected'
             /\ \A r \in DOMAIN groups' :
                  Weighs(content', groups'[r]) <= Weighs(content', selected')
  BY <1>1, TreeWeightIs DEF Heaviest
<1>2. CASE \/ SelectNaive \/ SelectUnknown \/ ItrSkip \/ ItrTake \/ ItrStop \/ ItrEnd
           \/ SelectTrees \/ CollectTrees
  BY <1>2 DEF SelectNaive, SelectUnknown, Walking, ItrSkip, ItrTake, ItrStop, ItrEnd, SelectTrees,
     CollectTrees, selectionVars
<1>3. ASSUME NEW r \in DOMAIN groups, WitrPick(r)
      PROVE  /\ collected'
             /\ \A s \in DOMAIN groups' :
                  Weighs(content', groups'[s]) <= Weighs(content', selected')
  BY <1>3, TreeWeightIs DEF WitrPick, treeVars
<1>4. CASE WitrPickNone
  BY <1>4 DEF WitrPickNone, treeVars
<1>5. CASE OrderBlock \/ Ordered
  BY <1>1, <1>5 DEF OrderBlock, Ordered, treeVars
<1>6. CASE UNCHANGED vars
  BY <1>1, <1>6 DEF vars, treeVars, selectionVars
<1> QED
  BY <1>2, <1>3, <1>4, <1>5, <1>6 DEF Next

\* No root could claim more for its tree alone than the selected tree weighs:
\* its own payload is in its tree, whatever the order of the roots, and blocks
\* do not weigh less than nothing.
THEOREM HeaviestTreeIsSelected == Spec => []WitrIsHeaviest
<1>1. Init => Heaviest
  BY DEF Init, Heaviest
<1>2. Selecting /\ Heaviest => WitrIsHeaviest
  <2> SUFFICES ASSUME Selecting, Heaviest, strategy = "witr", known, pc = "done",
                      NEW r \in Entered(loop)
               PROVE  TreeWeight(ExclusivePayload(loop, r)) <= TreeWeight({b \in loop.blocks : InRegion(b)})
    BY DEF WitrIsHeaviest
  <2>1. /\ loop \in LoopShapes /\ rpo \in Traversals[loop] /\ content \in Contents
        /\ selected \subseteq loop.blocks /\ loop.blocks \subseteq Blocks
    BY ShapeAssumption DEF Selecting, Walk, Typed, RegionTypeOK
  <2>2. {b \in loop.blocks : InRegion(b)} = selected
    BY <2>1, RegionIsSelected
  <2>3. PICK S : S = ExclusivePayload(loop, r)
    OBVIOUS
  <2>4. r \in DOMAIN groups /\ S \subseteq groups[r] /\ groups[r] \subseteq loop.blocks
    <3>1. ExclusiveInOwnTree /\ collected
      BY OwnPayloadHeld DEF Selecting, Heaviest
    <3>2. DOMAIN groups = Entered(loop)
      BY <2>1, RootsAreEntered DEF Selecting, RegionTypeOK, TreeTypeOK
    <3>3. \A s \in DOMAIN groups : groups[s] \subseteq loop.blocks
      BY DEF Selecting, RegionTypeOK, TreeTypeOK
    <3> QED
      BY <2>3, <3>1, <3>2, <3>3 DEF ExclusiveInOwnTree
  <2>5. IsFiniteSet(loop.blocks) /\ IsFiniteSet(groups[r]) /\ IsFiniteSet(selected)
    BY <2>1, <2>4, BlocksAreFinite, FS_Subset
  <2>6. \A b \in loop.blocks : content[b] \in Seq(Kinds)
    BY <2>1, ContentAssumption
  <2>7. /\ Weighs(content, S) <= Weighs(content, groups[r])
        /\ Weighs(content, S) \in Nat /\ Weighs(content, groups[r]) \in Nat
    BY <2>4, <2>5, <2>6, MoreWeighsMore
  <2>8. Weighs(content, selected) \in Nat
    BY <2>1, <2>5, <2>6, MoreWeighsMore
  <2>9. Weighs(content, groups[r]) <= Weighs(content, selected)
    BY <2>4, TreeWeightIs DEF Heaviest
  <2>10. Weighs(content, S) <= Weighs(content, selected)
    BY ONLY <2>7, <2>8, <2>9
  <2> QED
    BY <2>2, <2>3, <2>10, TreeWeightIs
<1> QED
  BY SelectingInvariance, HeaviestKept, <1>1, <1>2, PTL DEF Spec
=============================================================================
