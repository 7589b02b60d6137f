------------------------- MODULE PayloadTrees_proofs -------------------------
(***************************************************************************)
(* Proofs about SelectPayloadTrees, for every loop and every order of      *)
(* roots and blocks.                                                       *)
(***************************************************************************)
EXTENDS PayloadTrees, TLAPS

\* What may be collected is the payload that is not blacklisted at the start.
LEMMA AllowedIsUnlisted ==
  ASSUME NEW L \in LoopShapes
  PROVE  Allowed(L) = L.payload \ InitialBlacklist(L)
<1>1. /\ L.payload \subseteq L.blocks
      /\ DOMAIN L.inner \subseteq L.blocks
  BY ShapeAssumption
<1>2. ASSUME NEW b \in L.payload
      PROVE  b \in LoopLatch(L) <=> Latches(L) = {b}
  BY DEF LoopLatch
<1>3. ASSUME NEW b \in L.payload
      PROVE  b \in UNION {L.inner[d] : d \in IteratorBlocks(L) \cap DOMAIN L.inner}
               <=> \E d \in DOMAIN L.inner \ L.payload : b \in L.inner[d]
  BY <1>1 DEF IteratorBlocks
<1>4. ASSUME NEW b \in L.payload
      PROVE  b \notin IteratorBlocks(L)
  BY DEF IteratorBlocks
<1> QED
  BY <1>2, <1>3, <1>4 DEF Allowed, InitialBlacklist

\* The roots are the allowed blocks that iterator blocks branch to.
LEMMA RootsAreEntered ==
  ASSUME NEW L \in LoopShapes
  PROVE  Roots(L) = Entered(L)
<1>1. ASSUME NEW b
      PROVE  Preds(L, b) \cap IteratorBlocks(L) # {}
               <=> \E p \in L.blocks \ L.payload : b \in L.succ[p]
  BY DEF Preds, IteratorBlocks
<1> QED
  BY <1>1, AllowedIsUnlisted DEF Roots, Entered

\* Reachable is what its name says: it holds the blocks it starts from, goes
\* on along the edges, is least, and grows with the blocks it starts from.
LEMMA ReachableStarts ==
  ASSUME NEW L, NEW A, NEW From, NEW b \in From \cap A
  PROVE  b \in Reachable(L, A, From)
BY DEF Reachable

LEMMA ReachableGoesOn ==
  ASSUME NEW L, NEW A, NEW From,
         NEW b \in Reachable(L, A, From), NEW c \in L.succ[b] \cap A
  PROVE  c \in Reachable(L, A, From)
BY DEF Reachable, Closed

LEMMA ReachableIsLeast ==
  ASSUME NEW L, NEW A, NEW From, NEW S \in SUBSET A,
         From \subseteq S, Closed(L, A, S)
  PROVE  Reachable(L, A, From) \subseteq S
BY DEF Reachable

LEMMA ReachableGrows ==
  ASSUME NEW L, NEW A, NEW From, NEW To, From \subseteq To
  PROVE  Reachable(L, A, From) \subseteq Reachable(L, A, To)
BY DEF Reachable
-----------------------------------------------------------------------------
\* The function is called for one of the loops, and that does not change.
Typed == loop \in LoopShapes /\ TreeTypeOK

LEMMA TypedInit == TreeInit => Typed
<1> SUFFICES ASSUME TreeInit PROVE Typed
  OBVIOUS
<1>1. loop \in LoopShapes
  BY DEF TreeInit
<1>2. Roots(loop) \subseteq loop.blocks
  BY <1>1, ShapeAssumption DEF Roots
<1>3. InitialBlacklist(loop) \subseteq loop.blocks
  <2>1. LoopLatch(loop) \subseteq loop.blocks
    BY DEF LoopLatch, Latches
  <2>2. \A d \in DOMAIN loop.inner : loop.inner[d] \subseteq loop.blocks
    BY <1>1, ShapeAssumption
  <2> QED
    BY <1>1, <2>1, <2>2, ShapeAssumption DEF InitialBlacklist, IteratorBlocks
<1> QED
  BY <1>1, <1>2, <1>3 DEF TreeInit, Typed, TreeTypeOK

LEMMA TypedNext == Typed /\ [TreeNext]_treeVars => Typed'
<1> SUFFICES ASSUME Typed, [TreeNext]_treeVars PROVE Typed'
  OBVIOUS
<1> USE DEF Typed, TreeTypeOK
<1>0. /\ Roots(loop) \subseteq loop.blocks
      /\ loop.succ \in [loop.blocks -> SUBSET loop.blocks]
  BY ShapeAssumption DEF Roots
<1>1. ASSUME NEW r \in pending, StartTree(r) PROVE Typed'
  BY <1>0, <1>1 DEF StartTree
<1>2. ASSUME NEW b \in worklist, Visit(b) PROVE Typed'
  <2>1. b \in loop.blocks /\ loop.succ[b] \subseteq loop.blocks
    BY <1>0
  <2>2. groups' \in [Roots(loop) -> SUBSET loop.blocks]
    BY <1>2, <2>1 DEF Visit
  <2>3. worklist' \subseteq loop.blocks /\ blacklisted' \subseteq loop.blocks
    BY <1>2, <2>1 DEF Visit
  <2> QED
    BY <1>2, <2>2, <2>3 DEF Visit
<1>3. CASE FinishTree
  BY <1>3 DEF FinishTree
<1>4. CASE Collected
  BY <1>4 DEF Collected
<1>5. CASE UNCHANGED treeVars
  BY <1>5 DEF treeVars
<1> QED
  BY <1>1, <1>2, <1>3, <1>4, <1>5 DEF TreeNext

\* The variables of SelectPayloadTrees keep their types.
THEOREM TreeTypeCorrect == TreeSpec => []TreeTypeOK
<1>1. Typed => TreeTypeOK
  BY DEF Typed
<1> QED
  BY TypedInit, TypedNext, <1>1, PTL DEF TreeSpec
-----------------------------------------------------------------------------
\* What the walk does, tree by tree.
\* A tree holds its root; before its turn it holds nothing else.
Rooted ==
  /\ \A r \in Roots(loop) : r \in groups[r]
  /\ \A r \in pending : groups[r] = {r}

\* Only the root of the current tree can have been visited before.
Fresh ==
  /\ InitialBlacklist(loop) \subseteq blacklisted
  /\ \A b \in worklist : root # NoBlock /\ (b = root \/ b \notin blacklisted)
  /\ \A r \in Roots(loop) : groups[r] \subseteq blacklisted \cup {r}
  /\ root = NoBlock => worklist = {}
  /\ root \notin pending

\* A root leads to its tree and to the worklist of its tree.
Led ==
  /\ \A r \in Roots(loop) : groups[r] \subseteq Reachable(loop, Allowed(loop), {r})
  /\ worklist \subseteq Reachable(loop, Allowed(loop), {root})

\* What a visited block leads to is visited or waits on the worklist, and
\* every visited block is in a tree.
Followed ==
  /\ \A b \in blacklisted \cap Allowed(loop) :
        /\ loop.succ[b] \cap Allowed(loop) \subseteq blacklisted \cup worklist
        /\ \E r \in Roots(loop) : b \in groups[r]
  /\ Roots(loop) \subseteq pending \cup blacklisted \cup worklist
  /\ collected => root = NoBlock /\ pending = {}

\* The worklist hangs on the tree being collected.
Hanging ==
  /\ \A b \in worklist : b = root \/ \E a \in groups[root] : b \in loop.succ[a]
  /\ TreesAreConnected

\* The inductive invariant of the walk.
Walk ==
  /\ Typed /\ Rooted /\ Fresh /\ Led /\ Followed /\ Hanging /\ OverlapOnlyAtRoots

LEMMA RootsFacts ==
  ASSUME NEW L \in LoopShapes
  PROVE  /\ Roots(L) \subseteq Allowed(L)
         /\ Allowed(L) = L.payload \ InitialBlacklist(L)
         /\ Allowed(L) \subseteq L.blocks
         /\ NoBlock \notin Roots(L)
<1>1. L.payload \subseteq L.blocks /\ L.blocks \subseteq Blocks
  BY ShapeAssumption
<1> QED
  BY <1>1, AllowedIsUnlisted, NoBlockAssumption DEF Roots

LEMMA WalkInit == TreeInit => Walk
<1> SUFFICES ASSUME TreeInit PROVE Walk
  OBVIOUS
<1>1. Typed
  BY TypedInit
<1>2. /\ Roots(loop) \subseteq Allowed(loop)
      /\ Allowed(loop) \cap InitialBlacklist(loop) = {}
      /\ NoBlock \notin Roots(loop)
  BY <1>1, RootsFacts DEF Typed
<1> USE DEF TreeInit
<1>3. Rooted
  BY DEF Rooted
<1>4. Fresh
  BY <1>2 DEF Fresh
<1>5. Led
  BY <1>2, ReachableStarts DEF Led
<1>6. Followed
  BY <1>2 DEF Followed
<1>7. Hanging
  <2>1. ASSUME NEW r \in Roots(loop) PROVE Reachable(loop, {r}, {r}) = {r}
    BY DEF Reachable
  <2> QED
    BY <2>1 DEF Hanging, TreesAreConnected
<1>8. OverlapOnlyAtRoots
  BY DEF OverlapOnlyAtRoots
<1> QED
  BY <1>1, <1>3, <1>4, <1>5, <1>6, <1>7, <1>8 DEF Walk

\* A tree stays connected when a block joins that one of its blocks leads to.
LEMMA JoiningConnects ==
  ASSUME NEW L, NEW G, NEW r \in G, NEW b, NEW H, H = G \cup {b},
         G = Reachable(L, G, {r}), \E a \in G : b \in L.succ[a]
  PROVE  H = Reachable(L, H, {r})
<1>1. SUFFICES ASSUME NEW S \in SUBSET H, {r} \subseteq S, Closed(L, H, S)
               PROVE  H \subseteq S
  BY DEF Reachable
<1>2. Closed(L, G, S \cap G)
  BY <1>1 DEF Closed
<1>3. G \subseteq S \cap G
  BY <1>1, <1>2, ReachableIsLeast
<1>4. b \in S
  BY <1>1, <1>3 DEF Closed
<1> QED
  BY <1>3, <1>4

LEMMA VisitKeeps ==
  ASSUME Walk, NEW b \in worklist, Visit(b), Typed'
  PROVE  Walk'
<1> DEFINE added == (loop.succ[b] \cap loop.payload) \ blacklisted'
<1>0. /\ loop' = loop /\ pending' = pending /\ root' = root /\ collected' = collected
      /\ blacklisted' = blacklisted \cup {b}
      /\ worklist' = (worklist \ {b}) \cup added
      /\ root \in Roots(loop)
      /\ groups \in [Roots(loop) -> SUBSET loop.blocks]
      /\ groups' = [groups EXCEPT ![root] = @ \cup {b}]
  BY DEF Visit, Walk, Typed, TreeTypeOK
<1>1. /\ loop \in LoopShapes /\ pending \subseteq Roots(loop)
      /\ Roots(loop) \subseteq Allowed(loop)
      /\ Allowed(loop) = loop.payload \ InitialBlacklist(loop)
  BY RootsFacts DEF Walk, Typed, TreeTypeOK
<1>2. /\ groups'[root] = groups[root] \cup {b}
      /\ \A r \in Roots(loop) : r # root => groups'[r] = groups[r]
      /\ DOMAIN groups' = Roots(loop) /\ DOMAIN groups = Roots(loop)
  BY <1>0
<1>3. added \subseteq Allowed(loop)
  BY <1>0, <1>1 DEF Walk, Fresh
<1>4. b \in Allowed(loop) /\ b \in Reachable(loop, Allowed(loop), {root})
  BY DEF Walk, Led, Reachable
<1>5. Rooted'
  BY <1>0, <1>1, <1>2 DEF Walk, Rooted, Fresh
<1>6. Fresh'
  BY <1>0, <1>1, <1>2 DEF Walk, Fresh
<1>7. Led'
  <2>1. added \subseteq Reachable(loop, Allowed(loop), {root})
    BY <1>3, <1>4, ReachableGoesOn
  <2> QED
    BY <1>0, <1>2, <1>4, <2>1 DEF Walk, Led
<1>8. Followed'
  <2>1. loop.succ[b] \cap Allowed(loop) \subseteq blacklisted' \cup added
    BY <1>0, <1>1
  <2>2. ASSUME NEW x \in blacklisted' \cap Allowed(loop)
        PROVE  loop.succ[x] \cap Allowed(loop) \subseteq blacklisted' \cup worklist'
    BY <1>0, <2>1 DEF Walk, Followed
  <2>3. ASSUME NEW x \in blacklisted' \cap Allowed(loop)
        PROVE  \E r \in Roots(loop) : x \in groups'[r]
    BY <1>0, <1>2 DEF Walk, Followed
  <2> QED
    BY <1>0, <2>2, <2>3 DEF Walk, Followed
<1>9. Hanging'
  <2>1. ASSUME NEW c \in worklist'
        PROVE  c = root \/ \E a \in groups'[root] : c \in loop.succ[a]
    BY <1>0, <1>2 DEF Walk, Hanging
  <2>2. groups[root] = Reachable(loop, groups[root], {root}) /\ root \in groups[root]
    BY <1>0, <1>2 DEF Walk, Hanging, TreesAreConnected, Rooted
  <2>3. groups'[root] = Reachable(loop, groups'[root], {root})
    <3>1. CASE b = root
      BY <1>2, <2>2, <3>1
    <3>2. CASE b # root
      <4>1. \E a \in groups[root] : b \in loop.succ[a]
        BY <3>2 DEF Walk, Hanging
      <4> QED
        BY <1>2, <2>2, <4>1, JoiningConnects
    <3> QED
      BY <3>1, <3>2
  <2> QED
    BY <1>0, <1>2, <2>1, <2>3 DEF Walk, Hanging, TreesAreConnected
<1>10. OverlapOnlyAtRoots'
  <2>1. ASSUME NEW s \in Roots(loop), s # root, b \in groups[s]
        PROVE  b \in {root, s}
    BY <2>1 DEF Walk, Fresh
  <2> QED
    BY <1>0, <1>2, <2>1 DEF Walk, OverlapOnlyAtRoots
<1> QED
  BY <1>5, <1>6, <1>7, <1>8, <1>9, <1>10 DEF Walk

LEMMA WalkNext == Walk /\ [TreeNext]_treeVars => Walk'
<1> SUFFICES ASSUME Walk, [TreeNext]_treeVars PROVE Walk'
  OBVIOUS
<1>0. Typed'
  BY TypedNext DEF Walk
<1>1. ASSUME NEW r \in pending, StartTree(r) PROVE Walk'
  <2>0. /\ loop \in LoopShapes /\ r \in Roots(loop) /\ r \in Allowed(loop)
        /\ NoBlock \notin Roots(loop)
    BY RootsFacts DEF Walk, Typed, TreeTypeOK
  <2>1. worklist = {} /\ groups[r] = {r}
    BY <1>1 DEF StartTree, Walk, Fresh, Rooted
  <2> USE <1>1 DEF StartTree
  <2>2. Rooted'
    BY DEF Walk, Rooted
  <2>3. Fresh'
    BY <2>0 DEF Walk, Fresh
  <2>4. Led'
    BY <2>0, ReachableStarts DEF Walk, Led
  <2>5. Followed'
    BY <2>1 DEF Walk, Followed
  <2>6. Hanging'
    BY DEF Walk, Hanging, TreesAreConnected
  <2>7. OverlapOnlyAtRoots'
    BY DEF Walk, OverlapOnlyAtRoots
  <2> QED
    BY <1>0, <2>2, <2>3, <2>4, <2>5, <2>6, <2>7 DEF Walk
<1>2. ASSUME NEW b \in worklist, Visit(b) PROVE Walk'
  BY <1>0, <1>2, VisitKeeps
<1>3. CASE FinishTree
  <2>0. NoBlock \notin pending
    BY RootsFacts DEF Walk, Typed, TreeTypeOK
  <2> USE <1>3 DEF FinishTree
  <2>1. Rooted' /\ Fresh' /\ Led'
    BY <2>0 DEF Walk, Rooted, Fresh, Led
  <2>2. Followed'
    BY DEF Walk, Followed
  <2>3. Hanging' /\ OverlapOnlyAtRoots'
    BY DEF Walk, Hanging, TreesAreConnected, OverlapOnlyAtRoots
  <2> QED
    BY <1>0, <2>1, <2>2, <2>3 DEF Walk
<1>4. CASE Collected
  <2> USE <1>4 DEF Collected
  <2>1. Rooted' /\ Fresh' /\ Led'
    BY DEF Walk, Rooted, Fresh, Led
  <2>2. Followed'
    BY DEF Walk, Followed
  <2>3. Hanging' /\ OverlapOnlyAtRoots'
    BY DEF Walk, Hanging, TreesAreConnected, OverlapOnlyAtRoots
  <2> QED
    BY <1>0, <2>1, <2>2, <2>3 DEF Walk
<1>5. CASE UNCHANGED treeVars
  <2> USE <1>5 DEF treeVars
  <2>1. Rooted' /\ Fresh' /\ Led'
    BY DEF Walk, Rooted, Fresh, Led
  <2>2. Followed'
    BY DEF Walk, Followed
  <2>3. Hanging' /\ OverlapOnlyAtRoots'
    BY DEF Walk, Hanging, TreesAreConnected, OverlapOnlyAtRoots
  <2> QED
    BY <1>0, <2>1, <2>2, <2>3 DEF Walk
<1> QED
  BY <1>1, <1>2, <1>3, <1>4, <1>5 DEF TreeNext

LEMMA WalkInvariance == TreeSpec => []Walk
BY WalkInit, WalkNext, PTL DEF TreeSpec
-----------------------------------------------------------------------------
\* No tree holds the header, the only latch, iterator code or a block of an
\* inner loop that iterator code controls.
THEOREM TreesStayAllowed == TreeSpec => []TreesAreAllowed
<1>1. Walk => TreesAreAllowed
  BY DEF Walk, Typed, TreeTypeOK, Led, Reachable, TreesAreAllowed
<1> QED
  BY WalkInvariance, <1>1, PTL

\* When SelectPayloadTrees returns, its trees hold exactly the allowed payload
\* that the roots lead to.
LEMMA WalkCovers == Walk => TreesCoverPayload
<1> SUFFICES ASSUME Walk, collected
             PROVE  UNION {groups[r] : r \in DOMAIN groups}
                      = Reachable(loop, Allowed(loop), Entered(loop))
  BY DEF TreesCoverPayload
<1> DEFINE All == UNION {groups[r] : r \in Roots(loop)}
<1>1. /\ loop \in LoopShapes /\ DOMAIN groups = Roots(loop)
      /\ Roots(loop) = Entered(loop)
      /\ Allowed(loop) \cap InitialBlacklist(loop) = {}
  BY RootsAreEntered, AllowedIsUnlisted DEF Walk, Typed, TreeTypeOK
<1>2. root = NoBlock /\ pending = {} /\ worklist = {}
  BY DEF Walk, Followed, Fresh
<1>3. All \subseteq Reachable(loop, Allowed(loop), Entered(loop))
  <2>1. ASSUME NEW r \in Roots(loop)
        PROVE  groups[r] \subseteq Reachable(loop, Allowed(loop), Entered(loop))
    <3>1. Reachable(loop, Allowed(loop), {r}) \subseteq Reachable(loop, Allowed(loop), Entered(loop))
      BY <1>1, ReachableGrows
    <3> QED
      BY <3>1 DEF Walk, Led
  <2> QED
    BY <2>1
<1>4. All \subseteq blacklisted \cap Allowed(loop)
  BY <1>2 DEF Walk, Followed, Fresh, Led, Reachable
<1>5. blacklisted \cap Allowed(loop) \subseteq All
  BY DEF Walk, Followed
<1>6. Closed(loop, Allowed(loop), All)
  BY <1>2, <1>4, <1>5 DEF Walk, Followed, Closed
<1>7. Entered(loop) \subseteq All
  BY <1>1 DEF Walk, Rooted
<1>8. Reachable(loop, Allowed(loop), Entered(loop)) \subseteq All
  BY <1>4, <1>6, <1>7, ReachableIsLeast
<1> QED
  BY <1>1, <1>3, <1>8

THEOREM TreesCover == TreeSpec => []TreesCoverPayload
BY WalkInvariance, WalkCovers, PTL

\* Two trees share nothing but a root of one of them.
THEOREM TreesOverlapAtRoots == TreeSpec => []OverlapOnlyAtRoots
<1>1. Walk => OverlapOnlyAtRoots
  BY DEF Walk
<1> QED
  BY WalkInvariance, <1>1, PTL

\* The root of a tree leads to each of its blocks inside the tree.
THEOREM TreesStayConnected == TreeSpec => []TreesAreConnected
<1>1. Walk => TreesAreConnected
  BY DEF Walk, Hanging
<1> QED
  BY WalkInvariance, <1>1, PTL

\* The payload that only one root leads to ends up in the tree of that root.
LEMMA OwnPayloadHeld == Walk => ExclusiveInOwnTree
<1> SUFFICES ASSUME Walk, collected, NEW r \in Entered(loop),
                    NEW b \in ExclusivePayload(loop, r)
             PROVE  b \in groups[r]
  BY DEF ExclusiveInOwnTree
<1>1. DOMAIN groups = Entered(loop)
  BY RootsAreEntered DEF Walk, Typed, TreeTypeOK
<1>2. b \in Reachable(loop, Allowed(loop), Entered(loop))
  BY ReachableGrows DEF ExclusivePayload
<1>3. PICK s \in DOMAIN groups : b \in groups[s]
  BY <1>2, WalkCovers DEF TreesCoverPayload
<1>4. b \in Reachable(loop, Allowed(loop), {s})
  BY <1>1, <1>3, RootsAreEntered DEF Walk, Led, Typed
<1>5. s = r
  BY <1>1, <1>4 DEF ExclusivePayload
<1> QED
  BY <1>3, <1>5

\* Every order of the roots and of the worklist leaves a root its own payload.
THEOREM OwnPayloadStays == TreeSpec => []ExclusiveInOwnTree
BY WalkInvariance, OwnPayloadHeld, PTL
=============================================================================
