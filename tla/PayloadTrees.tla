---------------------------- MODULE PayloadTrees ----------------------------
(***************************************************************************)
(* SelectPayloadTrees: the payload blocks of a loop that are entered from  *)
(* iterator blocks are the roots of payload trees, and a worklist collects *)
(* the payload that each root leads to.  The roots are the keys of a map   *)
(* ordered by address and the worklist is a SmallPtrSet, so roots and      *)
(* blocks come in an order the code does not fix.  One blacklist serves    *)
(* all trees: a block some tree has visited joins no later tree.           *)
(***************************************************************************)
EXTENDS LoopShape

CONSTANT NoBlock   \* no tree is being collected

ASSUME NoBlockAssumption == NoBlock \notin Blocks

VARIABLES
  loop,         \* the loop the function is called for
  blacklisted,  \* blacklistedBlocks
  groups,       \* rootGroups: root -> tree
  pending,      \* the roots whose tree is still to be collected
  root,         \* the root whose tree is being collected, or NoBlock
  worklist,
  collected     \* SelectPayloadTrees has returned

treeVars == <<loop, blacklisted, groups, pending, root, worklist, collected>>

\* Mutant: a mixed inner loop only gives up its header.
InitialBlacklistOfHeaders(L) ==
  IteratorBlocks(L) \cup LoopLatch(L) \cup {L.header}

\* What no tree may hold: iterator blocks, the latch, the header, and every
\* inner loop whose header is an iterator block.
InitialBlacklist(L) ==
  IteratorBlocks(L) \cup LoopLatch(L) \cup {L.header}
    \cup UNION {L.inner[b] : b \in IteratorBlocks(L) \cap DOMAIN L.inner}

\* Mutant: only blocks entered from the header are roots.
RootsAtHeader(L) ==
  {b \in L.payload \ InitialBlacklist(L) : L.header \in Preds(L, b)}

Roots(L) ==
  {b \in L.payload \ InitialBlacklist(L) : Preds(L, b) \cap IteratorBlocks(L) # {}}

TreeInit ==
  /\ loop \in LoopShapes
  /\ blacklisted = InitialBlacklist(loop)
  /\ groups = [r \in Roots(loop) |-> {r}]
  /\ pending = Roots(loop)
  /\ root = NoBlock
  /\ worklist = {}
  /\ collected = FALSE

\* Mutant: the next tree is begun while blocks are left on the worklist.
StartTreeEarly(r) ==
  /\ ~collected /\ r \in pending
  /\ root' = r
  /\ worklist' = worklist \cup {r}
  /\ pending' = pending \ {r}
  /\ UNCHANGED <<loop, blacklisted, groups, collected>>

StartTree(r) ==
  /\ ~collected /\ root = NoBlock /\ r \in pending
  /\ root' = r
  /\ worklist' = {r}
  /\ pending' = pending \ {r}
  /\ UNCHANGED <<loop, blacklisted, groups, collected>>

\* Mutant: a visited block is not blacklisted.
VisitForgetful(b) ==
  /\ root # NoBlock /\ b \in worklist
  /\ groups' = [groups EXCEPT ![root] = @ \cup {b}]
  /\ worklist' = (worklist \ {b}) \cup ((loop.succ[b] \cap loop.payload) \ (blacklisted \cup {b}))
  /\ UNCHANGED <<loop, blacklisted, pending, root, collected>>

\* Mutant: a visited block gets a group of its own.
VisitOwnGroup(b) ==
  /\ root # NoBlock /\ b \in worklist
  /\ blacklisted' = blacklisted \cup {b}
  /\ groups' = [k \in DOMAIN groups \cup {b} |-> IF k = b THEN {b} ELSE groups[k]]
  /\ worklist' = (worklist \ {b}) \cup ((loop.succ[b] \cap loop.payload) \ blacklisted')
  /\ UNCHANGED <<loop, pending, root, collected>>

\* One turn of the worklist loop.
Visit(b) ==
  /\ root # NoBlock /\ b \in worklist
  /\ blacklisted' = blacklisted \cup {b}
  /\ groups' = [groups EXCEPT ![root] = @ \cup {b}]
  /\ worklist' = (worklist \ {b}) \cup ((loop.succ[b] \cap loop.payload) \ blacklisted')
  /\ UNCHANGED <<loop, pending, root, collected>>

FinishTree ==
  /\ root # NoBlock /\ worklist = {}
  /\ root' = NoBlock
  /\ UNCHANGED <<loop, blacklisted, groups, pending, worklist, collected>>

Collected ==
  /\ ~collected /\ root = NoBlock /\ pending = {}
  /\ collected' = TRUE
  /\ UNCHANGED <<loop, blacklisted, groups, pending, root, worklist>>

TreeNext ==
  \/ \E r \in pending : StartTree(r)
  \/ \E b \in worklist : Visit(b)
  \/ FinishTree
  \/ Collected

\* Sequential code: it runs until it returns.
TreeSpec == TreeInit /\ [][TreeNext]_treeVars /\ WF_treeVars(TreeNext)
-----------------------------------------------------------------------------
TreeTypeOK ==
  /\ blacklisted \subseteq loop.blocks
  /\ groups \in [Roots(loop) -> SUBSET loop.blocks]
  /\ pending \subseteq Roots(loop)
  /\ root \in Roots(loop) \cup {NoBlock}
  /\ worklist \subseteq loop.blocks
  /\ collected \in BOOLEAN

\* The payload blocks a tree may hold.
Allowed(L) == {b \in L.payload : /\ b # L.header
                                 /\ Latches(L) # {b}
                                 /\ \A h \in DOMAIN L.inner \ L.payload : b \notin L.inner[h]}

\* The allowed blocks that an iterator block branches to.
Entered(L) == {b \in Allowed(L) : \E p \in L.blocks \ L.payload : b \in L.succ[p]}

\* No tree holds the header, the only latch, a block with iterator code or a
\* block of an inner loop that iterator code controls, however deep the walk
\* went.
TreesAreAllowed == \A r \in DOMAIN groups : groups[r] \subseteq Allowed(loop)

\* Whatever the order of roots and worklist, the trees together hold exactly
\* the allowed payload that the iterator blocks lead to.
TreesCoverPayload ==
  collected =>
    UNION {groups[r] : r \in DOMAIN groups} = Reachable(loop, Allowed(loop), Entered(loop))

\* A block belongs to two trees only if it is the root of one of them, and
\* was collected by the other before its own turn.
OverlapOnlyAtRoots ==
  \A r, s \in DOMAIN groups : \A b \in groups[r] \cap groups[s] : r # s => b \in {r, s}

\* A tree hangs together: its root leads to each of its blocks inside it.
TreesAreConnected ==
  \A r \in DOMAIN groups : groups[r] = Reachable(loop, groups[r], {r})

\* The payload that only one root leads to is in the tree of that root.
ExclusivePayload(L, r) ==
  Reachable(L, Allowed(L), {r}) \ UNION {Reachable(L, Allowed(L), {s}) : s \in Entered(L) \ {r}}

ExclusiveInOwnTree ==
  collected => \A r \in Entered(loop) : ExclusivePayload(loop, r) \subseteq groups[r]

\* SelectPayloadTrees returns: cycles of payload blocks do not trap the walk.
TreesReturn == <>collected
=============================================================================
