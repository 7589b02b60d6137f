--------------------------- MODULE BlockSeparator ---------------------------
(***************************************************************************)
(* The block separator pass: BlockSeparatorPass::perform walks the loops   *)
(* of a function in preorder; for each one FindPartitionPoints looks for   *)
(* the instructions at which the mode of a block changes between iterator  *)
(* and payload, and SplitAtPartitionPoints splits the blocks there, last   *)
(* point first.                                                            *)
(*                                                                         *)
(* A block of code is an interval lo .. hi of instructions.  Splitting     *)
(* leaves the head in the old block, ends it with a fresh unconditional    *)
(* branch to the new block and moves the tail, with its terminator, to the *)
(* new block.  A fresh branch has no number of its own: it stands at       *)
(* position hi + 1 of a block whose next is not 0, so a block of nothing   *)
(* but a fresh branch is the empty interval with lo = hi + 1.  The pass    *)
(* never adds fresh branches to the iterator information.                  *)
(***************************************************************************)
EXTENDS LoopNest

VARIABLES
  itrInfo,   \* iterator information: one set of instructions per known loop
  eligible,  \* the function is defined and passes the white list
  code,      \* the blocks, as [lo, phis, hi, next, loop, of]
  todo,      \* the loops of Preorder that are still to be visited
  points,    \* modeChanges: block -> (split position -> mode of the tail)
  modes,     \* blockModes: block -> mode, for the loop being visited
  cur,       \* the block SplitAtPartitionPoints is in the middle of, or 0
  lastMode,  \* lastMode of SplitAtPartitionPoints
  changed,   \* hasChanged, the result of perform
  pc         \* "start", "loop" (between loops), "split" or "done"

vars == <<itrInfo, eligible, code, todo, points, modes, cur, lastMode, changed, pc>>

Blocks == 1 .. Len(code)

\* The blocks LoopInfo counts to loop l: those of l and of the loops inside it.
BlocksOf(l) == {b \in Blocks : l \in Enclosing[code[b].loop]}

EmptyMap == [k \in {} |-> {}]

-----------------------------------------------------------------------------
\* GetMode of the instruction at position p of block b: a fresh branch is not
\* in the iterator information, which makes it payload.
GetMode(b, p, l) ==
  IF p <= code[b].hi /\ p \in itrInfo[l] THEN "Iterator" ELSE "Payload"

FirstInsertionPt(b) == code[b].lo + code[b].phis

MixedPhis(b, l) ==
  \E p, q \in code[b].lo .. FirstInsertionPt(b) - 1 : GetMode(b, p, l) # GetMode(b, q, l)

\* Mutant: the scan always starts behind the phi nodes.
FirstScannedPastPhis(b, l) == FirstInsertionPt(b)

\* Where the scan for mode changes starts: a block whose phi nodes agree is
\* scanned as a whole.
FirstScanned(b, l) == IF MixedPhis(b, l) THEN FirstInsertionPt(b) ELSE code[b].lo

\* Mutant: an unconditional branch counts as an instruction of its own mode.
ModeChangesAtBranches(b, l) ==
  {p \in FirstScanned(b, l) + 1 .. code[b].hi : GetMode(b, p, l) # GetMode(b, p - 1, l)}

\* A branch at the end of a block follows the mode before it: it is no change.
ModeChanges(b, l) ==
  {p \in FirstScanned(b, l) + 1 .. code[b].hi :
     GetMode(b, p, l) # GetMode(b, p - 1, l) /\ p \notin UncondBrs}

PartitionPoints(b, l) ==
  ModeChanges(b, l) \cup IF MixedPhis(b, l) THEN {FirstInsertionPt(b)} ELSE {}

\* The mode recorded with a point is that of the instruction there, except
\* behind mixed phi nodes, where it is inverted.
PointMode(b, p, l) ==
  IF MixedPhis(b, l) /\ p = FirstInsertionPt(b)
  THEN InvertMode(GetMode(b, p, l))
  ELSE GetMode(b, p, l)

PointsOf(l) ==
  [b \in {c \in BlocksOf(l) : PartitionPoints(c, l) # {}} |->
     [p \in PartitionPoints(b, l) |-> PointMode(b, p, l)]]

ModesOf(l) ==
  [b \in {c \in BlocksOf(l) : ModeChanges(c, l) = {}} |-> GetMode(b, FirstScanned(b, l), l)]

\* std::map::emplace does not overwrite.
Emplace(m, k, v) ==
  [j \in DOMAIN m \cup {k} |-> IF j \in DOMAIN m THEN m[j] ELSE v]

\* llvm::SplitBlock: block b keeps what is before p, a new block of the same
\* loops gets the rest.  Phi nodes stay where they are.
SplitBlock(b, p) ==
  LET old == code[b]
  IN  Append([code EXCEPT ![b] = [lo |-> old.lo, phis |-> old.phis, hi |-> p - 1,
                                  next |-> Len(code) + 1, loop |-> old.loop, of |-> old.of]],
             [lo |-> p, phis |-> 0, hi |-> old.hi, next |-> old.next,
              loop |-> old.loop, of |-> old.of])

-----------------------------------------------------------------------------
Init ==
  /\ itrInfo \in IteratorInfos
  /\ eligible \in BOOLEAN
  /\ code = [o \in DOMAIN Layout |->
               [lo |-> Layout[o].lo, phis |-> Layout[o].phis, hi |-> Layout[o].hi,
                next |-> 0, loop |-> Layout[o].loop, of |-> o]]
  /\ todo = Preorder
  /\ points = EmptyMap
  /\ modes = EmptyMap
  /\ cur = 0
  /\ lastMode = "Payload"
  /\ changed = FALSE
  /\ pc = "start"

\* The early return for declarations and functions off the white list.
Decline ==
  /\ pc = "start" /\ ~eligible
  /\ pc' = "done"
  /\ UNCHANGED <<itrInfo, eligible, code, todo, points, modes, cur, lastMode, changed>>

Start ==
  /\ pc = "start" /\ eligible
  /\ pc' = "loop"
  /\ UNCHANGED <<itrInfo, eligible, code, todo, points, modes, cur, lastMode, changed>>

\* A loop without iterator information is left alone.
SkipLoop ==
  /\ pc = "loop" /\ todo # <<>> /\ Head(todo) \notin DOMAIN itrInfo
  /\ todo' = Tail(todo)
  /\ points' = EmptyMap
  /\ modes' = EmptyMap
  /\ UNCHANGED <<itrInfo, eligible, code, cur, lastMode, changed, pc>>

\* Mutant: a loop without partition points is never left.
FindPartitionPointsStuck ==
  /\ pc = "loop" /\ todo # <<>> /\ Head(todo) \in DOMAIN itrInfo
  /\ points' = PointsOf(Head(todo))
  /\ modes' = ModesOf(Head(todo))
  /\ IF DOMAIN points' = {}
     THEN UNCHANGED <<changed, pc>>
     ELSE changed' = TRUE /\ pc' = "split"
  /\ UNCHANGED <<itrInfo, eligible, code, todo, cur, lastMode>>

FindPartitionPoints ==
  /\ pc = "loop" /\ todo # <<>> /\ Head(todo) \in DOMAIN itrInfo
  /\ points' = PointsOf(Head(todo))
  /\ modes' = ModesOf(Head(todo))
  /\ IF DOMAIN points' = {}
     THEN UNCHANGED <<changed, pc>> /\ todo' = Tail(todo)
     ELSE changed' = TRUE /\ pc' = "split" /\ todo' = todo
  /\ UNCHANGED <<itrInfo, eligible, code, cur, lastMode>>

\* Mutant: the points of a block are not reversed.
SplitAtPartitionPointForwards(b, p) ==
  /\ pc = "split" /\ cur \in {0, b}
  /\ b \in DOMAIN points /\ p \in DOMAIN points[b]
  /\ \A q \in DOMAIN points[b] : p <= q
  /\ code' = SplitBlock(b, p)
  /\ modes' = Emplace(modes, Len(code) + 1, points[b][p])
  /\ lastMode' = points[b][p]
  /\ points' = [points EXCEPT ![b] = [q \in DOMAIN points[b] \ {p} |-> points[b][q]]]
  /\ cur' = b
  /\ UNCHANGED <<itrInfo, eligible, todo, changed, pc>>

\* One split.  Points is a map keyed by addresses, so its blocks come in any
\* order; the points of one block were reversed, so they come last one first.
SplitAtPartitionPoint(b, p) ==
  /\ pc = "split" /\ cur \in {0, b}
  /\ b \in DOMAIN points /\ p \in DOMAIN points[b]
  /\ \A q \in DOMAIN points[b] : q <= p
  /\ code' = SplitBlock(b, p)
  /\ modes' = Emplace(modes, Len(code) + 1, points[b][p])
  /\ lastMode' = points[b][p]
  /\ points' = [points EXCEPT ![b] = [q \in DOMAIN points[b] \ {p} |-> points[b][q]]]
  /\ cur' = b
  /\ UNCHANGED <<itrInfo, eligible, todo, changed, pc>>

\* Mutant: the old block gets the mode of the block cut from it.
FinishBlockSameMode(b) ==
  /\ pc = "split" /\ cur = b
  /\ b \in DOMAIN points /\ DOMAIN points[b] = {}
  /\ modes' = Emplace(modes, b, lastMode)
  /\ points' = [c \in DOMAIN points \ {b} |-> points[c]]
  /\ cur' = 0
  /\ IF DOMAIN points' = {}
     THEN pc' = "loop" /\ todo' = Tail(todo)
     ELSE UNCHANGED <<pc, todo>>
  /\ UNCHANGED <<itrInfo, eligible, code, lastMode, changed>>

\* Mutant: the block that was finished stays the current one.
FinishBlockKeepsCur(b) ==
  /\ pc = "split" /\ cur = b
  /\ b \in DOMAIN points /\ DOMAIN points[b] = {}
  /\ modes' = Emplace(modes, b, InvertMode(lastMode))
  /\ points' = [c \in DOMAIN points \ {b} |-> points[c]]
  /\ IF DOMAIN points' = {}
     THEN pc' = "loop" /\ todo' = Tail(todo)
     ELSE UNCHANGED <<pc, todo>>
  /\ UNCHANGED <<itrInfo, eligible, code, cur, lastMode, changed>>

\* All points of block b are done: the old block gets the other mode.
FinishBlock(b) ==
  /\ pc = "split" /\ cur = b
  /\ b \in DOMAIN points /\ DOMAIN points[b] = {}
  /\ modes' = Emplace(modes, b, InvertMode(lastMode))
  /\ points' = [c \in DOMAIN points \ {b} |-> points[c]]
  /\ cur' = 0
  /\ IF DOMAIN points' = {}
     THEN pc' = "loop" /\ todo' = Tail(todo)
     ELSE UNCHANGED <<pc, todo>>
  /\ UNCHANGED <<itrInfo, eligible, code, lastMode, changed>>

Finish ==
  /\ pc = "loop" /\ todo = <<>>
  /\ pc' = "done"
  /\ UNCHANGED <<itrInfo, eligible, code, todo, points, modes, cur, lastMode, changed>>

Next ==
  \/ Decline \/ Start \/ SkipLoop \/ FindPartitionPoints \/ Finish
  \/ \E b \in DOMAIN points :
       FinishBlock(b) \/ \E p \in DOMAIN points[b] : SplitAtPartitionPoint(b, p)

\* The pass is sequential code: it is scheduled until it returns.
Fairness == WF_vars(Next)

Spec == Init /\ [][Next]_vars /\ Fairness
-----------------------------------------------------------------------------
Pos(b) == code[b].lo .. code[b].hi

Visited == {Preorder[i] : i \in 1 .. Len(Preorder) - Len(todo)} \cap DOMAIN itrInfo

BlockRecords ==
  [lo : Nat, phis : Nat, hi : Int, next : Nat, loop : Loops, of : DOMAIN Layout]

TypeOK ==
  /\ itrInfo \in IteratorInfos
  /\ eligible \in BOOLEAN
  /\ code \in Seq(BlockRecords)
  /\ \A b \in Blocks : code[b].next \in 0 .. Len(code)
  /\ todo \in Seq(Loops)
  /\ DOMAIN points \subseteq Blocks
  /\ \A b \in DOMAIN points : DOMAIN points[b] \subseteq Nat
  /\ \A b \in DOMAIN points : points[b] \in [DOMAIN points[b] -> Mode]
  /\ modes \in [DOMAIN modes -> Mode] /\ DOMAIN modes \subseteq Blocks
  /\ cur \in {0} \cup DOMAIN points
  /\ lastMode \in Mode
  /\ changed \in BOOLEAN
  /\ pc \in {"start", "loop", "split", "done"}

\* The instructions found by FindPartitionPoints are still in the block they
\* were found in when SplitAtPartitionPoints gets to them, behind its first
\* instruction and its phi nodes: no earlier split moved them away
\* (BlockSeparator.cpp:117 reverses the points for this).
SplitPointsValid ==
  \A b \in DOMAIN points : \A p \in DOMAIN points[b] :
     /\ code[b].lo < p /\ FirstInsertionPt(b) <= p
     /\ p <= code[b].hi + (IF code[b].next = 0 THEN 0 ELSE 1)

\* Splitting moves instructions between blocks and changes nothing else:
\* every instruction is in exactly one block, control still falls from each
\* one to the one that followed it, and the blocks stay in their loops.
InstructionsKept ==
  /\ \A o \in DOMAIN Layout : \A p \in Layout[o].lo .. Layout[o].hi :
        \E b \in Blocks : /\ code[b].of = o /\ p \in Pos(b)
                          /\ \A c \in Blocks : p \in Pos(c) => c = b
  /\ \A b \in Blocks :
        /\ code[b].loop = Layout[code[b].of].loop
        /\ IF code[b].next = 0
           THEN code[b].hi = Layout[code[b].of].hi
           ELSE LET n == code[code[b].next]
                IN  n.lo = code[b].hi + 1 /\ n.of = code[b].of /\ n.phis = 0

\* Block b was part of a block whose phi nodes have different modes.
FromMixedPhis(b, l) == MixedPhis(code[b].of, l)

\* After a loop was visited, the instructions of every block of the loop have
\* one mode in its iterator information, branches aside; the phi nodes of a
\* block whose phi nodes disagree are alone.  Splits made later for other
\* loops of the nest do not undo this.
Separated ==
  \A l \in Visited : \A b \in BlocksOf(l) :
     \/ \A p, q \in Pos(b) \ UncondBrs : GetMode(b, p, l) = GetMode(b, q, l)
     \/ MixedPhis(b, l) /\ code[b].hi < FirstInsertionPt(b)

\* When a loop is finished, blockModes knows every block of the loop, new and
\* old, and the mode it records is the mode of the block's instructions.  The
\* blocks cut from a block with mixed phi nodes are excepted: the mode
\* recorded for what follows the phi nodes is inverted.
ModesExact ==
  pc = "loop" /\ Len(todo) < Len(Preorder) =>
    LET l == Preorder[Len(Preorder) - Len(todo)]
    IN  l \in DOMAIN itrInfo =>
          \A b \in BlocksOf(l) :
             /\ b \in DOMAIN modes
             /\ ~FromMixedPhis(b, l) =>
                  \A p \in Pos(b) \ UncondBrs : GetMode(b, p, l) = modes[b]

\* The pass only cuts where some loop calls for it, and returns when all cuts
\* that are called for are made.
Abstract ==
  INSTANCE BlockSeparation WITH
    cuts <- {code[b].lo : b \in Blocks} \ {Layout[o].lo : o \in DOMAIN Layout},
    done <- pc = "done"

Separation == Abstract!Spec

\* perform returns.
Returns == <>(pc = "done")
=============================================================================
