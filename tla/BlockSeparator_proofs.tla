------------------------ MODULE BlockSeparator_proofs ------------------------
(***************************************************************************)
(* For every function, loop nest and iterator information: the block       *)
(* separator is type correct and implements BlockSeparation, no            *)
(* instruction is lost or doubled, and the blocks of a visited loop are    *)
(* separated, with the mode that is recorded for them.                     *)
(***************************************************************************)
EXTENDS BlockSeparator, DataLemmas, TLAPS

Home(b) == Layout[code[b].of]

\* Where the code of the pass is, and what it holds there.
Control ==
  /\ pc \in {"loop", "split"} => eligible
  /\ pc # "split" => DOMAIN points = {}
  /\ pc = "split" => todo # <<>> /\ Head(todo) \in DOMAIN itrInfo
  /\ Len(todo) <= Len(Preorder)
  /\ \A i \in 1 .. Len(todo) : todo[i] = Preorder[Len(Preorder) - Len(todo) + i]

\* A block is a piece of one original block, and has its phi nodes if it is
\* the first piece.
Piece(b) ==
  /\ code[b].loop = Home(b).loop
  /\ Home(b).lo <= code[b].lo /\ code[b].lo <= Home(b).hi
  /\ code[b].lo <= code[b].hi + 1 /\ code[b].hi <= Home(b).hi
  /\ IF code[b].lo = Home(b).lo
     THEN code[b].phis = Home(b).phis
     ELSE code[b].phis = 0 /\ Home(b).lo + Home(b).phis <= code[b].lo
  /\ Home(b).lo + Home(b).phis <= code[b].hi + 1
  /\ IF code[b].next = 0 THEN code[b].hi = Home(b).hi ELSE code[b].hi < Home(b).hi

Pieces == \A b \in Blocks : Piece(b)

\* No instruction is lost.
Covered ==
  \A o \in DOMAIN Layout : \A p \in Layout[o].lo .. Layout[o].hi :
     \E b \in Blocks : code[b].of = o /\ code[b].lo <= p /\ p <= code[b].hi

\* p is an instruction at which loop l wants block b to be split.
ValidPoint(b, p, l) ==
  /\ l \in Enclosing[code[b].loop]
  /\ p \in Abstract!CalledForIn(code[b].of, l)
  /\ code[b].lo < p /\ FirstInsertionPt(b) <= p /\ p <= code[b].hi + 1
  /\ code[b].next = 0 => p <= code[b].hi

PointsWanted ==
  \A b \in DOMAIN points : \A p \in DOMAIN points[b] : ValidPoint(b, p, Head(todo))

Cuts == {code[b].lo : b \in Blocks} \ {Layout[o].lo : o \in DOMAIN Layout}

CutsCalledFor == Cuts \subseteq Abstract!CalledFor

VisitedCut == \A l \in Visited : Abstract!CalledForBy(l) \subseteq Cuts

\* What the loop being split still lacks is among its points.
CurrentCut ==
  pc = "split" =>
    \A p \in Abstract!CalledForBy(Head(todo)) :
       p \in Cuts \/ \E b \in DOMAIN points : p \in DOMAIN points[b]

IInv ==
  /\ TypeOK /\ Control /\ Pieces /\ Covered
  /\ PointsWanted /\ CutsCalledFor /\ VisitedCut /\ CurrentCut
-----------------------------------------------------------------------------
LEMMA ElementType ==
  ASSUME NEW S, NEW s \in Seq(S), NEW i \in DOMAIN s
  PROVE  s[i] \in S
OBVIOUS

LEMMA LayoutType ==
  ASSUME NEW o \in DOMAIN Layout
  PROVE  /\ Layout[o].lo \in Nat /\ Layout[o].phis \in Nat /\ Layout[o].hi \in Nat
         /\ Layout[o].loop \in Loops
         /\ Layout[o].lo + Layout[o].phis <= Layout[o].hi
<1>1. Layout[o] \in [lo : Nat, phis : Nat, hi : Nat, loop : Loops]
  BY ElementType, LayoutAssumption
<1> QED
  BY <1>1, LayoutAssumption

LEMMA BlockType ==
  ASSUME TypeOK, NEW b \in Blocks
  PROVE  /\ code[b] \in BlockRecords
         /\ code[b].lo \in Nat /\ code[b].phis \in Nat /\ code[b].hi \in Int
         /\ code[b].next \in 0 .. Len(code) /\ code[b].loop \in Loops
         /\ code[b].of \in DOMAIN Layout
<1>1. code \in Seq(BlockRecords) /\ code[b].next \in 0 .. Len(code)
  BY DEF TypeOK
<1>2. code[b] \in BlockRecords
  BY <1>1 DEF Blocks
<1> QED
  BY <1>1, <1>2 DEF BlockRecords

LEMMA PartitionPointsAreInstructions ==
  ASSUME TypeOK, NEW b \in Blocks, NEW l
  PROVE  PartitionPoints(b, l) \subseteq Nat
BY BlockType DEF PartitionPoints, ModeChanges, FirstScanned, FirstInsertionPt

LEMMA SplitBlockType ==
  ASSUME TypeOK, NEW b \in Blocks, NEW p \in Nat
  PROVE  /\ SplitBlock(b, p) \in Seq(BlockRecords)
         /\ Len(SplitBlock(b, p)) = Len(code) + 1
         /\ \A c \in Blocks \ {b} : SplitBlock(b, p)[c] = code[c]
         /\ SplitBlock(b, p)[b] =
              [lo |-> code[b].lo, phis |-> code[b].phis, hi |-> p - 1,
               next |-> Len(code) + 1, loop |-> code[b].loop, of |-> code[b].of]
         /\ SplitBlock(b, p)[Len(code) + 1] =
              [lo |-> p, phis |-> 0, hi |-> code[b].hi, next |-> code[b].next,
               loop |-> code[b].loop, of |-> code[b].of]
<1> DEFINE new == [lo |-> p, phis |-> 0, hi |-> code[b].hi, next |-> code[b].next,
                   loop |-> code[b].loop, of |-> code[b].of]
           head == [lo |-> code[b].lo, phis |-> code[b].phis, hi |-> p - 1,
                    next |-> Len(code) + 1, loop |-> code[b].loop, of |-> code[b].of]
           old == [code EXCEPT ![b] = head]
<1>1. code \in Seq(BlockRecords) /\ Len(code) \in Nat /\ b \in 1 .. Len(code)
  BY DEF TypeOK, Blocks
<1>2. new \in BlockRecords /\ head \in BlockRecords
  <2>1. new \in BlockRecords
    BY <1>1, BlockType DEF BlockRecords
  <2>2. p - 1 \in Int /\ Len(code) + 1 \in Nat
    BY <1>1
  <2>3. head \in BlockRecords
    BY <2>2, BlockType DEF BlockRecords
  <2> QED BY <2>1, <2>3
<1>3. old = [code EXCEPT ![b] = head]
  OBVIOUS
<1>4. /\ old \in Seq(BlockRecords) /\ Len(old) = Len(code)
      /\ \A c \in Blocks : old[c] = IF c = b THEN head ELSE code[c]
  <2> HIDE DEF head, old
  <2>1. head \in BlockRecords
    BY <1>2
  <2>2. DOMAIN code = 1 .. Len(code)
    BY <1>1
  <2>3. \A c \in 1 .. Len(code) : old[c] = IF c = b THEN head ELSE code[c]
    BY <1>3, <2>2
  <2>4. old \in Seq(BlockRecords) /\ Len(old) = Len(code)
    BY <1>1, <1>3, <2>1, <2>2
  <2> QED BY <2>3, <2>4 DEF Blocks
<1>5. SplitBlock(b, p) = Append(old, new)
  BY DEF SplitBlock
<1>6. /\ Append(old, new) \in Seq(BlockRecords) /\ Len(Append(old, new)) = Len(code) + 1
      /\ \A c \in Blocks : Append(old, new)[c] = old[c]
      /\ Append(old, new)[Len(code) + 1] = new
  <2> HIDE DEF old, new, head
  <2> QED BY <1>1, <1>2, <1>4 DEF Blocks
<1> QED
  BY <1>1, <1>4, <1>5, <1>6 DEF Blocks

-----------------------------------------------------------------------------
LEMMA TypeInit == Init => TypeOK /\ Control
<1> SUFFICES ASSUME Init PROVE TypeOK /\ Control
  OBVIOUS
<1>1. code \in Seq(BlockRecords)
  <2>1. Len(Layout) \in Nat /\ DOMAIN Layout = 1 .. Len(Layout)
    BY LayoutAssumption
  <2>2. \A o \in DOMAIN Layout : code[o] \in BlockRecords
    BY LayoutType DEF Init, BlockRecords
  <2> QED
    BY <2>1, <2>2 DEF Init
<1>2. \A b \in Blocks : code[b].next = 0
  BY LayoutAssumption DEF Init, Blocks
<1>3. /\ points = EmptyMap /\ modes = EmptyMap /\ DOMAIN EmptyMap = {}
      /\ todo = Preorder /\ cur = 0 /\ pc = "start" /\ Preorder \in Seq(Loops)
  BY NestAssumption DEF Init, EmptyMap
<1>4. /\ itrInfo \in IteratorInfos /\ eligible \in BOOLEAN /\ lastMode = "Payload"
      /\ changed = FALSE
  BY DEF Init
<1>5. modes \in [DOMAIN modes -> Mode]
  BY <1>3 DEF EmptyMap
<1>6. Len(code) \in Nat
  BY <1>1
<1>7. TypeOK
  <2>1. \A b \in Blocks : code[b].next \in 0 .. Len(code)
    BY <1>2, <1>6
  <2> QED
    BY <1>1, <1>3, <1>4, <1>5, <2>1 DEF TypeOK, Mode
<1>8. Control
  BY <1>3 DEF Control
<1> QED BY <1>7, <1>8

\* Type correctness needs to know little more than where the pass is.
LEMMA TypeNext == TypeOK /\ Control /\ [Next]_vars => TypeOK' /\ Control'
<1> SUFFICES ASSUME TypeOK, Control, [Next]_vars
             PROVE  TypeOK' /\ Control'
  OBVIOUS
<1>1. CASE UNCHANGED vars
  BY <1>1 DEF vars, TypeOK, Control, Blocks
<1>2. CASE Decline
  BY <1>2 DEF Decline, TypeOK, Control, Blocks
<1>3. CASE Start
  BY <1>3 DEF Start, TypeOK, Control, Blocks
<1>4. CASE Finish
  BY <1>4 DEF Finish, TypeOK, Control, Blocks
<1>5. ASSUME pc \in {"loop", "split"}, todo # <<>>, todo' = Tail(todo)
      PROVE  /\ todo' \in Seq(Loops)
             /\ Len(todo') <= Len(Preorder)
             /\ \A i \in 1 .. Len(todo') : todo'[i] = Preorder[Len(Preorder) - Len(todo') + i]
  <2>1. /\ todo \in Seq(Loops) /\ Len(todo) \in Nat /\ Len(Preorder) \in Nat
        /\ Len(todo) <= Len(Preorder)
        /\ \A i \in 1 .. Len(todo) : todo[i] = Preorder[Len(Preorder) - Len(todo) + i]
    BY NestAssumption DEF TypeOK, Control
  <2>2. /\ todo' \in Seq(Loops) /\ Len(todo') = Len(todo) - 1
        /\ \A i \in 1 .. Len(todo') : todo'[i] = todo[i + 1]
    BY <1>5, <2>1
  <2>3. ASSUME NEW i \in 1 .. Len(todo')
        PROVE  todo'[i] = Preorder[Len(Preorder) - Len(todo') + i]
    <3>1. i + 1 \in 1 .. Len(todo)
      BY <2>1, <2>2
    <3>2. Len(Preorder) - Len(todo') + i = Len(Preorder) - Len(todo) + (i + 1)
      BY <2>1, <2>2
    <3> QED BY <2>1, <2>2, <3>1, <3>2
  <2> QED BY <2>1, <2>2, <2>3
<1>6. CASE SkipLoop
  <2>1. points' = EmptyMap /\ modes' = EmptyMap /\ DOMAIN EmptyMap = {}
        /\ EmptyMap \in [DOMAIN EmptyMap -> Mode] /\ cur = 0
    BY <1>6 DEF SkipLoop, EmptyMap, TypeOK, Control
  <2>2. TypeOK'
    BY <1>5, <1>6, <2>1 DEF SkipLoop, TypeOK, Blocks
  <2>3. Control'
    BY <1>5, <1>6, <2>1 DEF SkipLoop, Control
  <2> QED BY <2>2, <2>3
<1>7. CASE FindPartitionPoints
  <2> DEFINE l == Head(todo)
  <2>1. cur = 0 /\ pc = "loop" /\ points' = PointsOf(l) /\ modes' = ModesOf(l) /\ todo # <<>>
    BY <1>7 DEF FindPartitionPoints, TypeOK, Control
  <2>2. /\ DOMAIN points' \subseteq Blocks
        /\ \A b \in DOMAIN points' : DOMAIN points'[b] \subseteq Nat
        /\ \A b \in DOMAIN points' : points'[b] \in [DOMAIN points'[b] -> Mode]
    <3>1. DOMAIN points' \subseteq Blocks
      BY <2>1 DEF PointsOf, BlocksOf
    <3>2. ASSUME NEW b \in DOMAIN points'
          PROVE  points'[b] = [p \in PartitionPoints(b, l) |-> PointMode(b, p, l)]
      BY <2>1 DEF PointsOf
    <3>3. \A b, p : PointMode(b, p, l) \in Mode
      BY DEF PointMode, GetMode, InvertMode, Mode
    <3> QED
      BY <3>1, <3>2, <3>3, PartitionPointsAreInstructions
  <2>3. modes' \in [DOMAIN modes' -> Mode] /\ DOMAIN modes' \subseteq Blocks
    BY <2>1 DEF ModesOf, BlocksOf, GetMode, Mode
  <2>4. /\ todo' \in Seq(Loops)
        /\ Len(todo') <= Len(Preorder)
        /\ \A i \in 1 .. Len(todo') : todo'[i] = Preorder[Len(Preorder) - Len(todo') + i]
    <3>1. CASE todo' = todo
      BY <3>1 DEF TypeOK, Control
    <3>2. CASE todo' = Tail(todo)
      BY <1>5, <2>1, <3>2
    <3> QED BY <1>7, <3>1, <3>2 DEF FindPartitionPoints
  <2>5. /\ changed' \in BOOLEAN /\ pc' \in {"loop", "split"}
        /\ pc' = "split" => todo' = todo
        /\ pc' # "split" => DOMAIN points' = {}
    BY <1>7 DEF FindPartitionPoints, TypeOK
  <2>6. UNCHANGED <<itrInfo, eligible, code, cur, lastMode>> /\ l \in DOMAIN itrInfo
    BY <1>7 DEF FindPartitionPoints
  <2>7. TypeOK'
    BY <2>1, <2>2, <2>3, <2>4, <2>5, <2>6 DEF TypeOK, Blocks
  <2>8. Control'
    BY <2>1, <2>4, <2>5, <2>6 DEF Control
  <2> QED BY <2>7, <2>8
<1>8. ASSUME NEW b \in DOMAIN points, FinishBlock(b) PROVE TypeOK' /\ Control'
  <2>1. /\ pc = "split" /\ todo # <<>> /\ Head(todo) \in DOMAIN itrInfo /\ b \in Blocks
        /\ cur' = 0 /\ UNCHANGED <<itrInfo, eligible, code, lastMode, changed>>
        /\ points' = [c \in DOMAIN points \ {b} |-> points[c]]
        /\ modes' = Emplace(modes, b, InvertMode(lastMode))
        /\ IF DOMAIN points' = {}
           THEN pc' = "loop" /\ todo' = Tail(todo)
           ELSE UNCHANGED <<pc, todo>>
    BY <1>8 DEF FinishBlock, TypeOK, Control
  <2>2. InvertMode(lastMode) \in Mode
    BY DEF InvertMode, Mode
  <2>3. modes' \in [DOMAIN modes' -> Mode] /\ DOMAIN modes' \subseteq Blocks
    <3>1. modes \in [DOMAIN modes -> Mode] /\ DOMAIN modes \subseteq Blocks
      BY DEF TypeOK
    <3> QED BY <2>1, <2>2, <3>1 DEF Emplace
  <2>4. /\ todo' \in Seq(Loops)
        /\ Len(todo') <= Len(Preorder)
        /\ \A i \in 1 .. Len(todo') : todo'[i] = Preorder[Len(Preorder) - Len(todo') + i]
    BY <1>5, <2>1 DEF TypeOK, Control
  <2>5. TypeOK'
    BY <2>1, <2>3, <2>4 DEF TypeOK, Blocks
  <2>6. Control'
    BY <2>1, <2>4 DEF Control
  <2> QED BY <2>5, <2>6
<1>9. ASSUME NEW b \in DOMAIN points, NEW p \in DOMAIN points[b], SplitAtPartitionPoint(b, p)
      PROVE  TypeOK' /\ Control'
  <2>1. /\ pc = "split" /\ pc' = pc /\ b \in Blocks /\ p \in Nat /\ points[b][p] \in Mode
        /\ cur' = b /\ UNCHANGED <<itrInfo, eligible, todo, changed>>
        /\ points' = [points EXCEPT ![b] = [q \in DOMAIN points[b] \ {p} |-> points[b][q]]]
        /\ modes' = Emplace(modes, Len(code) + 1, points[b][p])
        /\ lastMode' = points[b][p] /\ code' = SplitBlock(b, p)
    BY <1>9 DEF SplitAtPartitionPoint, TypeOK
  <2>2. code' \in Seq(BlockRecords) /\ Len(code') = Len(code) + 1 /\ Len(code) \in Nat
    <3>1. Len(code) \in Nat
      BY DEF TypeOK
    <3> QED BY <2>1, <3>1, SplitBlockType
  <2>3. Blocks' = Blocks \cup {Len(code) + 1}
    BY <2>2 DEF Blocks
  <2>4. \A c \in Blocks' : code'[c].next \in 0 .. Len(code')
    <3>1. \A c \in Blocks : code[c].next \in 0 .. Len(code)
      BY DEF TypeOK
    <3>2. /\ \A c \in Blocks \ {b} : code'[c] = code[c]
          /\ code'[b] = [lo |-> code[b].lo, phis |-> code[b].phis, hi |-> p - 1,
               next |-> Len(code) + 1, loop |-> code[b].loop, of |-> code[b].of]
          /\ code'[Len(code) + 1] = [lo |-> p, phis |-> 0, hi |-> code[b].hi,
               next |-> code[b].next, loop |-> code[b].loop, of |-> code[b].of]
      BY <2>1, SplitBlockType, Zenon
    <3>3. code'[b].next = Len(code) + 1 /\ code'[Len(code) + 1].next = code[b].next
      BY <3>2
    <3> QED BY <2>1, <2>2, <2>3, <3>1, <3>2, <3>3
  <2>5. modes' \in [DOMAIN modes' -> Mode] /\ DOMAIN modes' \subseteq Blocks'
    <3>1. modes \in [DOMAIN modes -> Mode] /\ DOMAIN modes \subseteq Blocks
      BY DEF TypeOK
    <3> QED BY <2>1, <2>3, <3>1 DEF Emplace
  <2>6. /\ DOMAIN points' = DOMAIN points
        /\ \A c \in DOMAIN points' : DOMAIN points'[c] \subseteq Nat
        /\ \A c \in DOMAIN points' : points'[c] \in [DOMAIN points'[c] -> Mode]
    BY <2>1 DEF TypeOK
  <2>7. TypeOK'
    BY <2>1, <2>2, <2>3, <2>4, <2>5, <2>6 DEF TypeOK
  <2>8. Control'
    BY <2>1 DEF Control
  <2> QED BY <2>7, <2>8
<1> QED
  BY <1>1, <1>2, <1>3, <1>4, <1>6, <1>7, <1>8, <1>9 DEF Next

\* The data structures of the pass always have the shapes the code expects:
\* points and modes name blocks of the function, branches lead to blocks.
THEOREM TypeCorrect == Spec => []TypeOK
<1>1. TypeOK /\ Control /\ [Next]_vars => TypeOK' /\ Control'
  BY TypeNext
<1> QED
  BY <1>1, TypeInit, PTL DEF Spec

-----------------------------------------------------------------------------
\* The mode of an instruction does not depend on the block it is in.
LEMMA ModeAtHome ==
  ASSUME NEW b, NEW p, NEW l, p <= code[b].hi
  PROVE  GetMode(b, p, l) = Abstract!HomeMode(p, l)
BY DEF GetMode, Abstract!HomeMode

\* Phi nodes stay in the first piece of their block.
LEMMA MixedAtHome ==
  ASSUME TypeOK, NEW b \in Blocks, Piece(b), NEW l
  PROVE  MixedPhis(b, l) <=> code[b].lo = Home(b).lo /\ Abstract!MixedPhis(code[b].of, l)
<1> DEFINE o == code[b].of
<1>1. /\ code[b].lo \in Nat /\ code[b].phis \in Nat /\ code[b].hi \in Int
      /\ o \in DOMAIN Layout
      /\ Layout[o].lo \in Nat /\ Layout[o].phis \in Nat /\ Layout[o].hi \in Nat
  BY BlockType, LayoutType
<1>2. CASE code[b].lo = Layout[o].lo
  <2>1. code[b].phis = Layout[o].phis /\ Layout[o].lo + Layout[o].phis <= code[b].hi + 1
    BY <1>2 DEF Piece, Home
  <2>2. \A p \in code[b].lo .. FirstInsertionPt(b) - 1 :
           GetMode(b, p, l) = Abstract!HomeMode(p, l)
    BY <1>1, <1>2, <2>1 DEF FirstInsertionPt, GetMode, Abstract!HomeMode
  <2> QED
    BY <1>1, <1>2, <2>1, <2>2 DEF MixedPhis, Abstract!MixedPhis, FirstInsertionPt, Home
<1>3. CASE code[b].lo # Layout[o].lo
  <2>1. code[b].phis = 0
    BY <1>3 DEF Piece, Home
  <2> QED
    BY <1>1, <1>3, <2>1 DEF MixedPhis, FirstInsertionPt, Home
<1> QED BY <1>2, <1>3

\* What FindPartitionPoints finds is called for.
LEMMA PointsAreValid ==
  ASSUME TypeOK, NEW b \in Blocks, Piece(b), NEW l \in Enclosing[code[b].loop],
         NEW p \in PartitionPoints(b, l)
  PROVE  ValidPoint(b, p, l)
<1> DEFINE o == code[b].of
<1>1. /\ code[b].lo \in Nat /\ code[b].phis \in Nat /\ code[b].hi \in Int
      /\ o \in DOMAIN Layout
      /\ Layout[o].lo \in Nat /\ Layout[o].phis \in Nat /\ Layout[o].hi \in Nat
      /\ Layout[o].lo + Layout[o].phis <= Layout[o].hi
  BY BlockType, LayoutType
<1>2. /\ Layout[o].lo <= code[b].lo /\ code[b].hi <= Layout[o].hi
      /\ Layout[o].lo + Layout[o].phis <= code[b].hi + 1
      /\ code[b].next = 0 => code[b].hi = Layout[o].hi
      /\ code[b].lo = Layout[o].lo => code[b].phis = Layout[o].phis
      /\ code[b].lo # Layout[o].lo => code[b].phis = 0 /\ Layout[o].lo + Layout[o].phis <= code[b].lo
  BY DEF Piece, Home
<1>3. MixedPhis(b, l) <=> code[b].lo = Layout[o].lo /\ Abstract!MixedPhis(o, l)
  BY MixedAtHome DEF Home
<1>4. CASE MixedPhis(b, l) /\ p = FirstInsertionPt(b)
  <2>1. p = Layout[o].lo + Layout[o].phis /\ p = code[b].lo + code[b].phis
    BY <1>2, <1>3, <1>4 DEF FirstInsertionPt
  <2>2. code[b].phis # 0
    BY <1>1, <1>4 DEF MixedPhis, FirstInsertionPt
  <2>3. p \in Abstract!CalledForIn(o, l)
    BY <1>1, <1>2, <1>3, <1>4, <2>1, <2>2 DEF Abstract!CalledForIn
  <2> QED
    BY <1>1, <1>2, <2>1, <2>2, <2>3 DEF ValidPoint, FirstInsertionPt
<1>5. CASE p \in ModeChanges(b, l)
  <2>1. /\ p \in Int /\ FirstScanned(b, l) < p /\ p <= code[b].hi /\ p \notin UncondBrs
        /\ GetMode(b, p, l) # GetMode(b, p - 1, l)
        /\ FirstScanned(b, l) \in Nat /\ code[b].lo <= FirstScanned(b, l)
        /\ MixedPhis(b, l) => FirstScanned(b, l) = FirstInsertionPt(b)
    BY <1>1, <1>5 DEF ModeChanges, FirstScanned, FirstInsertionPt
  <2>2. FirstInsertionPt(b) <= p
    BY <1>1, <2>1 DEF MixedPhis, FirstInsertionPt
  <2>3. Abstract!HomeMode(p, l) # Abstract!HomeMode(p - 1, l)
    BY <1>1, <2>1 DEF GetMode, Abstract!HomeMode
  <2>4. Abstract!MixedPhis(o, l) => ~Abstract!IsPhi(o, p - 1)
    BY <1>1, <1>2, <1>3, <2>1 DEF Abstract!IsPhi, FirstInsertionPt
  <2>5. p \in Abstract!CalledForIn(o, l)
    BY <1>1, <1>2, <2>1, <2>3, <2>4 DEF Abstract!CalledForIn
  <2> QED
    BY <1>1, <1>2, <2>1, <2>2, <2>5 DEF ValidPoint
<1> QED
  BY <1>4, <1>5 DEF PartitionPoints

\* A position inside one block is not the first of another.
LEMMA InsideIsNoStart ==
  ASSUME NEW o \in DOMAIN Layout, NEW p \in Layout[o].lo + 1 .. Layout[o].hi
  PROVE  p \notin {Layout[q].lo : q \in DOMAIN Layout}
<1> SUFFICES ASSUME NEW q \in DOMAIN Layout, p = Layout[q].lo
             PROVE  FALSE
  OBVIOUS
<1>1. /\ Layout[o].lo \in Nat /\ Layout[q].lo \in Nat /\ Layout[q].hi \in Nat
      /\ Layout[o].hi \in Nat /\ Layout[q].lo <= Layout[q].hi
  BY LayoutType
<1>2. o # q
  BY <1>1
<1>3. p \in Layout[o].lo .. Layout[o].hi /\ p \in Layout[q].lo .. Layout[q].hi
  BY <1>1
<1> QED
  BY <1>2, <1>3, LayoutAssumption

\* What is called for and was not cut yet is found by FindPartitionPoints.
LEMMA PointsAreFound ==
  ASSUME TypeOK, Pieces, Covered, NEW l, NEW p \in Abstract!CalledForBy(l)
  PROVE  p \in Cuts \/ \E b \in BlocksOf(l) : p \in PartitionPoints(b, l)
<1>1. PICK o \in DOMAIN Layout :
         l \in Enclosing[Layout[o].loop] /\ p \in Abstract!CalledForIn(o, l)
  BY DEF Abstract!CalledForBy
<1>2. /\ Layout[o].lo \in Nat /\ Layout[o].phis \in Nat /\ Layout[o].hi \in Nat
      /\ p \in Layout[o].lo + 1 .. Layout[o].hi
  BY <1>1, LayoutType DEF Abstract!CalledForIn
<1>3. PICK b \in Blocks : code[b].of = o /\ code[b].lo <= p /\ p <= code[b].hi
  BY <1>2 DEF Covered
<1>4. Piece(b) /\ code[b].lo \in Nat /\ code[b].phis \in Nat /\ code[b].hi \in Int
  BY BlockType DEF Pieces
<1>5. b \in BlocksOf(l)
  BY <1>1, <1>3, <1>4 DEF BlocksOf, Piece, Home
<1>6. CASE p = code[b].lo
  BY <1>1, <1>2, <1>6, InsideIsNoStart DEF Cuts
<1>7. CASE p # code[b].lo
  <2>1. MixedPhis(b, l) <=> code[b].lo = Layout[o].lo /\ Abstract!MixedPhis(o, l)
    BY <1>3, <1>4, MixedAtHome DEF Home
  <2>2. /\ code[b].lo = Layout[o].lo => code[b].phis = Layout[o].phis
        /\ code[b].lo # Layout[o].lo => Layout[o].lo + Layout[o].phis <= code[b].lo
    BY <1>3, <1>4 DEF Piece, Home
  <2>3. CASE Abstract!MixedPhis(o, l) /\ p = Layout[o].lo + Layout[o].phis
    <3>1. MixedPhis(b, l) /\ p = FirstInsertionPt(b)
      BY <1>2, <1>3, <1>4, <1>7, <2>1, <2>2, <2>3 DEF FirstInsertionPt
    <3> QED BY <1>5, <3>1 DEF PartitionPoints
  <2>4. CASE /\ Abstract!HomeMode(p, l) # Abstract!HomeMode(p - 1, l)
             /\ p \notin UncondBrs
             /\ Abstract!MixedPhis(o, l) => ~Abstract!IsPhi(o, p - 1)
    <3>1. GetMode(b, p, l) # GetMode(b, p - 1, l)
      BY <1>2, <1>3, <1>4, <2>4 DEF GetMode, Abstract!HomeMode
    <3>2. FirstScanned(b, l) + 1 <= p /\ FirstScanned(b, l) \in Nat
      BY <1>2, <1>3, <1>4, <1>7, <2>1, <2>2, <2>4
         DEF FirstScanned, FirstInsertionPt, Abstract!IsPhi
    <3>3. p \in ModeChanges(b, l)
      BY <1>2, <1>3, <1>4, <2>4, <3>1, <3>2 DEF ModeChanges
    <3> QED BY <1>5, <3>3 DEF PartitionPoints
  <2> QED
    BY <1>1, <2>3, <2>4 DEF Abstract!CalledForIn
<1> QED BY <1>6, <1>7

\* What is called for depends on the iterator information only.
LEMMA CalledForFixed ==
  ASSUME itrInfo' = itrInfo, eligible' = eligible
  PROVE  /\ \A o, l : Abstract!CalledForIn(o, l)' = Abstract!CalledForIn(o, l)
         /\ \A l : Abstract!CalledForBy(l)' = Abstract!CalledForBy(l)
         /\ Abstract!CalledFor' = Abstract!CalledFor
<1>1. \A o, l : Abstract!CalledForIn(o, l)' = Abstract!CalledForIn(o, l)
  BY DEF Abstract!CalledForIn, Abstract!HomeMode, Abstract!MixedPhis, Abstract!IsPhi
<1>2. \A l : Abstract!CalledForBy(l)' = Abstract!CalledForBy(l)
  BY <1>1 DEF Abstract!CalledForBy
<1> QED
  BY <1>1, <1>2 DEF Abstract!CalledFor

\* Moving on to the next loop makes one more loop a visited one.
LEMMA VisitedNext ==
  ASSUME TypeOK, Control, todo # <<>>, todo' = Tail(todo), itrInfo' = itrInfo
  PROVE  Visited' = Visited \cup ({Head(todo)} \cap DOMAIN itrInfo)
<1>1. /\ Len(todo) \in Nat /\ Len(Preorder) \in Nat /\ Len(todo) <= Len(Preorder)
      /\ Len(todo) # 0 /\ Len(todo') = Len(todo) - 1
      /\ Head(todo) = todo[1]
  BY NestAssumption DEF TypeOK, Control
<1>2. Head(todo) = Preorder[Len(Preorder) - Len(todo) + 1]
  BY <1>1 DEF Control
<1>3. 1 .. Len(Preorder) - Len(todo') =
        (1 .. Len(Preorder) - Len(todo)) \cup {Len(Preorder) - Len(todo) + 1}
  BY <1>1
<1> QED
  BY <1>2, <1>3 DEF Visited

Safe == Pieces /\ Covered /\ PointsWanted /\ CutsCalledFor /\ VisitedCut /\ CurrentCut

LEMMA SafeInit == Init => Safe
<1> SUFFICES ASSUME Init PROVE Safe
  OBVIOUS
<1>1. TypeOK /\ Control
  BY TypeInit
<1>2. /\ DOMAIN code = DOMAIN Layout /\ Blocks = DOMAIN Layout
      /\ \A b \in Blocks : /\ code[b].lo = Layout[b].lo /\ code[b].phis = Layout[b].phis
                           /\ code[b].hi = Layout[b].hi /\ code[b].next = 0
                           /\ code[b].loop = Layout[b].loop /\ code[b].of = b
  BY LayoutAssumption DEF Init, Blocks
<1>3. Pieces
  BY <1>2, LayoutType DEF Pieces, Piece, Home
<1>4. Covered
  BY <1>2, LayoutType DEF Covered
<1>5. points = EmptyMap /\ pc = "start" /\ todo = Preorder
  BY DEF Init
<1>6. PointsWanted /\ CurrentCut
  BY <1>5 DEF PointsWanted, CurrentCut, EmptyMap
<1>7. CutsCalledFor
  BY <1>2 DEF CutsCalledFor, Cuts
<1>8. VisitedCut
  <2>1. Len(Preorder) \in Nat
    BY NestAssumption
  <2> QED BY <1>5, <2>1 DEF VisitedCut, Visited
<1> QED BY <1>3, <1>4, <1>6, <1>7, <1>8 DEF Safe

\* The steps that leave the blocks and the points alone.
LEMMA SafeUnchanged ==
  ASSUME Safe, UNCHANGED <<itrInfo, eligible, code, todo, points>>,
         pc' = "split" => pc = "split"
  PROVE  Safe'
<1>1. /\ \A o, l : Abstract!CalledForIn(o, l)' = Abstract!CalledForIn(o, l)
      /\ \A l : Abstract!CalledForBy(l)' = Abstract!CalledForBy(l)
      /\ Abstract!CalledFor' = Abstract!CalledFor
  BY CalledForFixed
<1>2. Blocks' = Blocks /\ Cuts' = Cuts /\ Visited' = Visited
  BY DEF Blocks, Cuts, Visited
<1>3. Pieces' /\ Covered'
  BY <1>2 DEF Safe, Pieces, Piece, Home, Covered
<1>4. PointsWanted'
  BY <1>1 DEF Safe, PointsWanted, ValidPoint, FirstInsertionPt
<1>5. CutsCalledFor' /\ VisitedCut' /\ CurrentCut'
  BY <1>1, <1>2 DEF Safe, CutsCalledFor, VisitedCut, CurrentCut
<1> QED BY <1>3, <1>4, <1>5 DEF Safe

LEMMA SafeSkip == TypeOK /\ Control /\ Safe /\ SkipLoop => Safe'
<1> SUFFICES ASSUME TypeOK, Control, Safe, SkipLoop PROVE Safe'
  OBVIOUS
<1>1. /\ pc = "loop" /\ pc' = "loop" /\ todo # <<>> /\ Head(todo) \notin DOMAIN itrInfo
      /\ todo' = Tail(todo) /\ points' = EmptyMap
      /\ UNCHANGED <<itrInfo, eligible, code>>
  BY DEF SkipLoop
<1>2. /\ \A l : Abstract!CalledForBy(l)' = Abstract!CalledForBy(l)
      /\ Abstract!CalledFor' = Abstract!CalledFor
  BY <1>1, CalledForFixed
<1>3. Blocks' = Blocks /\ Cuts' = Cuts /\ Visited' = Visited
  BY <1>1, VisitedNext DEF Blocks, Cuts
<1>4. Pieces' /\ Covered'
  BY <1>1, <1>3 DEF Safe, Pieces, Piece, Home, Covered
<1>5. PointsWanted' /\ CurrentCut'
  BY <1>1 DEF PointsWanted, CurrentCut, EmptyMap
<1>6. CutsCalledFor' /\ VisitedCut'
  BY <1>2, <1>3 DEF Safe, CutsCalledFor, VisitedCut
<1> QED BY <1>4, <1>5, <1>6 DEF Safe

LEMMA SafeFind == TypeOK /\ Control /\ Safe /\ FindPartitionPoints => Safe'
<1> SUFFICES ASSUME TypeOK, Control, Safe, FindPartitionPoints PROVE Safe'
  OBVIOUS
<1> DEFINE l == Head(todo)
<1>1. /\ pc = "loop" /\ todo # <<>> /\ l \in DOMAIN itrInfo /\ points' = PointsOf(l)
      /\ UNCHANGED <<itrInfo, eligible, code>>
      /\ IF DOMAIN points' = {} THEN pc' = pc /\ todo' = Tail(todo)
                                ELSE pc' = "split" /\ todo' = todo
  BY DEF FindPartitionPoints
<1>2. /\ \A o, k : Abstract!CalledForIn(o, k)' = Abstract!CalledForIn(o, k)
      /\ \A k : Abstract!CalledForBy(k)' = Abstract!CalledForBy(k)
      /\ Abstract!CalledFor' = Abstract!CalledFor
  BY <1>1, CalledForFixed
<1>3. Blocks' = Blocks /\ Cuts' = Cuts
  BY <1>1 DEF Blocks, Cuts
<1>4. Pieces' /\ Covered' /\ CutsCalledFor'
  BY <1>1, <1>2, <1>3 DEF Safe, Pieces, Piece, Home, Covered, CutsCalledFor
<1>5. /\ \A b \in DOMAIN points' : b \in BlocksOf(l) /\ DOMAIN points'[b] = PartitionPoints(b, l)
      /\ \A b \in BlocksOf(l) : PartitionPoints(b, l) # {} => b \in DOMAIN points'
  BY <1>1 DEF PointsOf
<1>6. \A p \in Abstract!CalledForBy(l) :
         p \in Cuts \/ \E b \in DOMAIN points' : p \in DOMAIN points'[b]
  BY <1>5, PointsAreFound DEF Safe
<1>7. PointsWanted'
  <2> SUFFICES ASSUME NEW b \in DOMAIN points', NEW p \in DOMAIN points'[b]
               PROVE  ValidPoint(b, p, Head(todo))'
    BY DEF PointsWanted
  <2>1. todo' = todo
    BY <1>1
  <2>2. b \in Blocks /\ l \in Enclosing[code[b].loop] /\ p \in PartitionPoints(b, l)
    BY <1>5 DEF BlocksOf
  <2>3. Piece(b)
    BY <2>2 DEF Safe, Pieces
  <2>4. ValidPoint(b, p, l)
    BY <2>2, <2>3, PointsAreValid
  <2> QED
    BY <1>1, <1>2, <2>1, <2>4 DEF ValidPoint, FirstInsertionPt
<1>8. CurrentCut'
  BY <1>1, <1>2, <1>3, <1>6 DEF CurrentCut
<1>9. VisitedCut'
  <2>1. CASE todo' = todo
    <3>1. Visited' = Visited
      BY <1>1, <2>1 DEF Visited
    <3> QED BY <1>2, <1>3, <3>1 DEF Safe, VisitedCut
  <2>2. CASE DOMAIN points' = {} /\ todo' = Tail(todo)
    <3>1. Visited' = Visited \cup {l}
      BY <1>1, <2>2, VisitedNext
    <3>2. Abstract!CalledForBy(l) \subseteq Cuts
      BY <1>6, <2>2
    <3> QED BY <1>2, <1>3, <3>1, <3>2 DEF Safe, VisitedCut
  <2> QED BY <1>1, <2>1, <2>2
<1> QED BY <1>4, <1>7, <1>8, <1>9 DEF Safe

LEMMA SafeFinishBlock ==
  ASSUME TypeOK, Control, Safe, NEW b \in DOMAIN points, FinishBlock(b)
  PROVE  Safe'
<1>1. /\ pc = "split" /\ todo # <<>> /\ Head(todo) \in DOMAIN itrInfo /\ DOMAIN points[b] = {}
      /\ points' = [c \in DOMAIN points \ {b} |-> points[c]]
      /\ UNCHANGED <<itrInfo, eligible, code>>
      /\ IF DOMAIN points' = {} THEN pc' = "loop" /\ todo' = Tail(todo)
                                ELSE pc' = pc /\ todo' = todo
  BY DEF FinishBlock, Control
<1>2. /\ \A o, k : Abstract!CalledForIn(o, k)' = Abstract!CalledForIn(o, k)
      /\ \A k : Abstract!CalledForBy(k)' = Abstract!CalledForBy(k)
      /\ Abstract!CalledFor' = Abstract!CalledFor
  BY <1>1, CalledForFixed
<1>3. Blocks' = Blocks /\ Cuts' = Cuts
  BY <1>1 DEF Blocks, Cuts
<1>4. Pieces' /\ Covered' /\ CutsCalledFor'
  BY <1>1, <1>2, <1>3 DEF Safe, Pieces, Piece, Home, Covered, CutsCalledFor
<1>5. \A p \in Abstract!CalledForBy(Head(todo)) :
         p \in Cuts \/ \E c \in DOMAIN points' : p \in DOMAIN points'[c]
  BY <1>1 DEF Safe, CurrentCut
<1>6. PointsWanted'
  <2> SUFFICES ASSUME NEW c \in DOMAIN points', NEW p \in DOMAIN points'[c]
               PROVE  ValidPoint(c, p, Head(todo))'
    BY DEF PointsWanted
  <2>1. ValidPoint(c, p, Head(todo)) /\ todo' = todo
    BY <1>1 DEF Safe, PointsWanted
  <2> QED
    BY <1>1, <1>2, <2>1 DEF ValidPoint, FirstInsertionPt
<1>7. CurrentCut'
  BY <1>1, <1>2, <1>3, <1>5 DEF CurrentCut
<1>8. VisitedCut'
  <2>1. CASE todo' = todo
    <3>1. Visited' = Visited
      BY <1>1, <2>1 DEF Visited
    <3> QED BY <1>2, <1>3, <3>1 DEF Safe, VisitedCut
  <2>2. CASE DOMAIN points' = {} /\ todo' = Tail(todo)
    <3>1. Visited' = Visited \cup {Head(todo)}
      BY <1>1, <2>2, VisitedNext
    <3>2. Abstract!CalledForBy(Head(todo)) \subseteq Cuts
      BY <1>5, <2>2
    <3> QED BY <1>2, <1>3, <3>1, <3>2 DEF Safe, VisitedCut
  <2> QED BY <1>1, <2>1, <2>2
<1> QED BY <1>4, <1>6, <1>7, <1>8 DEF Safe

\* A split adds one cut, at a point that is called for.
LEMMA SplitAddsCut ==
  ASSUME TypeOK, Control, Safe, NEW b \in DOMAIN points, NEW p \in DOMAIN points[b],
         SplitAtPartitionPoint(b, p)
  PROVE  /\ eligible /\ p \in Abstract!CalledFor
         /\ Cuts' = Cuts \cup {p}
         /\ UNCHANGED <<itrInfo, eligible>> /\ pc' = pc /\ pc = "split"
<1>1. /\ pc = "split" /\ pc' = pc /\ eligible /\ b \in Blocks /\ p \in Nat
      /\ UNCHANGED <<itrInfo, eligible>> /\ code' = SplitBlock(b, p)
      /\ todo # <<>> /\ Head(todo) \in DOMAIN itrInfo /\ Len(code) \in Nat
  BY DEF SplitAtPartitionPoint, TypeOK, Control
<1>2. ValidPoint(b, p, Head(todo)) /\ Piece(b)
  BY <1>1 DEF Safe, PointsWanted, Pieces
<1>3. code[b].of \in DOMAIN Layout /\ Head(todo) \in Enclosing[Layout[code[b].of].loop]
  BY <1>1, <1>2, BlockType DEF ValidPoint, Piece, Home
<1>4. Head(todo) \in {Preorder[i] : i \in DOMAIN Preorder}
  <2>1. /\ Len(todo) \in Nat /\ Len(todo) # 0 /\ Len(todo) <= Len(Preorder)
        /\ Len(Preorder) \in Nat /\ DOMAIN Preorder = 1 .. Len(Preorder)
        /\ Head(todo) = todo[1]
    BY <1>1, NestAssumption DEF TypeOK, Control
  <2>2. Head(todo) = Preorder[Len(Preorder) - Len(todo) + 1]
    BY <2>1 DEF Control
  <2> QED BY <2>1, <2>2
<1>5. p \in Abstract!CalledFor
  BY <1>1, <1>2, <1>3, <1>4 DEF ValidPoint, Abstract!CalledFor, Abstract!CalledForBy
<1>6. p \notin {Layout[o].lo : o \in DOMAIN Layout}
  BY <1>2, <1>3, InsideIsNoStart DEF ValidPoint, Abstract!CalledForIn
<1>7. Cuts' = Cuts \cup {p}
  <2>1. Blocks' = Blocks \cup {Len(code) + 1}
    <3>1. Len(code') = Len(code) + 1
      BY <1>1, SplitBlockType
    <3> QED BY <1>1, <3>1 DEF Blocks
  <2>2. /\ \A c \in Blocks \ {b} : code'[c] = code[c]
        /\ code'[b] = [lo |-> code[b].lo, phis |-> code[b].phis, hi |-> p - 1,
             next |-> Len(code) + 1, loop |-> code[b].loop, of |-> code[b].of]
        /\ code'[Len(code) + 1] = [lo |-> p, phis |-> 0, hi |-> code[b].hi,
             next |-> code[b].next, loop |-> code[b].loop, of |-> code[b].of]
    BY <1>1, SplitBlockType, Zenon
  <2>3. (\A c \in Blocks : code'[c].lo = code[c].lo) /\ code'[Len(code) + 1].lo = p
    BY <2>2
  <2>4. {code'[c].lo : c \in Blocks'} = {code[c].lo : c \in Blocks} \cup {p}
    BY <2>1, <2>3
  <2> QED BY <1>6, <2>4 DEF Cuts
<1> QED BY <1>1, <1>5, <1>7

LEMMA SafeSplit ==
  ASSUME TypeOK, Control, Safe, NEW b \in DOMAIN points, NEW p \in DOMAIN points[b],
         SplitAtPartitionPoint(b, p)
  PROVE  Safe'
<1>0. PICK n \in Nat : n = Len(code) + 1
  BY DEF TypeOK
<1>1. /\ pc = "split" /\ pc' = pc /\ b \in Blocks /\ p \in Nat /\ Len(code) \in Nat
      /\ UNCHANGED <<itrInfo, eligible, todo>> /\ code' = SplitBlock(b, p)
      /\ points' = [points EXCEPT ![b] = [q \in DOMAIN points[b] \ {p} |-> points[b][q]]]
      /\ \A q \in DOMAIN points[b] : q <= p
  BY DEF SplitAtPartitionPoint, TypeOK
<1>2. /\ \A o, k : Abstract!CalledForIn(o, k)' = Abstract!CalledForIn(o, k)
      /\ \A k : Abstract!CalledForBy(k)' = Abstract!CalledForBy(k)
      /\ Abstract!CalledFor' = Abstract!CalledFor
  BY <1>1, CalledForFixed
<1>3. Cuts' = Cuts \cup {p} /\ p \in Abstract!CalledFor /\ Visited' = Visited
  BY <1>1, SplitAddsCut DEF Visited
<1>4. Blocks' = Blocks \cup {n} /\ n \notin Blocks
  <2>1. Len(code') = Len(code) + 1
    BY <1>1, SplitBlockType
  <2> QED BY <1>0, <1>1, <2>1 DEF Blocks
<1>5. /\ \A c \in Blocks \ {b} : code'[c] = code[c]
      /\ code'[b] = [lo |-> code[b].lo, phis |-> code[b].phis, hi |-> p - 1,
           next |-> n, loop |-> code[b].loop, of |-> code[b].of]
      /\ code'[n] = [lo |-> p, phis |-> 0, hi |-> code[b].hi,
           next |-> code[b].next, loop |-> code[b].loop, of |-> code[b].of]
  BY <1>0, <1>1, SplitBlockType, Zenon
<1>6. /\ ValidPoint(b, p, Head(todo)) /\ Piece(b)
      /\ \A c \in Blocks : Piece(c)
  BY <1>1 DEF Safe, PointsWanted, Pieces
<1>7. /\ code[b].lo \in Nat /\ code[b].phis \in Nat /\ code[b].hi \in Int
      /\ code[b].of \in DOMAIN Layout
      /\ Home(b).lo \in Nat /\ Home(b).phis \in Nat /\ Home(b).hi \in Nat
  BY <1>1, BlockType, LayoutType DEF Home
<1>8. /\ code[b].lo < p /\ code[b].lo + code[b].phis <= p /\ p <= code[b].hi + 1
      /\ code[b].next = 0 => p <= code[b].hi
      /\ Home(b).lo + 1 <= p /\ p <= Home(b).hi
  BY <1>6 DEF ValidPoint, FirstInsertionPt, Abstract!CalledForIn, Home
<1>9. Pieces'
  <2> SUFFICES ASSUME NEW c \in Blocks' PROVE Piece(c)'
    BY DEF Pieces
  <2>1. CASE c \in Blocks \ {b}
    BY <1>5, <1>6, <2>1 DEF Piece, Home
  <2>2. CASE c = b
    <3>1. /\ code'[b].lo = code[b].lo /\ code'[b].phis = code[b].phis
          /\ code'[b].hi = p - 1 /\ code'[b].next = n /\ code'[b].loop = code[b].loop
          /\ code'[b].of = code[b].of /\ Home(b)' = Home(b)
      BY <1>5 DEF Home
    <3>2. n # 0
      BY <1>0, <1>1
    <3>3. /\ code[b].loop = Home(b).loop /\ Home(b).lo <= code[b].lo
          /\ code[b].lo <= Home(b).hi
          /\ code[b].lo = Home(b).lo => code[b].phis = Home(b).phis
          /\ code[b].lo # Home(b).lo =>
               code[b].phis = 0 /\ Home(b).lo + Home(b).phis <= code[b].lo
      BY <1>6 DEF Piece
    <3>4. /\ p - 1 < Home(b).hi /\ p - 1 <= Home(b).hi
          /\ code[b].lo <= (p - 1) + 1 /\ Home(b).lo + Home(b).phis <= (p - 1) + 1
      BY <1>1, <1>7, <1>8, <3>3
    <3> QED BY <2>2, <3>1, <3>2, <3>3, <3>4 DEF Piece
  <2>3. CASE c = n
    <3>1. /\ code'[n].lo = p /\ code'[n].phis = 0
          /\ code'[n].hi = code[b].hi /\ code'[n].next = code[b].next
          /\ code'[n].loop = code[b].loop /\ code'[n].of = code[b].of /\ Home(n)' = Home(b)
      BY <1>5 DEF Home
    <3>2. /\ code[b].loop = Home(b).loop /\ Home(b).lo <= code[b].lo
          /\ code[b].hi <= Home(b).hi
          /\ Home(b).lo + Home(b).phis <= code[b].hi + 1
          /\ IF code[b].next = 0 THEN code[b].hi = Home(b).hi ELSE code[b].hi < Home(b).hi
          /\ code[b].lo = Home(b).lo => code[b].phis = Home(b).phis
          /\ code[b].lo # Home(b).lo => Home(b).lo + Home(b).phis <= code[b].lo
      BY <1>6 DEF Piece
    <3>3. /\ Home(b).lo + Home(b).phis <= p /\ p # Home(b).lo
          /\ Home(b).lo <= p /\ p <= Home(b).hi /\ p <= code[b].hi + 1
      BY <1>1, <1>7, <1>8, <3>2
    <3> QED BY <2>3, <3>1, <3>2, <3>3 DEF Piece
  <2> QED BY <1>4, <2>1, <2>2, <2>3
<1>10. Covered'
  <2> SUFFICES ASSUME NEW o \in DOMAIN Layout, NEW q \in Layout[o].lo .. Layout[o].hi
               PROVE  \E c \in Blocks' :
                         code'[c].of = o /\ code'[c].lo <= q /\ q <= code'[c].hi
    BY DEF Covered
  <2>1. PICK c \in Blocks : code[c].of = o /\ code[c].lo <= q /\ q <= code[c].hi
    BY DEF Safe, Covered
  <2>2. CASE c # b
    BY <1>4, <1>5, <2>1, <2>2
  <2>3. CASE c = b /\ q < p
    <3>1. q <= p - 1
      BY <1>1, <2>3, LayoutType
    <3> QED BY <1>4, <1>5, <2>1, <2>3, <3>1
  <2>4. CASE c = b /\ p <= q
    BY <1>4, <1>5, <2>1, <2>4
  <2> QED
    BY <1>1, <2>2, <2>3, <2>4, LayoutType
<1>11. PointsWanted'
  <2> SUFFICES ASSUME NEW c \in DOMAIN points', NEW q \in DOMAIN points'[c]
               PROVE  ValidPoint(c, q, Head(todo))'
    BY DEF PointsWanted
  <2>1. c \in DOMAIN points /\ c \in Blocks /\ q \in DOMAIN points[c]
    BY <1>1 DEF TypeOK
  <2>2. ValidPoint(c, q, Head(todo))
    BY <2>1 DEF Safe, PointsWanted
  <2>3. CASE c # b
    <3>1. code'[c] = code[c]
      BY <1>5, <2>1, <2>3
    <3> QED
      BY <1>1, <1>2, <2>2, <3>1 DEF ValidPoint, FirstInsertionPt
  <2>4. CASE c = b
    <3>1. q \in Nat /\ q # p /\ q <= p
      BY <1>1, <2>1, <2>4 DEF TypeOK
    <3>2. q <= p - 1
      BY <1>1, <3>1
    <3>3. /\ code'[b].lo = code[b].lo /\ code'[b].phis = code[b].phis
          /\ code'[b].hi = p - 1 /\ code'[b].loop = code[b].loop
          /\ code'[b].of = code[b].of
      BY <1>5
    <3>4. /\ Head(todo) \in Enclosing[code[b].loop]
          /\ q \in Abstract!CalledForIn(code[b].of, Head(todo))
          /\ code[b].lo < q /\ code[b].lo + code[b].phis <= q
      BY <2>2, <2>4 DEF ValidPoint, FirstInsertionPt
    <3>5. q \in Abstract!CalledForIn(code[b].of, Head(todo))'
      BY <1>1, <1>2, <3>3, <3>4
    <3> QED
      BY <1>1, <2>4, <3>1, <3>2, <3>3, <3>4, <3>5 DEF ValidPoint, FirstInsertionPt
  <2> QED BY <2>3, <2>4
<1>12. CutsCalledFor' /\ VisitedCut'
  BY <1>2, <1>3 DEF Safe, CutsCalledFor, VisitedCut
<1>13. CurrentCut'
  <2> SUFFICES ASSUME NEW q \in Abstract!CalledForBy(Head(todo))
               PROVE  q \in Cuts' \/ \E c \in DOMAIN points' : q \in DOMAIN points'[c]
    BY <1>1, <1>2 DEF CurrentCut
  <2>1. q \in Cuts \/ \E c \in DOMAIN points : q \in DOMAIN points[c]
    BY <1>1 DEF Safe, CurrentCut
  <2> QED
    BY <1>1, <1>3, <2>1
<1> QED BY <1>9, <1>10, <1>11, <1>12, <1>13 DEF Safe

LEMMA SafeNext == TypeOK /\ Control /\ Safe /\ [Next]_vars => Safe'
<1> SUFFICES ASSUME TypeOK, Control, Safe, [Next]_vars PROVE Safe'
  OBVIOUS
<1>1. CASE UNCHANGED vars
  BY <1>1, SafeUnchanged DEF vars
<1>2. CASE Decline \/ Start \/ Finish
  BY <1>2, SafeUnchanged DEF Decline, Start, Finish
<1>3. CASE SkipLoop
  BY <1>3, SafeSkip
<1>4. CASE FindPartitionPoints
  BY <1>4, SafeFind
<1>5. CASE \E b \in DOMAIN points : FinishBlock(b)
  BY <1>5, SafeFinishBlock
<1>6. CASE \E b \in DOMAIN points : \E p \in DOMAIN points[b] : SplitAtPartitionPoint(b, p)
  BY <1>6, SafeSplit
<1> QED
  BY <1>1, <1>2, <1>3, <1>4, <1>5, <1>6 DEF Next

LEMMA Invariance == Spec => [](TypeOK /\ Control /\ Safe)
<1>1. Init => TypeOK /\ Control /\ Safe
  BY TypeInit, SafeInit
<1>2. TypeOK /\ Control /\ Safe /\ [Next]_vars => (TypeOK /\ Control /\ Safe)'
  BY TypeNext, SafeNext
<1> QED
  BY <1>1, <1>2, PTL DEF Spec

-----------------------------------------------------------------------------
\* SplitAtPartitionPoints only ever splits at instructions that are still in
\* the block they were found in, however the blocks are ordered: this is what
\* reversing the points of a block is for.
THEOREM SplitPointsStayValid == Spec => []SplitPointsValid
<1>1. TypeOK /\ Safe => SplitPointsValid
  <2> SUFFICES ASSUME TypeOK, Safe, NEW b \in DOMAIN points, NEW p \in DOMAIN points[b]
               PROVE  /\ code[b].lo < p /\ FirstInsertionPt(b) <= p
                      /\ p <= code[b].hi + (IF code[b].next = 0 THEN 0 ELSE 1)
    BY DEF SplitPointsValid
  <2>1. b \in Blocks /\ p \in Nat
    BY DEF TypeOK
  <2>2. code[b].hi \in Int
    BY <2>1, BlockType
  <2> QED
    BY <2>1, <2>2 DEF Safe, PointsWanted, ValidPoint
<1> QED
  BY <1>1, Invariance, PTL

LEMMA CutsInit == Init => Cuts = {} /\ pc # "done"
<1> SUFFICES ASSUME Init PROVE Cuts = {} /\ pc # "done"
  OBVIOUS
<1>1. /\ Blocks = DOMAIN Layout
      /\ \A b \in Blocks : code[b].lo = Layout[b].lo
  BY LayoutAssumption DEF Init, Blocks
<1> QED
  BY <1>1 DEF Cuts, Init

\* When no loop is left, or the function was declined, nothing is called for
\* that was not cut.
LEMMA AllCutAtEnd ==
  ASSUME TypeOK, Control, Safe, Decline \/ Finish
  PROVE  Cuts = Abstract!CalledFor
<1>1. CASE Decline
  BY <1>1 DEF Decline, Abstract!CalledFor, Safe, CutsCalledFor
<1>2. CASE Finish
  <2>1. pc = "loop" /\ eligible /\ Len(todo) = 0
    BY <1>2 DEF Finish, Control
  <2>2. DOMAIN Preorder = 1 .. Len(Preorder) - Len(todo)
    BY <2>1, NestAssumption
  <2>3. Visited = {Preorder[i] : i \in DOMAIN Preorder} \cap DOMAIN itrInfo
    BY <2>2 DEF Visited
  <2>4. Abstract!CalledFor \subseteq Cuts
    BY <2>1, <2>3 DEF Safe, VisitedCut, Abstract!CalledFor
  <2> QED
    BY <2>4 DEF Safe, CutsCalledFor
<1> QED BY <1>1, <1>2

\* The block separator implements BlockSeparation: whatever the order of the
\* loops, blocks and points, it makes exactly the cuts that the loops call for
\* in the function as it was, and no others, before it returns.
THEOREM Implements == Spec => Separation
<1>1. Init => Abstract!Init
  <2>1. Abstract!IteratorInfos = IteratorInfos
    BY DEF Abstract!IteratorInfos, IteratorInfos, Abstract!Instrs, Instrs
  <2>2. Init => itrInfo \in IteratorInfos /\ eligible \in BOOLEAN
    BY DEF Init
  <2> QED
    BY <2>1, <2>2, CutsInit DEF Abstract!Init, Cuts
<1>2. TypeOK /\ Control /\ Safe /\ [Next]_vars => [Abstract!Next]_(Abstract!vars)
  <2> SUFFICES ASSUME TypeOK, Control, Safe, [Next]_vars
               PROVE  [Abstract!Next]_(Abstract!vars)
    OBVIOUS
  <2> DEFINE Same == /\ UNCHANGED <<itrInfo, eligible>> /\ Cuts' = Cuts
                     /\ (pc = "done")' = (pc = "done")
  <2>1. ASSUME Same PROVE UNCHANGED Abstract!vars
    BY <2>1 DEF Abstract!vars, Cuts
  <2>2. CASE UNCHANGED vars
    BY <2>1, <2>2 DEF vars, Cuts, Blocks
  <2>3. CASE Start \/ SkipLoop \/ FindPartitionPoints
    BY <2>1, <2>3 DEF Start, SkipLoop, FindPartitionPoints, Cuts, Blocks
  <2>4. CASE \E b \in DOMAIN points : FinishBlock(b)
    BY <2>1, <2>4 DEF FinishBlock, Cuts, Blocks
  <2>5. CASE Decline \/ Finish
    <3>1. /\ UNCHANGED <<itrInfo, eligible>> /\ Cuts' = Cuts
          /\ pc # "done" /\ pc' = "done"
      BY <2>5 DEF Decline, Finish, Cuts, Blocks
    <3>2. Abstract!Finish
      BY <2>5, <3>1, AllCutAtEnd DEF Abstract!Finish, Cuts
    <3> QED BY <3>2 DEF Abstract!Next
  <2>6. ASSUME NEW b \in DOMAIN points, NEW p \in DOMAIN points[b],
               SplitAtPartitionPoint(b, p)
        PROVE  [Abstract!Next]_(Abstract!vars)
    <3>1. /\ p \in Abstract!CalledFor /\ Cuts' = Cuts \cup {p}
          /\ UNCHANGED <<itrInfo, eligible>> /\ pc' = pc /\ pc # "done"
      BY <2>6, SplitAddsCut
    <3>2. CASE p \in Cuts
      BY <2>1, <3>1, <3>2
    <3>3. CASE p \notin Cuts
      <4>1. Abstract!Cut
        BY <3>1, <3>3 DEF Abstract!Cut, Cuts
      <4> QED BY <4>1 DEF Abstract!Next
    <3> QED BY <3>2, <3>3
  <2> QED
    BY <2>2, <2>3, <2>4, <2>5, <2>6 DEF Next
<1> QED
  BY <1>1, <1>2, Invariance, PTL DEF Spec, Separation, Abstract!Spec

-----------------------------------------------------------------------------
(* The pieces of a function: no instruction is lost or doubled, and the    *)
(* blocks of a visited loop are separated.  Both rest on how the pieces    *)
(* lie to each other: no two overlap, and the fresh branch of a piece      *)
(* leads to the piece behind it.                                           *)

\* Of two blocks one lies behind the other; an empty one may lie between.
Apart ==
  \A b, c \in Blocks : b # c => code[b].hi < code[c].lo \/ code[c].hi < code[b].lo

\* A fresh branch leads to the block that was cut off there.
Linked ==
  \A b \in Blocks : code[b].next # 0 =>
     LET n == code[code[b].next]
     IN  n.lo = code[b].hi + 1 /\ n.of = code[b].of /\ n.phis = 0

Linking == Apart /\ Linked

-----------------------------------------------------------------------------
LEMMA LinkingInit == Init => Linking
<1> SUFFICES ASSUME Init PROVE Linking
  OBVIOUS
<1>1. /\ Blocks = DOMAIN Layout
      /\ \A b \in Blocks : /\ code[b].lo = Layout[b].lo /\ code[b].hi = Layout[b].hi
                           /\ code[b].next = 0
  BY LayoutAssumption DEF Init, Blocks
<1>2. ASSUME NEW b \in Blocks, NEW c \in Blocks, b # c
      PROVE  code[b].hi < code[c].lo \/ code[c].hi < code[b].lo
  <2>1. /\ Layout[b].lo \in Nat /\ Layout[b].phis \in Nat /\ Layout[b].hi \in Nat
        /\ Layout[b].lo + Layout[b].phis <= Layout[b].hi
        /\ Layout[c].lo \in Nat /\ Layout[c].phis \in Nat /\ Layout[c].hi \in Nat
        /\ Layout[c].lo + Layout[c].phis <= Layout[c].hi
    BY <1>1, LayoutType
  <2>2. Layout[b].lo .. Layout[b].hi \cap Layout[c].lo .. Layout[c].hi = {}
    BY <1>1, <1>2, LayoutAssumption
  <2>3. /\ ~(Layout[b].lo \in Layout[c].lo .. Layout[c].hi)
        /\ ~(Layout[c].lo \in Layout[b].lo .. Layout[b].hi)
    BY <2>1, <2>2
  <2> QED
    BY <1>1, <2>1, <2>3
<1> QED
  BY <1>1, <1>2 DEF Linking, Apart, Linked

\* What a split does to the blocks, in the terms of this module.
LEMMA SplitPieces ==
  ASSUME TypeOK, Safe, NEW b \in DOMAIN points, NEW p \in DOMAIN points[b],
         SplitAtPartitionPoint(b, p)
  PROVE  /\ b \in Blocks /\ p \in Nat /\ ValidPoint(b, p, Head(todo)) /\ Len(code) \in Nat
         /\ Blocks' = Blocks \cup {Len(code) + 1} /\ Len(code) + 1 \notin Blocks
         /\ \A c \in Blocks \ {b} : code'[c] = code[c]
         /\ code'[b] = [lo |-> code[b].lo, phis |-> code[b].phis, hi |-> p - 1,
              next |-> Len(code) + 1, loop |-> code[b].loop, of |-> code[b].of]
         /\ code'[Len(code) + 1] = [lo |-> p, phis |-> 0, hi |-> code[b].hi,
              next |-> code[b].next, loop |-> code[b].loop, of |-> code[b].of]
<1>1. b \in Blocks /\ p \in Nat /\ code' = SplitBlock(b, p) /\ Len(code) \in Nat
  BY DEF SplitAtPartitionPoint, TypeOK
<1>2. Len(code') = Len(code) + 1
  BY <1>1, SplitBlockType
<1>3. Blocks' = Blocks \cup {Len(code) + 1} /\ Len(code) + 1 \notin Blocks
  BY <1>1, <1>2 DEF Blocks
<1>4. ValidPoint(b, p, Head(todo))
  BY DEF Safe, PointsWanted
<1>5. /\ \A c \in Blocks \ {b} : code'[c] = code[c]
      /\ code'[b] = [lo |-> code[b].lo, phis |-> code[b].phis, hi |-> p - 1,
           next |-> Len(code) + 1, loop |-> code[b].loop, of |-> code[b].of]
      /\ code'[Len(code) + 1] = [lo |-> p, phis |-> 0, hi |-> code[b].hi,
           next |-> code[b].next, loop |-> code[b].loop, of |-> code[b].of]
  BY <1>1, SplitBlockType, Zenon
<1> QED
  BY <1>1, <1>3, <1>4, <1>5

LEMMA LinkingSplit ==
  ASSUME TypeOK, Safe, Linking, NEW b \in DOMAIN points, NEW p \in DOMAIN points[b],
         SplitAtPartitionPoint(b, p)
  PROVE  Linking'
<1>0. PICK n \in Nat : n = Len(code) + 1
  BY DEF TypeOK
<1>1. /\ b \in Blocks /\ p \in Nat
      /\ Blocks' = Blocks \cup {n} /\ n \notin Blocks
      /\ \A c \in Blocks \ {b} : code'[c] = code[c]
      /\ code'[b] = [lo |-> code[b].lo, phis |-> code[b].phis, hi |-> p - 1,
           next |-> n, loop |-> code[b].loop, of |-> code[b].of]
      /\ code'[n] = [lo |-> p, phis |-> 0, hi |-> code[b].hi,
           next |-> code[b].next, loop |-> code[b].loop, of |-> code[b].of]
  BY <1>0, SplitPieces
<1>2. code[b].lo < p /\ p <= code[b].hi + 1
  BY SplitPieces DEF ValidPoint
<1>3. \A c \in Blocks : code[c].lo \in Nat /\ code[c].hi \in Int
  BY BlockType
<1>4. \A c \in Blocks \ {b} :
         code[b].hi < code[c].lo \/ code[c].hi < code[b].lo
  BY <1>1 DEF Linking, Apart
<1>5. /\ code'[b].lo = code[b].lo /\ code'[b].hi = p - 1 /\ code'[b].next = n
      /\ code'[b].of = code[b].of /\ code'[b].phis = code[b].phis
      /\ code'[n].lo = p /\ code'[n].hi = code[b].hi /\ code'[n].phis = 0
      /\ code'[n].next = code[b].next /\ code'[n].of = code[b].of
  BY <1>1
<1>6. ASSUME NEW c \in Blocks \ {b}
      PROVE  /\ code'[b].hi < code'[c].lo \/ code'[c].hi < code'[b].lo
             /\ code'[n].hi < code'[c].lo \/ code'[c].hi < code'[n].lo
  BY <1>1, <1>2, <1>3, <1>4, <1>5
<1>7. code'[b].hi < code'[n].lo
  BY <1>1, <1>5
<1>8. Apart'
  <2> SUFFICES ASSUME NEW c \in Blocks', NEW d \in Blocks', c # d
               PROVE  code'[c].hi < code'[d].lo \/ code'[d].hi < code'[c].lo
    BY DEF Apart
  <2>1. CASE c \in Blocks \ {b} /\ d \in Blocks \ {b}
    BY <1>1, <2>1 DEF Linking, Apart
  <2>2. CASE c \in Blocks \ {b} /\ d \in {b, n}
    BY <1>6, <2>2
  <2>3. CASE c \in {b, n} /\ d \in Blocks \ {b}
    BY <1>6, <2>3
  <2>4. CASE c \in {b, n} /\ d \in {b, n}
    BY <1>7, <2>4
  <2> QED
    BY <1>1, <2>1, <2>2, <2>3, <2>4
<1>9. Linked'
  <2> SUFFICES ASSUME NEW c \in Blocks', code'[c].next # 0
               PROVE  /\ code'[code'[c].next].lo = code'[c].hi + 1
                      /\ code'[code'[c].next].of = code'[c].of
                      /\ code'[code'[c].next].phis = 0
    BY DEF Linked
  <2>1. \A d \in Blocks : /\ code'[d].lo = code[d].lo /\ code'[d].of = code[d].of
                          /\ code'[d].phis = code[d].phis
    BY <1>1, <1>5
  <2>2. \A d \in Blocks : code[d].next # 0 =>
           /\ code[d].next \in Blocks
           /\ code[code[d].next].lo = code[d].hi + 1
           /\ code[code[d].next].of = code[d].of
           /\ code[code[d].next].phis = 0
    BY DEF Linking, Linked, TypeOK, Blocks
  <2>3. CASE c \in Blocks \ {b}
    <3>1. code'[c] = code[c]
      BY <1>1, <2>3
    <3> QED BY <2>1, <2>2, <2>3, <3>1
  <2>4. CASE c = b
    BY <1>1, <1>5, <2>4
  <2>5. CASE c = n
    BY <1>1, <1>5, <2>1, <2>2, <2>5
  <2> QED
    BY <1>1, <2>3, <2>4, <2>5
<1> QED
  BY <1>8, <1>9 DEF Linking

LEMMA LinkingNext == TypeOK /\ Safe /\ Linking /\ [Next]_vars => Linking'
<1> SUFFICES ASSUME TypeOK, Safe, Linking, [Next]_vars PROVE Linking'
  OBVIOUS
<1>1. CASE code' = code
  BY <1>1 DEF Linking, Apart, Linked, Blocks
<1>2. CASE \E b \in DOMAIN points : \E p \in DOMAIN points[b] : SplitAtPartitionPoint(b, p)
  BY <1>2, LinkingSplit
<1> QED
  BY <1>1, <1>2
     DEF Next, vars, Decline, Start, SkipLoop, FindPartitionPoints, Finish, FinishBlock

LEMMA LinkingAlways == Spec => [](TypeOK /\ Control /\ Safe /\ Linking)
<1>1. TypeOK /\ Safe /\ Linking /\ [Next]_vars => Linking'
  BY LinkingNext
<1> QED
  BY <1>1, LinkingInit, Invariance, PTL DEF Spec

-----------------------------------------------------------------------------
\* Splitting moves instructions and loses none: each stays in exactly one
\* block of its loop, and control still reaches what followed it.
THEOREM SplitsKeepInstructions == Spec => []InstructionsKept
<1>1. TypeOK /\ Safe /\ Linking => InstructionsKept
  <2> SUFFICES ASSUME TypeOK, Safe, Linking PROVE InstructionsKept
    OBVIOUS
  <2>1. \A b \in Blocks : code[b].lo \in Nat /\ code[b].hi \in Int
    BY BlockType
  <2>2. ASSUME NEW o \in DOMAIN Layout, NEW p \in Layout[o].lo .. Layout[o].hi
        PROVE  \E b \in Blocks : /\ code[b].of = o /\ p \in Pos(b)
                                 /\ \A c \in Blocks : p \in Pos(c) => c = b
    <3>1. p \in Int
      OBVIOUS
    <3>2. PICK b \in Blocks : code[b].of = o /\ code[b].lo <= p /\ p <= code[b].hi
      BY DEF Safe, Covered
    <3>3. ASSUME NEW c \in Blocks, p \in Pos(c) PROVE c = b
      BY <2>1, <3>1, <3>2, <3>3 DEF Linking, Apart, Pos
    <3> QED
      BY <2>1, <3>1, <3>2, <3>3 DEF Pos
  <2>3. \A b \in Blocks :
          /\ code[b].loop = Layout[code[b].of].loop
          /\ code[b].next = 0 => code[b].hi = Layout[code[b].of].hi
    BY DEF Safe, Pieces, Piece, Home
  <2> QED
    BY <2>2, <2>3 DEF InstructionsKept, Linking, Linked
<1> QED
  BY <1>1, LinkingAlways, PTL

\* A cut that was made lies at the start of some block, so no block with
\* instructions in front of it reaches beyond it.
LEMMA CutsEndBlocks ==
  ASSUME TypeOK, Safe, Linking, NEW b \in Blocks, NEW r \in Cuts, code[b].lo < r
  PROVE  r \in Nat /\ code[b].hi < r
<1>1. PICK c \in Blocks : r = code[c].lo
  BY DEF Cuts
<1>2. /\ code[b].lo \in Nat /\ code[b].hi \in Int
      /\ code[c].lo \in Nat /\ code[c].hi \in Int
  BY BlockType
<1>3. code[c].lo <= code[c].hi + 1
  BY DEF Safe, Pieces, Piece
<1> QED
  BY <1>1, <1>2, <1>3 DEF Linking, Apart

\* Between two instructions of different modes there is a first change.
LEMMA FirstChange ==
  ASSUME NEW l, NEW p \in Nat, NEW q \in Nat, p < q,
         Abstract!HomeMode(p, l) # Abstract!HomeMode(q, l)
  PROVE  \E r \in p + 1 .. q : Abstract!HomeMode(r, l) # Abstract!HomeMode(r - 1, l)
<1> DEFINE T == {r \in p + 1 .. q : Abstract!HomeMode(r, l) # Abstract!HomeMode(p, l)}
<1>1. T \in SUBSET Nat /\ q \in T
  OBVIOUS
<1>2. PICK r \in T : \A s \in T : r <= s
  BY <1>1, Least
<1>3. r \in p + 1 .. q /\ Abstract!HomeMode(r, l) # Abstract!HomeMode(p, l)
  OBVIOUS
<1>4. r - 1 = p \/ (r - 1 \in p + 1 .. q /\ ~(r <= r - 1))
  BY <1>3
<1>5. Abstract!HomeMode(r - 1, l) = Abstract!HomeMode(p, l)
  <2>1. r - 1 \notin T
    BY <1>2, <1>3
  <2> QED
    BY <1>4, <2>1
<1> QED
  BY <1>3, <1>5

\* Only the last instruction of an original block is a branch.
LEMMA BranchesEndBlocks ==
  ASSUME NEW o \in DOMAIN Layout, NEW r \in UncondBrs,
         r \in Layout[o].lo .. Layout[o].hi
  PROVE  r = Layout[o].hi
<1>1. PICK q \in DOMAIN Layout : r = Layout[q].hi
  BY BranchAssumption
<1>2. r \in Layout[q].lo .. Layout[q].hi
  BY <1>1, LayoutType
<1>3. q = o
  BY <1>2, LayoutAssumption
<1> QED
  BY <1>1, <1>3

LEMMA SeparatedInside ==
  ASSUME TypeOK, Safe, Linking, NEW l \in Visited, NEW b \in BlocksOf(l),
         NEW p \in Pos(b) \ UncondBrs, NEW q \in Pos(b) \ UncondBrs, p < q,
         GetMode(b, p, l) # GetMode(b, q, l)
  PROVE  MixedPhis(b, l) /\ code[b].hi < FirstInsertionPt(b)
<1> DEFINE o == code[b].of
<1>1. /\ b \in Blocks /\ Piece(b) /\ o \in DOMAIN Layout
      /\ code[b].lo \in Nat /\ code[b].phis \in Nat /\ code[b].hi \in Int
      /\ Layout[o].lo \in Nat /\ Layout[o].phis \in Nat /\ Layout[o].hi \in Nat
      /\ Layout[o].lo + Layout[o].phis <= Layout[o].hi
      /\ l \in Enclosing[Layout[o].loop]
  BY BlockType, LayoutType DEF BlocksOf, Safe, Pieces, Piece, Home
<1>2. /\ Layout[o].lo <= code[b].lo /\ code[b].hi <= Layout[o].hi
      /\ code[b].lo = Layout[o].lo => code[b].phis = Layout[o].phis
      /\ code[b].lo # Layout[o].lo => Layout[o].lo + Layout[o].phis <= code[b].lo
  BY <1>1 DEF Piece, Home
<1>3. /\ p \in Nat /\ q \in Nat /\ code[b].lo <= p /\ q <= code[b].hi
      /\ p <= code[b].hi /\ q \notin UncondBrs
  BY <1>1 DEF Pos
<1>4. Abstract!HomeMode(p, l) # Abstract!HomeMode(q, l)
  BY <1>3, ModeAtHome
<1>5. PICK r \in p + 1 .. q : Abstract!HomeMode(r, l) # Abstract!HomeMode(r - 1, l)
  BY <1>3, <1>4, FirstChange
<1>6. /\ r \in Nat /\ code[b].lo < r /\ r <= q /\ r <= code[b].hi
      /\ r \in Layout[o].lo + 1 .. Layout[o].hi
  BY <1>1, <1>2, <1>3
<1>7. r \notin UncondBrs
  <2> SUFFICES ASSUME r \in UncondBrs PROVE FALSE
    OBVIOUS
  <2>1. r = Layout[o].hi
    BY <1>1, <1>6, BranchesEndBlocks
  <2>2. q <= Layout[o].hi
    BY <1>1, <1>2, <1>3
  <2>3. r \in Nat /\ q \in Nat /\ r <= q /\ q <= r
    BY <1>3, <1>6, <2>1, <2>2
  <2>4. r = q
    BY <2>3
  <2> QED BY <1>3, <2>4
<1>8. Abstract!CalledForIn(o, l) \subseteq Cuts
  BY <1>1 DEF Safe, VisitedCut, Abstract!CalledForBy
<1>9. Abstract!MixedPhis(o, l) /\ Abstract!IsPhi(o, r - 1)
  <2> SUFFICES ASSUME ~(Abstract!MixedPhis(o, l) /\ Abstract!IsPhi(o, r - 1))
               PROVE  FALSE
    OBVIOUS
  <2>1. r \in Cuts
    BY <1>5, <1>6, <1>7, <1>8 DEF Abstract!CalledForIn
  <2>2. code[b].hi < r
    BY <1>1, <1>6, <2>1, CutsEndBlocks
  <2> QED BY <1>1, <1>6, <2>2
<1>10. code[b].lo < Layout[o].lo + Layout[o].phis
  BY <1>1, <1>3, <1>6, <1>9 DEF Abstract!IsPhi
<1>11. code[b].lo = Layout[o].lo /\ code[b].phis = Layout[o].phis
  BY <1>1, <1>2, <1>10
<1>12. MixedPhis(b, l)
  BY <1>1, <1>9, <1>11, MixedAtHome DEF Home
<1>13. Layout[o].lo + Layout[o].phis \in Cuts
  <2>1. Layout[o].lo + Layout[o].phis \in Layout[o].lo + 1 .. Layout[o].hi
    BY <1>1, <1>10, <1>11
  <2> QED
    BY <1>8, <1>9, <2>1 DEF Abstract!CalledForIn
<1>14. code[b].hi < Layout[o].lo + Layout[o].phis
  BY <1>1, <1>10, <1>13, CutsEndBlocks
<1> QED
  BY <1>11, <1>12, <1>14 DEF FirstInsertionPt

\* Whatever splits were made for other loops before or after, the blocks of a
\* loop that was visited hold instructions of one mode each, but for branches
\* and for the phi nodes of a block in which these have both modes.
THEOREM BlocksAreSeparated == Spec => []Separated
<1>1. TypeOK /\ Safe /\ Linking => Separated
  <2> SUFFICES ASSUME TypeOK, Safe, Linking, NEW l \in Visited, NEW b \in BlocksOf(l),
                      NEW p \in Pos(b) \ UncondBrs, NEW q \in Pos(b) \ UncondBrs,
                      GetMode(b, p, l) # GetMode(b, q, l)
               PROVE  MixedPhis(b, l) /\ code[b].hi < FirstInsertionPt(b)
    BY DEF Separated
  <2>1. p \in Int /\ q \in Int /\ p # q
    BY DEF Pos
  <2>2. CASE p < q
    BY <2>2, SeparatedInside
  <2>3. CASE q < p
    BY <2>3, SeparatedInside
  <2> QED
    BY <2>1, <2>2, <2>3
<1> QED
  BY <1>1, LinkingAlways, PTL

-----------------------------------------------------------------------------
\* The first piece of an original block goes by the block's own number.
Roots ==
  \A o \in DOMAIN Layout : o \in Blocks /\ code[o].of = o /\ code[o].lo = Layout[o].lo

\* The phi nodes of the original block agree.
Plain(b, l) == ~Abstract!MixedPhis(code[b].of, l)

Changes(b, l) ==
  {p \in code[b].lo + 1 .. code[b].hi :
     Abstract!HomeMode(p, l) # Abstract!HomeMode(p - 1, l) /\ p \notin UncondBrs}

HasMode(b, l, m) == \A p \in Pos(b) \ UncondBrs : Abstract!HomeMode(p, l) = m

\* What is known of a block of loop l that still has points: they are all its
\* changes, and what was cut off last begins with the other mode.
Waiting(b, l) ==
  /\ b \notin DOMAIN modes
  /\ DOMAIN points[b] = Changes(b, l)
  /\ \A p \in DOMAIN points[b] : points[b][p] = Abstract!HomeMode(p, l)
  /\ cur = b => /\ code[b].lo <= code[b].hi /\ code[b].hi \notin UncondBrs
                /\ Abstract!HomeMode(code[b].hi, l) = InvertMode(lastMode)

RightMode(b, l) == \E m : m = modes[b] /\ HasMode(b, l, m)

Recorded(b, l) ==
  /\ b \in DOMAIN points \/ b \in DOMAIN modes
  /\ Plain(b, l) => IF b \in DOMAIN points THEN Waiting(b, l) ELSE RightMode(b, l)

AllRecorded(l) == \A b \in BlocksOf(l) : Recorded(b, l)

LastVisited == Preorder[Len(Preorder) - Len(todo)]

Recording ==
  /\ pc = "start" => todo = Preorder
  /\ pc = "split" => AllRecorded(Head(todo))
  /\ pc = "loop" /\ Len(todo) < Len(Preorder) /\ LastVisited \in DOMAIN itrInfo =>
       AllRecorded(LastVisited)

LEMMA RootsInit == Init => Roots
<1> SUFFICES ASSUME Init PROVE Roots
  OBVIOUS
<1> QED
  BY LayoutAssumption DEF Init, Roots, Blocks

LEMMA RootsNext == TypeOK /\ Safe /\ Roots /\ [Next]_vars => Roots'
<1> SUFFICES ASSUME TypeOK, Safe, Roots, [Next]_vars PROVE Roots'
  OBVIOUS
<1>1. CASE code' = code
  BY <1>1 DEF Roots, Blocks
<1>2. ASSUME NEW b \in DOMAIN points, NEW p \in DOMAIN points[b], SplitAtPartitionPoint(b, p)
      PROVE  Roots'
  <2>1. /\ Blocks \subseteq Blocks'
        /\ \A c \in Blocks : code'[c].of = code[c].of /\ code'[c].lo = code[c].lo
    <3>1. /\ Blocks \subseteq Blocks'
          /\ \A c \in Blocks \ {b} : code'[c] = code[c]
          /\ code'[b] = [lo |-> code[b].lo, phis |-> code[b].phis, hi |-> p - 1,
               next |-> Len(code) + 1, loop |-> code[b].loop, of |-> code[b].of]
      BY <1>2, SplitPieces
    <3>2. code'[b].of = code[b].of /\ code'[b].lo = code[b].lo
      BY <3>1
    <3> QED BY <3>1, <3>2
  <2> QED
    BY <2>1 DEF Roots
<1> QED
  BY <1>1, <1>2
     DEF Next, vars, Decline, Start, SkipLoop, FindPartitionPoints, Finish, FinishBlock

LEMMA HomeModeFixed ==
  ASSUME itrInfo' = itrInfo
  PROVE  /\ \A p, l : Abstract!HomeMode(p, l)' = Abstract!HomeMode(p, l)
         /\ \A o, l : Abstract!MixedPhis(o, l)' <=> Abstract!MixedPhis(o, l)
BY DEF Abstract!HomeMode, Abstract!MixedPhis

\* From one instruction to the next nothing changes, or the next is a branch.
Steady(lo, hi, l) ==
  \A r \in lo + 1 .. hi :
     Abstract!HomeMode(r, l) = Abstract!HomeMode(r - 1, l) \/ r \in UncondBrs

\* Without a change between them two instructions have one mode.
LEMMA Uniform ==
  ASSUME NEW l, NEW o \in DOMAIN Layout, NEW lo \in Nat, NEW hi \in Int,
         Layout[o].lo <= lo, hi <= Layout[o].hi, Steady(lo, hi, l)
  PROVE  \A p, q \in (lo .. hi) \ UncondBrs : Abstract!HomeMode(p, l) = Abstract!HomeMode(q, l)
<1>1. /\ Layout[o].lo \in Nat /\ Layout[o].hi \in Nat
  BY LayoutType
<1>2. ASSUME NEW s \in (lo .. hi) \ UncondBrs, NEW t \in (lo .. hi) \ UncondBrs, s < t,
             Abstract!HomeMode(s, l) # Abstract!HomeMode(t, l)
      PROVE  FALSE
  <2>1. s \in Nat /\ t \in Nat /\ lo <= s /\ t <= hi /\ t \notin UncondBrs
    BY <1>2
  <2>2. PICK r \in s + 1 .. t : Abstract!HomeMode(r, l) # Abstract!HomeMode(r - 1, l)
    BY <1>2, <2>1, FirstChange
  <2>3. /\ r \in lo + 1 .. hi /\ r \in Nat /\ r <= t
        /\ r \in Layout[o].lo .. Layout[o].hi
    BY <1>1, <2>1
  <2>4. r \in UncondBrs
    BY <2>2, <2>3 DEF Steady
  <2>5. r = Layout[o].hi
    BY <2>3, <2>4, BranchesEndBlocks
  <2>6. r \in Nat /\ t \in Nat /\ r <= t /\ t <= r
    BY <1>1, <2>1, <2>3, <2>5
  <2>7. r = t
    BY <2>6
  <2> QED BY <2>1, <2>4, <2>7
<1>3. lo .. hi \subseteq Int
  OBVIOUS
<1> QED
  BY <1>2, <1>3

\* The facts about a block that the arguments below use again and again.
LEMMA BlockFacts ==
  ASSUME TypeOK, Safe, NEW b \in Blocks
  PROVE  /\ Piece(b) /\ code[b].of \in DOMAIN Layout /\ b # 0
         /\ code[b].lo \in Nat /\ code[b].phis \in Nat /\ code[b].hi \in Int
         /\ Layout[code[b].of].lo \in Nat /\ Layout[code[b].of].hi \in Nat
         /\ Layout[code[b].of].lo <= code[b].lo /\ code[b].hi <= Layout[code[b].of].hi
<1>1. Piece(b)
  BY DEF Safe, Pieces
<1>2. b # 0
  BY DEF Blocks
<1> QED
  BY <1>1, <1>2, BlockType, LayoutType DEF Piece, Home

LEMMA NoChangesOneMode ==
  ASSUME TypeOK, Safe, NEW b \in Blocks, NEW l, Changes(b, l) = {},
         NEW q \in Pos(b) \ UncondBrs
  PROVE  HasMode(b, l, Abstract!HomeMode(q, l))
<1>1. \A r \in code[b].lo + 1 .. code[b].hi :
         Abstract!HomeMode(r, l) = Abstract!HomeMode(r - 1, l) \/ r \in UncondBrs
  BY DEF Changes
<1>2. PICK lo \in Nat, hi \in Int, o \in DOMAIN Layout :
         /\ lo = code[b].lo /\ hi = code[b].hi
         /\ Layout[o].lo <= lo /\ hi <= Layout[o].hi
  BY BlockFacts
<1>3. ASSUME NEW p \in (lo .. hi) \ UncondBrs
      PROVE  Abstract!HomeMode(p, l) = Abstract!HomeMode(q, l)
  <2>1. q \in (lo .. hi) \ UncondBrs
    BY <1>2 DEF Pos
  <2>2. Steady(lo, hi, l)
    BY <1>1, <1>2 DEF Steady
  <2>3. Layout[o].lo <= lo /\ hi <= Layout[o].hi
    BY <1>2
  <2>4. \A s, t \in (lo .. hi) \ UncondBrs :
           Abstract!HomeMode(s, l) = Abstract!HomeMode(t, l)
    BY <2>2, <2>3, Uniform
  <2> QED
    BY <2>1, <2>4
<1> QED
  BY <1>2, <1>3 DEF HasMode, Pos

\* The instructions behind the last change have the mode it begins with.
LEMMA AfterLastChange ==
  ASSUME TypeOK, Safe, NEW b \in Blocks, NEW l, NEW p \in Changes(b, l),
         \A q \in Changes(b, l) : q <= p
  PROVE  \A q \in (p .. code[b].hi) \ UncondBrs :
            Abstract!HomeMode(q, l) = Abstract!HomeMode(p, l)
<1>1. /\ p \in Nat /\ p \notin UncondBrs /\ p <= code[b].hi
      /\ code[b].lo \in Nat /\ code[b].hi \in Int /\ code[b].lo < p
  BY BlockFacts DEF Changes
<1>2. PICK lo \in Nat, hi \in Int, o \in DOMAIN Layout :
         lo = p /\ hi = code[b].hi /\ Layout[o].lo <= lo /\ hi <= Layout[o].hi
  <2>1. Layout[code[b].of].lo <= p
    BY <1>1, BlockFacts
  <2> QED BY <1>1, <2>1, BlockFacts
<1>3. Steady(lo, hi, l)
  <2> SUFFICES ASSUME NEW r \in lo + 1 .. hi,
                      Abstract!HomeMode(r, l) # Abstract!HomeMode(r - 1, l),
                      r \notin UncondBrs
               PROVE  FALSE
    BY DEF Steady
  <2>1. r \in Changes(b, l) /\ p < r
    BY <1>1, <1>2 DEF Changes
  <2> QED BY <1>1, <1>2, <2>1
<1>4. Layout[o].lo <= lo /\ hi <= Layout[o].hi
  BY <1>2
<1>5. ASSUME NEW s \in (lo .. hi) \ UncondBrs, NEW t \in (lo .. hi) \ UncondBrs
      PROVE  Abstract!HomeMode(s, l) = Abstract!HomeMode(t, l)
  <2>1. \A u, v \in (lo .. hi) \ UncondBrs : Abstract!HomeMode(u, l) = Abstract!HomeMode(v, l)
    <3>1. lo \in Nat /\ hi \in Int /\ o \in DOMAIN Layout
      OBVIOUS
    <3> QED
      BY ONLY <1>3, <1>4, <3>1, Uniform, SMTT(30)
  <2> QED
    BY <2>1
<1> QED
  BY <1>1, <1>2, <1>5

\* In a plain block FindPartitionPoints finds the changes, and a block without
\* any has the mode recorded for it.
LEMMA FindsChanges ==
  ASSUME TypeOK, Safe, NEW b \in Blocks, NEW l, Plain(b, l)
  PROVE  /\ PartitionPoints(b, l) = Changes(b, l) /\ ModeChanges(b, l) = Changes(b, l)
         /\ \A p \in Changes(b, l) : PointMode(b, p, l) = Abstract!HomeMode(p, l)
         /\ Changes(b, l) = {} => HasMode(b, l, GetMode(b, FirstScanned(b, l), l))
<1>1. ~MixedPhis(b, l)
  BY BlockFacts, MixedAtHome DEF Plain
<1>2. FirstScanned(b, l) = code[b].lo
  BY <1>1 DEF FirstScanned
<1>3. ModeChanges(b, l) = Changes(b, l)
  BY <1>2, BlockFacts DEF ModeChanges, Changes, GetMode, Abstract!HomeMode
<1>4. PartitionPoints(b, l) = Changes(b, l)
  BY <1>1, <1>3 DEF PartitionPoints
<1>5. \A p \in Changes(b, l) : PointMode(b, p, l) = Abstract!HomeMode(p, l)
  BY <1>1, BlockFacts, ModeAtHome DEF PointMode, Changes
<1>6. ASSUME Changes(b, l) = {}, NEW p \in Pos(b) \ UncondBrs
      PROVE  Abstract!HomeMode(p, l) = GetMode(b, code[b].lo, l)
  <2>1. code[b].lo <= p /\ p <= code[b].hi /\ code[b].lo \in Nat /\ p \in Nat
        /\ code[b].hi \in Int
    BY BlockFacts DEF Pos
  <2>2. GetMode(b, code[b].lo, l) = Abstract!HomeMode(code[b].lo, l)
    BY <2>1, ModeAtHome
  <2>3. CASE code[b].lo \notin UncondBrs
    <3>1. code[b].lo \in Pos(b) \ UncondBrs
      BY <2>1, <2>3 DEF Pos
    <3> QED BY <1>6, <2>2, <3>1, NoChangesOneMode DEF HasMode
  <2>4. CASE code[b].lo \in UncondBrs
    <3>1. code[b].lo \in Layout[code[b].of].lo .. Layout[code[b].of].hi
      BY <2>1, BlockFacts
    <3>2. code[b].lo = Layout[code[b].of].hi
      BY <2>4, <3>1, BlockFacts, BranchesEndBlocks
    <3>3. p <= Layout[code[b].of].hi
      BY <2>1, BlockFacts
    <3>4. p = code[b].lo
      BY <2>1, <3>2, <3>3
    <3> QED BY <2>4, <3>4
  <2> QED BY <2>3, <2>4
<1> QED
  BY <1>2, <1>3, <1>4, <1>5, <1>6 DEF HasMode

-----------------------------------------------------------------------------
\* What a block is recorded with depends on little.
LEMMA RecordedFixed ==
  ASSUME NEW l, itrInfo' = itrInfo, NEW b, code'[b] = code[b]
  PROVE  /\ Plain(b, l)' <=> Plain(b, l)
         /\ Changes(b, l)' = Changes(b, l)
         /\ \A m : HasMode(b, l, m)' <=> HasMode(b, l, m)
BY HomeModeFixed DEF Plain, Changes, HasMode, Pos

\* FindPartitionPoints records every block of the loop: with its changes, or
\* with its mode.
LEMMA RecordedFind ==
  ASSUME TypeOK, Control, Safe, FindPartitionPoints, NEW l, l = Head(todo)
  PROVE  AllRecorded(l)'
<1>1. /\ points' = PointsOf(l) /\ modes' = ModesOf(l) /\ cur' = 0
      /\ UNCHANGED <<itrInfo, code>>
  BY DEF FindPartitionPoints, TypeOK, Control
<1>2. BlocksOf(l)' = BlocksOf(l) /\ BlocksOf(l) \subseteq Blocks
  BY <1>1 DEF BlocksOf, Blocks
<1> SUFFICES ASSUME NEW b \in BlocksOf(l) PROVE Recorded(b, l)'
  BY <1>2 DEF AllRecorded
<1>3. b \in Blocks /\ cur' # b
  BY <1>1, <1>2, BlockFacts
<1>4. /\ b \in DOMAIN points' <=> PartitionPoints(b, l) # {}
      /\ b \in DOMAIN modes' <=> ModeChanges(b, l) = {}
      /\ b \in DOMAIN points' => /\ DOMAIN points'[b] = PartitionPoints(b, l)
                                 /\ \A p \in DOMAIN points'[b] : points'[b][p] = PointMode(b, p, l)
      /\ b \in DOMAIN modes' => modes'[b] = GetMode(b, FirstScanned(b, l), l)
  BY <1>1 DEF PointsOf, ModesOf
<1>5. b \in DOMAIN points' \/ b \in DOMAIN modes'
  BY <1>4 DEF PartitionPoints
<1>6. /\ Plain(b, l)' <=> Plain(b, l)
      /\ Changes(b, l)' = Changes(b, l)
      /\ \A m : HasMode(b, l, m)' <=> HasMode(b, l, m)
  BY <1>1, RecordedFixed
<1>7. \A p : Abstract!HomeMode(p, l)' = Abstract!HomeMode(p, l)
  BY <1>1, HomeModeFixed
<1>8. CASE Plain(b, l) /\ b \in DOMAIN points'
  <2>1. Waiting(b, l)'
    BY <1>3, <1>4, <1>6, <1>7, <1>8, FindsChanges DEF Waiting
  <2> QED BY <1>8, <2>1 DEF Recorded
<1>9. CASE Plain(b, l) /\ b \notin DOMAIN points'
  <2>1. /\ HasMode(b, l, GetMode(b, FirstScanned(b, l), l)) /\ b \in DOMAIN modes'
        /\ modes'[b] = GetMode(b, FirstScanned(b, l), l)
    BY <1>3, <1>4, <1>5, <1>9, FindsChanges
  <2>2. RightMode(b, l)'
    BY <1>6, <2>1 DEF RightMode
  <2> QED BY <1>5, <1>9, <2>2 DEF Recorded
<1> QED
  BY <1>5, <1>6, <1>8, <1>9 DEF Recorded

\* The mode given to the old block is the one it has.
LEMMA RecordedFinishBlock ==
  ASSUME TypeOK, Control, Safe, NEW l, AllRecorded(l), NEW b \in DOMAIN points, FinishBlock(b)
  PROVE  AllRecorded(l)'
<1>1. /\ b \in Blocks /\ DOMAIN points[b] = {} /\ cur = b /\ cur' = 0
      /\ points' = [c \in DOMAIN points \ {b} |-> points[c]]
      /\ modes' = Emplace(modes, b, InvertMode(lastMode))
      /\ UNCHANGED <<itrInfo, code, lastMode>>
  BY DEF FinishBlock, TypeOK
<1>2. BlocksOf(l)' = BlocksOf(l) /\ BlocksOf(l) \subseteq Blocks
  BY <1>1 DEF BlocksOf, Blocks
<1> SUFFICES ASSUME NEW c \in BlocksOf(l) PROVE Recorded(c, l)'
  BY <1>2 DEF AllRecorded
<1>3. c \in Blocks /\ cur' # c /\ Recorded(c, l)
  BY <1>1, <1>2, BlockFacts DEF AllRecorded
<1>4. /\ Plain(c, l)' <=> Plain(c, l)
      /\ Changes(c, l)' = Changes(c, l)
      /\ \A m : HasMode(c, l, m)' <=> HasMode(c, l, m)
  BY <1>1, RecordedFixed
<1>5. \A p : Abstract!HomeMode(p, l)' = Abstract!HomeMode(p, l)
  BY <1>1, HomeModeFixed
<1>6. CASE c # b
  <2>1. /\ c \in DOMAIN points' <=> c \in DOMAIN points
        /\ c \in DOMAIN points' => points'[c] = points[c]
        /\ c \in DOMAIN modes' <=> c \in DOMAIN modes
        /\ c \in DOMAIN modes => modes'[c] = modes[c]
    BY <1>1, <1>6 DEF Emplace
  <2>2. Waiting(c, l) /\ c \in DOMAIN points => Waiting(c, l)'
    BY <1>3, <1>4, <1>5, <2>1 DEF Waiting
  <2>3. c \in DOMAIN modes /\ RightMode(c, l) => RightMode(c, l)'
    BY <1>4, <2>1 DEF RightMode
  <2> QED
    BY <1>3, <1>4, <2>1, <2>2, <2>3 DEF Recorded
<1>7. CASE c = b
  <2>1. c \notin DOMAIN points' /\ c \in DOMAIN modes'
    BY <1>1, <1>7 DEF Emplace
  <2>2. ASSUME Plain(c, l) PROVE RightMode(c, l)'
    <3>1. /\ c \notin DOMAIN modes /\ Changes(c, l) = {}
          /\ code[c].lo <= code[c].hi /\ code[c].hi \notin UncondBrs
          /\ Abstract!HomeMode(code[c].hi, l) = InvertMode(lastMode)
      BY <1>1, <1>3, <1>7, <2>2 DEF Recorded, Waiting
    <3>2. modes'[c] = InvertMode(lastMode)
      BY <1>1, <1>7, <3>1 DEF Emplace
    <3>3. code[c].hi \in Pos(c) \ UncondBrs
      BY <1>3, <3>1, BlockFacts DEF Pos
    <3>4. HasMode(c, l, Abstract!HomeMode(code[c].hi, l))
      BY <1>3, <3>1, <3>3, NoChangesOneMode
    <3>5. HasMode(c, l, modes'[c])
      BY <3>1, <3>2, <3>4
    <3> QED BY <1>4, <3>5 DEF RightMode
  <2> QED
    BY <1>4, <2>1, <2>2 DEF Recorded
<1> QED
  BY <1>6, <1>7

\* The block that is cut off has the mode of the change it begins with, and
\* the other mode is in front of it.
LEMMA RecordedSplit ==
  ASSUME TypeOK, Control, Safe, NEW l, l = Head(todo), AllRecorded(l),
         NEW b \in DOMAIN points, NEW p \in DOMAIN points[b], SplitAtPartitionPoint(b, p)
  PROVE  AllRecorded(l)'
<1>0. PICK n \in Nat : n = Len(code) + 1
  BY DEF TypeOK
<1>1. /\ b \in Blocks /\ p \in Nat /\ ValidPoint(b, p, l)
      /\ Blocks' = Blocks \cup {n} /\ n \notin Blocks
      /\ \A c \in Blocks \ {b} : code'[c] = code[c]
      /\ code'[b] = [lo |-> code[b].lo, phis |-> code[b].phis, hi |-> p - 1,
           next |-> n, loop |-> code[b].loop, of |-> code[b].of]
      /\ code'[n] = [lo |-> p, phis |-> 0, hi |-> code[b].hi,
           next |-> code[b].next, loop |-> code[b].loop, of |-> code[b].of]
  BY <1>0, SplitPieces
<1>2. /\ \A q \in DOMAIN points[b] : q <= p
      /\ modes' = Emplace(modes, n, points[b][p])
      /\ lastMode' = points[b][p] /\ cur \in {0, b} /\ cur' = b
      /\ points' = [points EXCEPT ![b] = [q \in DOMAIN points[b] \ {p} |-> points[b][q]]]
      /\ itrInfo' = itrInfo
  BY <1>0 DEF SplitAtPartitionPoint
<1>3. /\ DOMAIN points \subseteq Blocks /\ DOMAIN modes \subseteq Blocks
      /\ DOMAIN points' = DOMAIN points
      /\ DOMAIN modes' = DOMAIN modes \cup {n} /\ modes'[n] = points[b][p]
      /\ \A c \in DOMAIN modes : modes'[c] = modes[c]
  BY <1>1, <1>2 DEF TypeOK, Emplace
<1>4. /\ code'[b].lo = code[b].lo /\ code'[b].hi = p - 1 /\ code'[b].of = code[b].of
      /\ code'[b].loop = code[b].loop
      /\ code'[n].lo = p /\ code'[n].hi = code[b].hi /\ code'[n].of = code[b].of
      /\ code'[n].loop = code[b].loop
  BY <1>1
<1>5. /\ code[b].lo \in Nat /\ code[b].hi \in Int /\ code[b].of \in DOMAIN Layout
      /\ code[b].lo < p /\ p <= code[b].hi + 1
      /\ Layout[code[b].of].lo \in Nat /\ Layout[code[b].of].hi \in Nat
      /\ Layout[code[b].of].lo <= code[b].lo /\ code[b].hi <= Layout[code[b].of].hi
      /\ p <= Layout[code[b].of].hi
  BY <1>1, BlockFacts DEF ValidPoint, Abstract!CalledForIn
<1>6. /\ \A q, k : Abstract!HomeMode(q, k)' = Abstract!HomeMode(q, k)
      /\ \A o, k : Abstract!MixedPhis(o, k)' <=> Abstract!MixedPhis(o, k)
  BY <1>2, HomeModeFixed
<1>7. b \in BlocksOf(l) /\ Recorded(b, l)
  BY <1>1 DEF ValidPoint, BlocksOf, AllRecorded
<1>8. ASSUME Plain(b, l)
      PROVE  /\ b \notin DOMAIN modes /\ DOMAIN points[b] = Changes(b, l)
             /\ \A q \in DOMAIN points[b] : points[b][q] = Abstract!HomeMode(q, l)
             /\ p \in Changes(b, l) /\ p <= code[b].hi /\ p \notin UncondBrs
             /\ Abstract!HomeMode(p, l) # Abstract!HomeMode(p - 1, l)
  <2>1. Waiting(b, l)
    BY <1>7, <1>8 DEF Recorded
  <2>2. p \in Changes(b, l)
    BY <2>1 DEF Waiting
  <2> QED
    BY <2>1, <2>2, <1>5 DEF Waiting, Changes
<1> SUFFICES ASSUME NEW c \in BlocksOf(l)' PROVE Recorded(c, l)'
  BY DEF AllRecorded
<1>9. CASE c \in Blocks \ {b}
  <2>1. code'[c] = code[c] /\ c \in BlocksOf(l) /\ Recorded(c, l)
    BY <1>1, <1>9 DEF BlocksOf, AllRecorded
  <2>2. /\ Plain(c, l)' <=> Plain(c, l)
        /\ Changes(c, l)' = Changes(c, l)
        /\ \A m : HasMode(c, l, m)' <=> HasMode(c, l, m)
    BY <1>2, <2>1, RecordedFixed
  <2>3. /\ c \in DOMAIN points' <=> c \in DOMAIN points
        /\ points'[c] = points[c] \/ c \notin DOMAIN points
        /\ c \in DOMAIN modes' <=> c \in DOMAIN modes
        /\ c \in DOMAIN modes => modes'[c] = modes[c]
        /\ cur' # c
    BY <1>1, <1>2, <1>3, <1>9
  <2>4. Waiting(c, l) /\ c \in DOMAIN points => Waiting(c, l)'
    BY <1>6, <2>2, <2>3 DEF Waiting
  <2>5. c \in DOMAIN modes /\ RightMode(c, l) => RightMode(c, l)'
    BY <2>2, <2>3 DEF RightMode
  <2> QED
    BY <2>1, <2>2, <2>3, <2>4, <2>5 DEF Recorded
<1>10. CASE c = b
  <2>1. Plain(b, l)' <=> Plain(b, l)
    BY <1>4, <1>6 DEF Plain
  <2>2. b \in DOMAIN points' /\ DOMAIN points'[b] = DOMAIN points[b] \ {p}
        /\ \A q \in DOMAIN points'[b] : points'[b][q] = points[b][q]
    BY <1>2
  <2>3. ASSUME Plain(b, l) PROVE Waiting(b, l)'
    <3>1. b \notin DOMAIN modes'
      BY <1>1, <1>3, <1>8, <2>3
    <3>2. Changes(b, l)' = Changes(b, l) \ {p}
      <4>1. \A q \in Changes(b, l) : q <= p
        BY <1>2, <1>8, <2>3
      <4>2. Changes(b, l)' =
              {q \in code[b].lo + 1 .. p - 1 :
                 Abstract!HomeMode(q, l) # Abstract!HomeMode(q - 1, l) /\ q \notin UncondBrs}
        BY <1>4, <1>6 DEF Changes
      <4> QED
        BY <1>1, <1>5, <4>1, <4>2 DEF Changes
    <3>3. DOMAIN points'[b] = Changes(b, l)'
      BY <1>8, <2>2, <2>3, <3>2
    <3>4. \A q \in DOMAIN points'[b] : points'[b][q] = Abstract!HomeMode(q, l)'
      BY <1>6, <1>8, <2>2, <2>3
    <3>5. code'[b].lo <= code'[b].hi
      BY <1>1, <1>4, <1>5
    <3>6. code'[b].hi \notin UncondBrs
      <4>1. p - 1 \in Layout[code[b].of].lo .. Layout[code[b].of].hi /\ p - 1 # Layout[code[b].of].hi
        BY <1>1, <1>5
      <4> QED
        BY <1>4, <1>5, <4>1, BranchesEndBlocks
    <3>7. Abstract!HomeMode(p - 1, l) = InvertMode(Abstract!HomeMode(p, l))
      BY <1>8, <2>3 DEF Abstract!HomeMode, InvertMode
    <3>8. lastMode' = Abstract!HomeMode(p, l)
      BY <1>2, <1>8, <2>3
    <3>9. \A k : k = code'[b].hi => Abstract!HomeMode(k, l)' = InvertMode(lastMode')
      BY <1>4, <1>6, <3>7, <3>8
    <3> QED
      BY <3>1, <3>3, <3>4, <3>5, <3>6, <3>9 DEF Waiting, Abstract!HomeMode, InvertMode
  <2> QED
    BY <1>10, <2>1, <2>2, <2>3 DEF Recorded
<1>11. CASE c = n
  <2>1. n \notin DOMAIN points' /\ n \in DOMAIN modes'
    BY <1>1, <1>3
  <2>2. Plain(n, l)' <=> Plain(b, l)
    BY <1>4, <1>6 DEF Plain
  <2>3. ASSUME Plain(b, l) PROVE RightMode(n, l)'
    <3>1. modes'[n] = Abstract!HomeMode(p, l)
      BY <1>3, <1>8, <2>3
    <3>2. \A q \in (p .. code[b].hi) \ UncondBrs :
             Abstract!HomeMode(q, l) = Abstract!HomeMode(p, l)
      BY <1>1, <1>2, <1>8, <2>3, AfterLastChange
    <3>3. \A q \in Pos(n)' \ UncondBrs : Abstract!HomeMode(q, l)' = modes'[n]
      BY <1>4, <1>6, <3>1, <3>2 DEF Pos
    <3> QED
      BY <3>3 DEF RightMode, HasMode
  <2> QED
    BY <1>11, <2>1, <2>2, <2>3 DEF Recorded
<1> QED
  BY <1>1, <1>9, <1>10, <1>11 DEF BlocksOf

-----------------------------------------------------------------------------
LEMMA RecordingInit == Init => Recording
BY DEF Init, Recording

\* The loop that is left becomes the last one visited.
LEMMA LeavesLast ==
  ASSUME TypeOK, Control, todo # <<>>, todo' = Tail(todo)
  PROVE  LastVisited' = Head(todo)
<1>1. /\ Len(todo) \in Nat /\ Len(Preorder) \in Nat /\ Len(todo) <= Len(Preorder)
      /\ Len(todo) # 0 /\ Len(todo') = Len(todo) - 1 /\ Head(todo) = todo[1]
  BY NestAssumption DEF TypeOK, Control
<1>2. Head(todo) = Preorder[Len(Preorder) - Len(todo) + 1]
  BY <1>1 DEF Control
<1>3. Len(Preorder) - Len(todo') = Len(Preorder) - Len(todo) + 1
  BY <1>1
<1> QED
  BY <1>2, <1>3 DEF LastVisited

\* Going on to split, or to the next loop, with all blocks of the loop recorded.
LEMMA KeepsRecording ==
  ASSUME TypeOK, Control, NEW l, l = Head(todo), AllRecorded(l)',
         \/ todo # <<>> /\ todo' = Tail(todo) /\ pc' = "loop"
         \/ pc' = "split" /\ todo' = todo
  PROVE  Recording'
<1>1. CASE pc' = "split" /\ todo' = todo
  BY <1>1 DEF Recording
<1>2. CASE pc' = "loop" /\ todo # <<>> /\ todo' = Tail(todo)
  <2>1. LastVisited' = l
    BY <1>2, LeavesLast
  <2>2. \A k : k = l => AllRecorded(k)'
    OBVIOUS
  <2> QED
    BY <1>2, <2>1 DEF Recording
<1> QED BY <1>1, <1>2

LEMMA RecordingNext ==
  TypeOK /\ Control /\ Safe /\ Recording /\ [Next]_vars => Recording'
<1> SUFFICES ASSUME TypeOK, Control, Safe, Recording, [Next]_vars PROVE Recording'
  OBVIOUS
<1>1. CASE UNCHANGED vars
  <2>1. AllRecorded(Head(todo))' <=> AllRecorded(Head(todo))
    BY <1>1 DEF vars, AllRecorded, Recorded, RightMode, Waiting, Plain, HasMode, Changes, Pos,
                BlocksOf, Blocks, Abstract!HomeMode, Abstract!MixedPhis
  <2>2. AllRecorded(LastVisited)' <=> AllRecorded(LastVisited)
    BY <1>1 DEF vars, AllRecorded, Recorded, RightMode, Waiting, Plain, HasMode, Changes, Pos,
                BlocksOf, Blocks, Abstract!HomeMode, Abstract!MixedPhis, LastVisited
  <2> QED
    BY <1>1, <2>1, <2>2 DEF vars, Recording, LastVisited
<1>2. CASE Decline \/ Finish
  BY <1>2 DEF Decline, Finish, Recording
<1>3. CASE Start
  <2>1. pc' = "loop" /\ todo' = Preorder /\ Len(Preorder) \in Nat
    BY <1>3, NestAssumption DEF Start, Recording
  <2> QED
    BY <2>1 DEF Recording
<1>4. CASE SkipLoop
  <2>1. /\ pc' = "loop" /\ LastVisited' = Head(todo) /\ Head(todo) \notin DOMAIN itrInfo
        /\ itrInfo' = itrInfo
    BY <1>4, LeavesLast DEF SkipLoop
  <2> QED
    BY <2>1 DEF Recording
<1>5. CASE FindPartitionPoints
  <2>1. PICK l : l = Head(todo)
    OBVIOUS
  <2>2. AllRecorded(l)'
    BY <1>5, <2>1, RecordedFind
  <2>3. \/ todo # <<>> /\ todo' = Tail(todo) /\ pc' = "loop"
        \/ pc' = "split" /\ todo' = todo
    BY <1>5 DEF FindPartitionPoints
  <2> QED
    BY <2>1, <2>2, <2>3, KeepsRecording
<1>6. ASSUME NEW b \in DOMAIN points, FinishBlock(b) PROVE Recording'
  <2>1. PICK l : l = Head(todo)
    OBVIOUS
  <2>2. AllRecorded(l)
    BY <1>6, <2>1 DEF FinishBlock, Recording
  <2>3. AllRecorded(l)'
    BY <1>6, <2>2, RecordedFinishBlock
  <2>4. \/ todo # <<>> /\ todo' = Tail(todo) /\ pc' = "loop"
        \/ pc' = "split" /\ todo' = todo
    BY <1>6 DEF FinishBlock, Control
  <2> QED
    BY <2>1, <2>3, <2>4, KeepsRecording
<1>7. ASSUME NEW b \in DOMAIN points, NEW p \in DOMAIN points[b], SplitAtPartitionPoint(b, p)
      PROVE  Recording'
  <2>1. PICK l : l = Head(todo)
    OBVIOUS
  <2>2. AllRecorded(l)
    BY <1>7, <2>1 DEF SplitAtPartitionPoint, Recording
  <2>3. AllRecorded(l)'
    BY <1>7, <2>1, <2>2, RecordedSplit
  <2>4. pc' = "split" /\ todo' = todo
    BY <1>7 DEF SplitAtPartitionPoint
  <2> QED
    BY <2>1, <2>3, <2>4, KeepsRecording
<1> QED
  BY <1>1, <1>2, <1>3, <1>4, <1>5, <1>6, <1>7 DEF Next

\* Whenever a loop is finished, blockModes holds every block of the loop with
\* the mode its instructions have, the old blocks and those cut from them,
\* but for the blocks cut from one with mixed phi nodes.
THEOREM RecordedModesAreExact == Spec => []ModesExact
<1>1. TypeOK /\ Control /\ Safe /\ Roots /\ Recording => ModesExact
  <2> SUFFICES ASSUME TypeOK, Control, Safe, Roots, Recording,
                      pc = "loop", Len(todo) < Len(Preorder),
                      NEW l, l = LastVisited, l \in DOMAIN itrInfo, NEW b \in BlocksOf(l)
               PROVE  /\ b \in DOMAIN modes
                      /\ ~FromMixedPhis(b, l) =>
                           \A p \in Pos(b) \ UncondBrs : GetMode(b, p, l) = modes[b]
    BY DEF ModesExact, LastVisited
  <2>1. b \in Blocks /\ b \notin DOMAIN points /\ Recorded(b, l)
    BY DEF Control, Recording, AllRecorded, BlocksOf
  <2>2. b \in DOMAIN modes /\ (Plain(b, l) => HasMode(b, l, modes[b]))
    BY <2>1 DEF Recorded, RightMode
  <2>3. FromMixedPhis(b, l) <=> ~Plain(b, l)
    <3>1. PICK o \in DOMAIN Layout : o = code[b].of
      BY <2>1, BlockFacts
    <3>2. o \in Blocks /\ code[o].of = o /\ code[o].lo = Home(o).lo /\ Piece(o)
      BY BlockFacts DEF Roots, Home
    <3>3. MixedPhis(o, l) <=> Abstract!MixedPhis(o, l)
      BY <3>2, MixedAtHome
    <3> QED BY <3>1, <3>3 DEF FromMixedPhis, Plain
  <2>4. \A p \in Pos(b) : GetMode(b, p, l) = Abstract!HomeMode(p, l)
    BY <2>1, BlockFacts DEF Pos, GetMode, Abstract!HomeMode
  <2> QED
    BY <2>2, <2>3, <2>4 DEF HasMode
<1>2. TypeOK /\ Safe /\ Roots /\ [Next]_vars => Roots'
  BY RootsNext
<1>3. TypeOK /\ Control /\ Safe /\ Recording /\ [Next]_vars => Recording'
  BY RecordingNext
<1> QED
  BY <1>1, <1>2, <1>3, RootsInit, RecordingInit, Invariance, PTL DEF Spec
=============================================================================
