---------------------------- MODULE MCLoopShapes ----------------------------
(***************************************************************************)
(* The loop shapes the selectors are checked on, enumerated from small     *)
(* control flow graphs: every natural loop over the given blocks whose     *)
(* blocks have at most two successors inside the loop.                     *)
(***************************************************************************)
EXTENDS Naturals, Sequences, SequencesExt, FiniteSets

\* The blocks that paths within B lead to from b.
From(B, succ, b) ==
  LET within[n \in 0 .. Cardinality(B)] ==   \* in at most n steps
        IF n = 0 THEN {b}
        ELSE LET R == within[n - 1] IN R \cup (UNION {succ[x] : x \in R} \cap B)
  IN  within[Cardinality(B)]

\* d dominates b: without d the header h does not lead to b.
Dominates(B, succ, h, d, b) == d = h \/ d = b \/ b \notin From(B \ {d}, succ, h)

\* The natural loop of header d: what leads to a back edge without passing d.
NaturalLoop(B, succ, h, d) ==
  {b \in B : \E t \in B :
     /\ d \in succ[t] /\ Dominates(B, succ, h, d, t)
     /\ b = d \/ (d # t /\ b # d /\ t \in From(B \ {d}, succ, b))}

\* Every block is reached from the header h and leads back to it.
IsLoop(B, succ, h) ==
  /\ From(B, succ, h) = B
  /\ \A b \in B : h \in From(B, succ, b)

\* Every cycle goes through a block that dominates it.
IsReducible(B, succ, h) ==
  LET forward == [b \in B |-> {c \in succ[b] : ~Dominates(B, succ, h, c, b)}]
  IN  \A b \in B : \A c \in forward[b] : b \notin From(B, forward, c)

InnerHeaders(B, succ, h) ==
  {d \in B \ {h} : \E t \in B : d \in succ[t] /\ Dominates(B, succ, h, d, t)}

\* The loops with header h among the given graphs over B, with every given
\* set of payload blocks.
ShapesOver(B, h, Graphs, Payloads) ==
  LET Loops == {g \in Graphs : IsLoop(B, g, h) /\ IsReducible(B, g, h)}
      Shapes == {[blocks |-> B, succ |-> g, header |-> h,
                  inner |-> [d \in InnerHeaders(B, g, h) |-> NaturalLoop(B, g, h, d)]] : g \in Loops}
  IN  {[blocks |-> S.blocks, succ |-> S.succ, header |-> h, payload |-> P, inner |-> S.inner] :
         S \in Shapes, P \in Payloads}

\* A depth-first walk of loop L from b that takes successors in the order of
\* next: the blocks seen so far, and the finished ones, last one first.
RECURSIVE Walk(_, _, _, _)
Walk(L, next, b, walked) ==
  LET after == FoldLeft(LAMBDA w, c : IF c \in w.seen THEN w ELSE Walk(L, next, c, w),
                        [walked EXCEPT !.seen = @ \cup {b}], next[b])
  IN  [after EXCEPT !.rpo = <<b>> \o @]

\* The reverse post orders of loop L, one for every order of successors.
ReversePostOrders(L) ==
  LET InOrder(b, flip) == LET s == SetToSeq(L.succ[b]) IN IF flip THEN Reverse(s) ELSE s
  IN  {Walk(L, [b \in L.blocks |-> InOrder(b, b \in Flipped)], L.header,
            [seen |-> {}, rpo |-> <<>>]).rpo :
         Flipped \in SUBSET {b \in L.blocks : Cardinality(L.succ[b]) > 1}}

UpTo2(S) == {T \in SUBSET S : Cardinality(T) \in {1, 2}}
=============================================================================
