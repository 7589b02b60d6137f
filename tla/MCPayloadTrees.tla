--------------------------- MODULE MCPayloadTrees ---------------------------
EXTENDS PayloadTrees, FiniteSets, TLC

CONSTANTS h, a, b, c, t

MC == INSTANCE MCLoopShapes

MCBlocks == {h, a, b, c, t}

\* Header h, body a, b, c and a single latch t; two or three payload blocks.
\* Every pair of payload blocks is a and b under another name.
FiveBlocks ==
  LET body == {a, b, c, t}
  IN  MC!ShapesOver(body \cup {h}, h,
        {h :> H @@ a :> A @@ b :> B @@ c :> C @@ t :> {h} :
           H \in MC!UpTo2(body), A \in MC!UpTo2(body \ {a}),
           B \in MC!UpTo2(body \ {b}), C \in MC!UpTo2(body \ {c})},
        {{a, b}, {a, b, c}})

\* Several latches, single-block inner loops and a header that may be payload.
FourBlocks ==
  LET all == {h, a, b, t}
  IN  MC!ShapesOver(all, h,
        {h :> H @@ a :> A @@ b :> B @@ t :> T :
           H \in MC!UpTo2({a, b, t}), A \in MC!UpTo2(all), B \in MC!UpTo2(all),
           T \in {{h}, {h, a}}},
        SUBSET all)

MCLoopShapes == FiveBlocks \cup FourBlocks
=============================================================================
