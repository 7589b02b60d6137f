-------------------------- MODULE MCRegionSelection --------------------------
EXTENDS RegionSelection, TLC

CONSTANTS h, a, b, c, t

MC == INSTANCE MCLoopShapes

MCBlocks == {h, a, b, c, t}

\* Several latches, inner loops that may hold a latch.
FourBlocks ==
  LET all == {h, a, b, t}
  IN  MC!ShapesOver(all, h,
        {h :> {a, b} @@ a :> A @@ b :> B @@ t :> T :
           A \in MC!UpTo2({a, b, t}), B \in MC!UpTo2(all), T \in {{h}, {h, a}, {h, b}}},
        {{a, b}, {a, b, t}, {b, t}, {h, a}, {}})

\* A single latch and three body blocks, two or three of them payload.
FiveBlocks ==
  LET body == {a, b, c, t}
  IN  MC!ShapesOver(body \cup {h}, h,
        {h :> H @@ a :> A @@ b :> B @@ c :> C @@ t :> {h} :
           H \in {{a}, {a, b}, {a, t}}, A \in MC!UpTo2({b, c}),
           B \in MC!UpTo2({a, c, t}), C \in MC!UpTo2({b, t})},
        {{a, b}, {b, c}, {a, b, c}})

MCLoopShapes == FourBlocks \cup FiveBlocks

MCTraversals == [L \in MCLoopShapes |-> MC!ReversePostOrders(L)]

\* A call outweighs a load and a cast; equal blocks.
MCContents ==
  {h :> <<"other">> @@ a :> <<"cast", "load", "br">> @@ b :> <<"call", "other">>
     @@ c :> <<"dbg", "store", "br">> @@ t :> <<"other">>,
   [x \in MCBlocks |-> <<"gep", "br">>]}
=============================================================================
