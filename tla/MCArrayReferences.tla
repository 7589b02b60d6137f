-------------------------- MODULE MCArrayReferences --------------------------
(***************************************************************************)
(* Words of four bits: the products of three dimensions wrap.              *)
(***************************************************************************)
EXTENDS ArrayReferences

Gep(dims, leaf, idx, wide, inside) ==
  [dims |-> dims, leaf |-> leaf, idx |-> idx, wide |-> wide, inside |-> inside]

\* References as the compiler makes them, with every combination of indices.
FullyIndexed ==
  {Gep(<<3, 4>>, "scalar", <<a, b, c>>, TRUE, TRUE) : a \in 0 .. 1, b \in 0 .. 2, c \in 0 .. 3}
  \cup {Gep(<<3, 2, 3>>, "scalar", <<a, b, c, 2>>, TRUE, TRUE) :
          a \in {0, 5}, b \in 0 .. 2, c \in 0 .. 1}

\* One dimension, partial references, fields, narrow indices, a reference
\* outside of the region.
Irregular ==
  {Gep(<<7>>, "scalar", <<0, 6>>, TRUE, TRUE), Gep(<<>>, "scalar", <<9>>, TRUE, TRUE),
   Gep(<<3, 4>>, "scalar", <<0, 2>>, TRUE, TRUE), Gep(<<3, 4>>, "scalar", <<2>>, TRUE, TRUE),
   Gep(<<3, 4>>, "struct", <<0, 1, 2, 1>>, TRUE, TRUE), Gep(<<3, 4>>, "struct", <<0, 1, 2>>, TRUE, TRUE),
   Gep(<<>>, "struct", <<0, 1>>, TRUE, TRUE), Gep(<<3>>, "struct", <<0, 1, 1>>, TRUE, TRUE),
   Gep(<<3, 4>>, "scalar", <<0, 1, 2>>, FALSE, TRUE), Gep(<<3, 4>>, "scalar", <<1, 1, 2>>, TRUE, FALSE)}

Access(kind, ptr) == [kind |-> kind, ptr |-> ptr]

\* Two accesses through one reference, a call, an access the visitor does not
\* record, one through no getelementptr.
AccessLists ==
  {<<Access("load", "a"), Access("store", "a"), Access("load", "b")>>,
   <<Access("call", "a"), Access("store", "b"), Access("memset", "a")>>,
   <<Access("other", "a"), Access("store", NoGep), Access("load", "b")>>}

MCGeps == {"a", "b"}

MCFunctions ==
  {[geps |-> [g \in MCGeps |-> IF g = "a" THEN x ELSE y], accesses |-> l,
    defined |-> TRUE, listed |-> TRUE] :
     x \in FullyIndexed \cup Irregular,
     y \in Irregular \cup {Gep(<<3, 4>>, "scalar", <<0, 2, 3>>, TRUE, TRUE)}, l \in AccessLists}
  \cup
  {[geps |-> [g \in MCGeps |-> Gep(<<3, 4>>, "scalar", <<0, 2, 3>>, TRUE, TRUE)],
    accesses |-> l, defined |-> d, listed |-> ~d] : l \in AccessLists, d \in BOOLEAN}
=============================================================================
