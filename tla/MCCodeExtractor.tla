--------------------------- MODULE MCCodeExtractor ---------------------------
(***************************************************************************)
(* Regions of three instructions.  i is the phi node of the loop's         *)
(* iterator, s another phi node of its header; o is an induction variable  *)
(* of another loop of the nest; a is a pointer argument, g a global; u is  *)
(* an instruction behind the region; c is the condition of the loop.       *)
(***************************************************************************)
EXTENDS CodeExtractor, TLC

MCSevered(v) == IF v = "x" THEN "x.ce" ELSE v

MCValues == {"i", "s", "o", "a", "g", "x", "x.ce", "y", "z", "u", "c"}

Inst(kind, operands) == [kind |-> kind, ops |-> operands]

Firsts ==
  {Inst("other", <<"i">>), Inst("other", <<"o", "s">>), Inst("gep", <<"a", "i">>),
   Inst("gep", <<"g", "i">>), Inst("phi", <<"i", "s">>), Inst("phi", <<"i", "s", "y">>)}

Seconds ==
  {Inst("other", <<"x">>), Inst("other", <<"o">>), Inst("gep", <<"a", "i">>),
   Inst("gep", <<"g", "s">>), Inst("gep", <<"x", "i">>), Inst("load", <<"x">>),
   Inst("store", <<"s", "x">>)}

Thirds ==
  {Inst("other", <<"y", "s">>), Inst("store", <<"i", "y">>), Inst("load", <<"y">>),
   Inst("load", <<"x">>)}

Incoming == {<<>>, <<"x">>, <<"u", "x">>, <<"x", "y">>, <<"y", "x">>}

BehindRegion == {<<>>, <<"z">>}

Function(x, y, z, s, u) ==
  [ops  |-> "x" :> x.ops @@ "y" :> y.ops @@ "z" :> z.ops @@ "s" :> s @@ "u" :> u
              @@ "c" :> <<"i", "o">> @@ [v \in MCValues |-> <<>>],
   kind |-> "x" :> x.kind @@ "y" :> y.kind @@ "z" :> z.kind @@ "i" :> "phi" @@ "s" :> "phi"
              @@ "o" :> "phi" @@ "a" :> "argument" @@ "g" :> "global" @@ "x.ce" :> "phi"
              @@ [v \in MCValues |-> "other"],
   ptrs |-> {"a", "g"} \cup {v \in {"x", "y"} : (IF v = "x" THEN x ELSE y).kind = "gep"}]

\* Memory is accessed through pointers, results of stores are not used, and
\* the operand of a phi node is a scalar.
WellTyped(f) ==
  \A v \in MCValues :
    /\ f.kind[v] \in {"gep", "load"} => f.ops[v][1] \in f.ptrs
    /\ f.kind[v] = "store" => f.ops[v][2] \in f.ptrs
    /\ f.kind[v] \in {"phi", "other"} => \A i \in DOMAIN f.ops[v] : f.ops[v][i] \notin f.ptrs
    /\ \A i \in DOMAIN f.ops[v] : f.kind[f.ops[v][i]] # "store"

Roles ==
  {[outer |-> {}, inner |-> {}, constStart |-> {}],
   [outer |-> {"o"}, inner |-> {}, constStart |-> {"o"}],
   [outer |-> {"o"}, inner |-> {}, constStart |-> {}],
   [outer |-> {}, inner |-> {"o"}, constStart |-> {"o"}]}

Iterators == {[known |-> TRUE, iters |-> {"i", "u"}], [known |-> TRUE, iters |-> {"i", "s"}],
              [known |-> TRUE, iters |-> {"u"}], [known |-> FALSE, iters |-> {}]}

UsesOf(f, v) == \E w \in {"x", "y", "z"} : v \in Elems(f.ops[w])

\* The iterator and what limits it are floating-point numbers, or no value is.
Floats == {{}, {"i", "o"}}

MCRegions ==
  {[body |-> <<"x", "y", "z">>, kind |-> f.kind, ops |-> f.ops, ptrs |-> f.ptrs,
    ints |-> (MCValues \ f.ptrs) \ floats, eligible |-> e, outPreds |-> p, known |-> t.known, iters |-> t.iters,
    conds |-> {"c"} \cup cond, outer |-> r.outer, inner |-> r.inner,
    constStart |-> r.constStart] :
     f \in {h \in {Function(x, y, z, s, u) : x \in Firsts, y \in Seconds, z \in Thirds,
                                            s \in Incoming, u \in BehindRegion} : WellTyped(h)},
     e \in BOOLEAN, p \in {1, 2}, t \in Iterators, cond \in {{}, {"y"}}, r \in Roles,
     floats \in Floats}

\* Floating-point numbers are no indices; they are told apart for a region that
\* uses what limits the loop.
FloatingLimit(r) ==
  /\ \A v \in MCValues : r.kind[v] = "gep" => "i" \notin Elems(r.ops[v])
  /\ UsesOf(r, "o") /\ r.outer \cup r.inner = {}

\* Choices that a region does not depend on are made once: the edges into a
\* first block without phi nodes, the role of o where it is not used, a
\* condition of an inner loop that is no comparison, the rest of a region that
\* is not accepted.
MCRegionsThatDiffer ==
  {r \in MCRegions :
     /\ r.outPreds = 2 => r.kind["x"] = "phi"
     /\ Len(r.ops["x"]) > 2 => r.outPreds = 2
     /\ UsesOf(r, "o") \/ r.outer \cup r.inner = {}
     /\ r.conds = {"c"} \/ r.kind["y"] = "other"
     /\ "i" \in r.ints \/ FloatingLimit(r)
     /\ r.eligible \/ r.outPreds = 1}
=============================================================================
