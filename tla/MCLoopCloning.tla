--------------------------- MODULE MCLoopCloning ---------------------------
(***************************************************************************)
(* Small modules for the loop body cloner: two loops, one in the other; a  *)
(* loop with two latches around a loop that begins where two paths meet;   *)
(* four loops, three deep; a loop whose payload begins where two paths     *)
(* meet; two loops whose payload is the same such block; and a loop around *)
(* a cycle with two ways in.                                               *)
(***************************************************************************)
EXTENDS LoopCloning

Value(name, form) ==
  [name |-> name, form |-> form, from |-> NoLocation, to |-> NoLocation, iterator |-> FALSE,
   carried |-> FALSE, ind |-> NoValue, limits |-> {}, elsewhere |-> TRUE,
   integer |-> form = "scalar", variant |-> FALSE]

Variable(name, l) ==
  [Value(name, "scalar") EXCEPT !.iterator = TRUE, !.ind = <<l, 1>>, !.variant = TRUE]
Pointer == [Value("q", "pointer") EXCEPT !.to = "A"]
Loaded == [Value("r", "loaded pointer") EXCEPT !.from = "A", !.to = "B"]
Array == [Value("a", "argument") EXCEPT !.to = "B"]
Limit(name, l, b) ==
  [Value(name, "scalar") EXCEPT !.limits = {[loop |-> l, block |-> b]}, !.elsewhere = FALSE]
Sum == [Value("s", "scalar") EXCEPT !.carried = TRUE]
SumOut == [name |-> "s.out", form |-> "scalar", from |-> NoLocation, to |-> NoLocation, variant |-> FALSE]
LoadedOut == [SumOut EXCEPT !.name = "t.out", !.form = "loaded scalar", !.from = "A"]

Access(op, loc) == [op |-> op, callee |-> "none", effect |-> "none", args |-> {}, locs |-> {loc}, used |-> FALSE]
Call(callee, effect) ==
  [op |-> "call", callee |-> callee, effect |-> effect, args |-> {"q"}, locs |-> {"A"}, used |-> FALSE]
Marker(used) ==
  [op |-> "marker", callee |-> "intrinsic", effect |-> "none", args |-> {}, locs |-> {}, used |-> used]

Load == Access("load", "A")
Store == Access("store", "A")

Codes ==
  {<<Load>>, <<Store>>, <<Load, Access("store", "B")>>, <<Marker(FALSE), Store>>, <<Marker(TRUE)>>,
   <<Load, Call("defined", "accessesArgs")>>, <<Load, [Call("declared", "accessesArgs") EXCEPT !.args = {}]>>, <<Call("declared", "reads"), Store>>,
   <<Call("declared", "writes")>>, <<Call("declared", "readsArgs")>>,
   <<Call("indirect", "unknown")>>, <<Call("defined", "unknown")>>, <<Call("declared", "none")>>}

Start(base, recs) == [known |-> TRUE, base |-> base, recs |-> recs]
Phi(start) == [kind |-> "affine", start |-> start]
Outside == Phi(Start(0, <<>>))
Follows(l) == Phi(Start(3, <<[loop |-> l, step |-> 1]>>))
Odd == Phi([Start(0, <<>>) EXCEPT !.known = FALSE])
Other == [Outside EXCEPT !.kind = "other"]

Loop(header, blocks, phis, taken) ==
  [header |-> header, blocks |-> blocks, phis |-> phis, taken |-> taken, known |-> TRUE,
   payload |-> {}, tree |-> {}, inputs |-> <<>>, outputs |-> <<>>]

Fn(edges, phis, loops, code, where) ==
  LET blocks == {e[1] : e \in edges} \cup {e[2] : e \in edges}
  IN  [defined |-> TRUE, listed |-> TRUE, edges |-> edges, phis |-> phis, barred |-> {},
       code |-> [b \in blocks |-> IF b = where THEN code ELSE <<>>], loops |-> loops]

Usual == <<Variable("i", 1), Pointer>>

\* Two loops, one in the other.
Nested(code, first, second, taken, inputs) ==
  Fn({<<1, 2>>, <<2, 3>>, <<2, 9>>, <<3, 4>>, <<4, 5>>, <<4, 7>>, <<5, 6>>, <<6, 4>>, <<7, 8>>, <<8, 2>>},
     {2, 4},
     <<[Loop(2, 2 .. 8, first, taken) EXCEPT !.payload = {3, 4, 5, 6, 7}, !.tree = {7}, !.inputs = inputs],
       [Loop(4, 4 .. 6, second, 3) EXCEPT !.payload = {5}, !.tree = {5},
          !.inputs = <<Variable("i", 1), Variable("j", 2), Pointer, Loaded>>, !.outputs = <<LoadedOut>>]>>,
     code, 5)

\* The first latch of the outer loop also leads into the inner loop.
TwoLatches(code) ==
  Fn({<<1, 2>>, <<2, 3>>, <<2, 4>>, <<3, 2>>, <<3, 4>>, <<4, 5>>, <<5, 4>>, <<5, 6>>, <<6, 7>>, <<7, 2>>, <<7, 8>>},
     {2, 4},
     <<[Loop(2, 2 .. 7, <<Outside>>, Uncountable) EXCEPT !.payload = {4, 5, 6}, !.tree = {4, 5, 6},
          !.inputs = <<[Variable("i", 1) EXCEPT !.ind = NoValue], Pointer>>],
       [Loop(4, 4 .. 5, <<Outside>>, 3) EXCEPT !.payload = {4}, !.tree = {4},
          !.inputs = <<Variable("j", 2), Pointer>>]>>,
     code, 4)

\* Loops that are tested at their end: 2 in 1, 3 in 2, and 4 in 1.
Deep(code, inputs) ==
  Fn({<<1, 2>>, <<2, 3>>, <<3, 4>>, <<4, 9>>, <<9, 10>>, <<10, 4>>, <<10, 5>>, <<5, 3>>, <<5, 6>>, <<6, 6>>,
      <<6, 7>>, <<7, 2>>, <<7, 8>>},
     {2, 3, 4, 6},
     <<[Loop(2, {2, 3, 4, 5, 6, 7, 9, 10}, <<Outside>>, 4) EXCEPT !.inputs = inputs],
       [Loop(3, {3, 4, 5, 9, 10}, <<Follows(1)>>, 3) EXCEPT !.payload = {4, 9, 10}, !.tree = {9},
          !.inputs = <<Variable("j", 2)>>],
       [Loop(4, {4, 9, 10}, <<Outside>>, 2) EXCEPT !.payload = {9}, !.tree = {9},
          !.inputs = <<Variable("i", 1), Variable("j", 2), Variable("k", 3)>>],
       Loop(6, {6}, <<Outside>>, 2)>>,
     code, 4)

\* A loop whose payload is the block where its two paths meet, which may be a
\* loop, and a loop after it.
Meeting(code, again) ==
  LET first == [Loop(2, 2 .. 6, <<Outside>>, 4) EXCEPT !.payload = {5}, !.tree = {5},
                  !.inputs = <<Variable("i", 1), Pointer>>]
      inner == IF again THEN <<Loop(5, {5}, <<Outside>>, 3)>> ELSE <<>>
      last == Len(inner) + 2
  IN  Fn({<<1, 2>>, <<2, 3>>, <<2, 4>>, <<3, 5>>, <<4, 5>>, <<5, 6>>, <<6, 2>>, <<6, 7>>,
          <<7, 8>>, <<8, 9>>, <<9, 7>>, <<7, 10>>} \cup {<<l.header, l.header>> : l \in Elems(inner)},
         {2, 5, 7},
         <<first>> \o inner \o
           <<[Loop(7, 7 .. 9, <<Follows(1)>>, 4) EXCEPT !.payload = {8}, !.tree = {8},
                !.inputs = <<Variable("k", last)>>]>>,
         code, 5)

\* A loop in a loop whose payload is the block where two paths meet, for both;
\* it may also be the last block of the inner loop.
Shared(code, last) ==
  Fn({<<1, 2>>, <<2, 3>>, <<3, 4>>, <<3, 5>>, <<4, 6>>, <<5, 6>>, <<last, 3>>, <<last, 7>>,
      <<7, 2>>, <<7, 8>>} \cup {<<6, b>> : b \in {last} \ {6}},
     {2, 3, 6},
     <<[Loop(2, (2 .. 7) \cup {last}, <<Outside>>, 4) EXCEPT !.payload = {6}, !.tree = {6},
          !.inputs = <<Variable("i", 1), Pointer>>],
       [Loop(3, (3 .. 6) \cup {last}, <<Outside>>, 3) EXCEPT !.payload = {6}, !.tree = {6},
          !.inputs = <<Variable("j", 2), Pointer>>]>>,
     code, 6)

\* A cycle that is entered at both of its blocks is no loop.
Crossing(code) ==
  Fn({<<1, 2>>, <<2, 3>>, <<2, 4>>, <<2, 6>>, <<3, 4>>, <<4, 3>>, <<3, 5>>, <<5, 2>>}, {2, 3, 4},
     <<[Loop(2, 2 .. 5, <<Outside>>, 4) EXCEPT !.payload = {3, 4}, !.tree = {3}, !.inputs = Usual]>>,
     code, 3)

Sums == <<Variable("i", 1), Sum, Array>>

Options ==
  [strategy |-> "naive", asserts |-> TRUE, skipCalls |-> FALSE, aggregate |-> FALSE,
   ignoreAliasing |-> FALSE, exportResults |-> TRUE, exportFailResults |-> TRUE,
   whiteList |-> FALSE, directory |-> TRUE, files |-> TRUE, functions |-> <<>>]

Release == [Options EXCEPT !.asserts = FALSE]

\* All code, with and without assertions, and the options that have to do with it.
Accesses ==
  {[o EXCEPT !.functions = <<Nested(c, <<Outside>>, <<Outside>>, 4, Append(Usual, Array))>>] :
     o \in {Options, Release, [Options EXCEPT !.skipCalls = TRUE], [Options EXCEPT !.ignoreAliasing = TRUE]},
     c \in Codes}

\* All shapes, for each strategy.
Shapes ==
  {[o EXCEPT !.strategy = s, !.functions = <<f>>] :
     o \in {Options, Release}, s \in Strategies,
     f \in {TwoLatches(<<Load, Store>>), Deep(<<Load>>, <<>>), Deep(<<Load>>, Usual),
            Meeting(<<Store>>, FALSE), Meeting(<<Store>>, TRUE), Shared(<<Store>>, 6), Shared(<<Store>>, 9), Crossing(<<Store>>),
            Nested(<<Load>>, <<Outside>>, <<Follows(1)>>, 4, Usual),
            [Nested(<<Load>>, <<Outside>>, <<Follows(1)>>, 4, Usual) EXCEPT !.barred = {5}],
            [Nested(<<Load>>, <<Outside>>, <<Outside>>, 4, Usual) EXCEPT !.loops[1].known = FALSE]}}

\* Induction variables and inputs.
Bounds ==
  {[Options EXCEPT !.strategy = s, !.functions = <<Nested(<<Load>>, <<p>>, q, t, i)>>] :
     s \in {"naive", "witr"}, p \in {Outside, Odd, Other},
     q \in {<<Outside>>, <<Follows(1)>>, <<Other>>, <<[Other EXCEPT !.kind = "vector"], Outside>>},
     t \in {4, Symbolic, Uncountable},
     i \in {<<Pointer>>, Usual, <<Variable("i", 1), Limit("m", 2, 4)>>,
            <<Variable("i", 1), [Limit("m", 2, 4) EXCEPT !.integer = FALSE]>>,
            <<Variable("i", 1), [Variable("j", 2) EXCEPT !.iterator = FALSE]>>,
            <<Variable("i", 1), [Variable("j", 2) EXCEPT !.limits = {[loop |-> 2, block |-> 4]},
                                                         !.elsewhere = FALSE]>>}}

\* Arguments, reports and several functions.
Reporting ==
  LET one == Nested(<<Load, Store>>, <<Outside>>, <<Outside>>, 4, Sums)
      two == [one EXCEPT !.loops[1].outputs = <<SumOut>>]
      single == Fn({<<1, 2>>, <<2, 3>>, <<3, 4>>, <<4, 2>>, <<2, 5>>}, {2},
                   <<[Loop(2, 2 .. 4, <<Outside>>, 4) EXCEPT !.payload = {3}, !.tree = {3},
                        !.inputs = <<Variable("i", 1)>>]>>, <<Load>>, 3)
      other == Meeting(<<Store>>, FALSE)
  IN  {[o EXCEPT !.functions = f, !.aggregate = a, !.exportResults = r, !.exportFailResults = e, !.whiteList = TRUE] :
         o \in {Options, Release, [Options EXCEPT !.directory = FALSE], [Options EXCEPT !.files = FALSE]},
         f \in {<<two>>, <<single>>, <<two, [other EXCEPT !.listed = FALSE], Deep(<<Load>>, <<>>)>>,
                <<[two EXCEPT !.defined = FALSE], other>>},
         a, r, e \in BOOLEAN}

Modules == Accesses \cup Shapes \cup Bounds \cup Reporting
=============================================================================
