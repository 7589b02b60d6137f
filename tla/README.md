# Atrox: a TLA+ development

Atrox is a set of LLVM 7 passes that clone the bodies of loops into functions
of their own. All of it is sequential C++ driven by LLVM's pass managers; what
makes it hard is not concurrency but the state that analyses describe going
stale while the code they describe is rewritten, results that depend on the
order of address-ordered containers and of reverse post orders, and loops of
shapes no test contains. The repository's own tests cover next to nothing of
this (`tests/function-identity.ll`, `unittests/TestAtrox.cpp`).

## The system

| part | state | operations | what makes it correct |
| --- | --- | --- | --- |
| block separator (`lib/Transforms/BlockSeparator.cpp`, `Passes/BlockSeparatorPass.cpp`) | the blocks of a function; per loop the mode change points and block modes | `perform`, `FindPartitionPoints`, `SplitAtPartitionPoints` | cuts only where a mode changes, every such cut, no instruction lost, splits at instructions still in the block |
| payload trees (`lib/Analysis/PayloadTree.cpp`) | blacklist, groups, worklist | `SelectPayloadTrees` | only blocks without iterator code; together everything the roots lead to, in any order |
| payload weights (`lib/Analysis/PayloadWeights.cpp`) | none | `CalculatePayloadWeight` | the weight of a block is the sum over its instructions |
| selectors (`NaiveSelector`, `IteratorRecognitionSelector`, `WeightedIteratorRecognitionSelector`) | the selected blocks | `getBlocks`/`calculate` | never the header; no iterator code; entered where the code extractor expects it |
| loop body cloner (`LoopBodyCloner.hpp`, `LoopBodyClonerPass.cpp`) | the functions left; per function: success and failure records | `perform`, `cloneLoops`, `cloneLoop` | one record per loop, arguments and their specifications in step, what an earlier loop leaves behind does not show |
| code extractor (`Utils/CodeExtractor.cpp`) | region, inputs, outputs, their maps, stack-allocated inputs, cloned blocks | `prepare`, `cloneCodeRegion` | every value the clone uses is an argument, an alloca or cloned; outputs are stored on every exit; the original stays as it was |
| loop bounds analyzer (`LoopBoundsAnalyzer.cpp`) | per nest: induction variable, start and end of each loop | `analyze`, `evaluate`, queries | answers are about the loop asked about and as if it had just been analyzed |
| argument specifications (`ArgUtils.cpp`), memory access info (`MemoryAccessInfo.cpp`) | none | `ReorderInputs`, `GenerateArgDirection`, `isRead`, `isWrite` | the iterator comes first; one direction per argument; directions follow what alias analysis says of the region |
| array decomposition (`DecomposeMultiDimArrayRefs.cpp` and its pass) | the list of accesses made before the first rewrite | `FlattenMultiDimArrayIndices`, `DecomposeMultiDimArrayRefs` | the same element is addressed, also when several accesses share a reference |
| call detection and instruction erasing (`GeneralUtils.cpp`) | none | `CallDetector`, `InstructionEraser` | used markers are not erased |
| PDG and iterator recognition glue, JSON exchange, registration and options | none | | construction of external analyses, output, declarative glue |

The passes run one after the other on a function or module. The separator
splits the blocks of all loops so that afterwards a block is all iterator or all
payload; the cloner pass recomputes loops and iterator information, asks the
selector of the chosen strategy for the blocks of each loop, orders them, and
lets a code extractor find inputs and outputs and clone the blocks; records of
what was cloned go to JSON files. Iterator information, the program dependence
graph, alias analysis and scalar evolution come from outside the repository.

## The modules

`LoopNest` holds what a function looks like to the separator: instructions are
numbers in layout order, an original block is an interval of them, and a loop
nest says which loops are around a block. `BlockSeparation` says what the pass
promises: a set of cuts grows until it is the set of cuts that loops call for.

`BlockSeparator` is the pass. `code` is the function's list of blocks, `todo` the
rest of the loops in preorder, `points` and `modes` are `modeChanges` and
`blockModes`, `cur` and `lastMode` the place inside `SplitAtPartitionPoints`.
`FindPartitionPoints` is one action because the code neither changes blocks nor
calls out while it runs; every `llvm::SplitBlock` is an action
(`SplitAtPartitionPoint`), because the points found before are used after it;
`FinishBlock` is what follows the splits of one block, in any order of blocks
(the map is keyed by addresses). `Decline`, `SkipLoop` and `Finish` are the early
return, the `continue` and the end of `perform`.

`LoopShape` holds what a loop looks like to the selectors: blocks, successors,
header, payload blocks, inner loops. `PayloadTrees` is `SelectPayloadTrees`: `Roots`
and `InitialBlacklist` are its preparation, `StartTree`, `Visit` and `FinishTree` its
loops, with every order of roots and worklist. `PayloadWeights` is the table of
instruction weights and their sum. `RegionSelection` composes the two with the
three selectors and with the first part of `cloneLoop`: `SelectNaive`; `ItrSkip`,
`ItrTake`, `ItrStop`, `ItrEnd` (one per way through the selector's loop);
`SelectTrees`, `CollectTrees`, `WitrPick`, `WitrPickNone`; `OrderBlock` and `Ordered`.
The blocks that the `itr` selector erases from its traversal before it walks it are
passed over by the walk (`ItrSkip`). What
the end iterator of an empty map of weights leads to is undefined in the code
and a choice in the model: an empty selection (libstdc++) or an abort.

`CodeExtractor` goes on where `RegionSelection` ends, with what `cloneLoop` and the
code extractor do to the values of the region. A region is a record of values,
what each uses, and what the external analyses say about them. `TakeIteratorInfo`
and `Check` are `cloneLoop`'s; `ScanOperand`, `ScanUsers`, `EndScan`, `VisitGep`,
`EndGeps` are the searches for inputs and outputs, `MapIncoming`, `MapNext`,
`MapOutputs` the two maps between them, `ReorderInputs` and `ReorderNothing` what
`ReorderInputs` does with and without an iterator, `StackAllocate`, `StackAbort` and
`EndStack` the search for local variables. `CloneNothing`, `KeepHeader`,
`SeverHeader`, `BindInput`, `BindOutputs`, `BindCells`, `BindLocals` and `StoreOutputs`
are `cloneCodeRegion` in its order. `InputToOutputMap` holds outputs instead of
their indices; `bound` says what replaces the uses of a value in the clone, which
is never replaced twice. `fn.ints` are the values of integer type: `ConstantInt::get`
fails for the others (`HasConstant`, `StackAbort`). Both kinds of builds are covered (`asserts`); what the
code leaves undefined ends in the state `undefined`.

`LoopCloning` is the pass as a whole, and what ties the parts together: the functions
of the worklist from the last to the first, the loops of each in preorder, and
for each loop what `cloneLoop` does, with every way out of it. `Analyze` is
`LoopBoundsAnalyzer::analyze`, `Select` and `SelectNothing` the selection and the
ordering, `SkipCalls` and `PassCalls` the call check and the assertions behind it,
`Prepare` the extractor's `prepare` with all it can fail of, `Check` the checks of the
inputs and `isEligible`, `Sever` and `Keep` `severSplitPHINodes`, `Copy` the rest of
`cloneCodeRegion`, `Describe`, `DescribeFails` and `Fail` the records, `Report` and
`ReportFails` the files. The state that matters is what one loop leaves for the
next: `cfg` is the control flow graph, which severing changes, while the loops of a
function go on describing the graph before; `lba` holds the analyzer's results,
kept from loop to loop of a nest. The values of a region are given with its loop.
The orders of blocks are over-approximated (`Traversals`): the header comes first,
every other block after one that leads to it, and an edge goes against the order
only if it is a back edge or lies in a cycle of edges that are none, so that
cycles with two ways in are ordered too. The details of the selectors are those of
`RegionSelection`; `NoTree` is its `WitrPickNone`, an empty selection or an undefined
outcome. `Preparation` has every way `prepare` fails: no iterator among the inputs, a
nest without induction variables, a list that grows while it is walked, a loop
with several exiting blocks, an input of two roles or without a constant to start
with (`RolesClash`) or (`NoConstant`, `ConditionalExit`) an initial value
`ConstantInt::get` cannot make and an exiting block that ends in the branch of a
split. The last two stop a build with assertions and are undefined in another.

`LoopBounds` is the analyzer as operators on its state: `Analyzed`, `Evaluated` (on a
copy, as `findStackAllocatable` does), the queries, and how each fails. Starts of
induction variables are constants, symbols or nests of additive recurrences;
`AtScope` and `AtIteration` are what ScalarEvolution makes of them. `ArgumentSpecs` has
the answers of `MemoryAccessInfo` and the directions, over what alias analysis says
about instructions and locations, and `CallDetector` and `InstructionEraser`.
`LoopRecords` is the abstract specification of the reports: each loop once and in
order, written per function and numbered per kind without gaps; `LoopCloning` is
shown to implement it (`Recording`).

`ArrayReferences` rewrites references to arrays: `Flatten` for the clone (option
`atrox-flatten-array-accesses`), `StartChain`, `ExtendChain`, `EndChain` for the pass that
decomposes. Both go through a list of accesses made before the first rewrite, and
numbers are words that wrap.

`Subsequences` has the part of a sequence at given positions (`Kept`), and the place of
a position in it: what `WorkList`, `Number` and `LoopRecords` need of `SelectSeq`, in a
form that can be reasoned about. `DataLemmas` is a module of proofs only.

The `MC*` modules give the constants values; `MCLoopShapes` enumerates loops and
their reverse post orders and is the only module with a `RECURSIVE` operator.
`MCLoopCloning` describes six kinds of functions and varies what is in them.
Operators whose comment begins with "Mutant:" are variants of the definition that
follows them with a plausible mistake in it; each one breaks a property.

## What is checked

| run | what it shows | bounds |
| --- | --- | --- |
| `separator` | splits stay valid (`SplitPointsValid`), nothing is lost (`InstructionsKept`), visited loops are separated although later visits split on (`Separated`), recorded modes are right except behind mixed phi nodes (`ModesExact`), the cuts are exactly those called for (`Separation`), `perform` returns (`Returns`) | an outer loop of two blocks, an inner loop of one; two phi nodes in each header, two partition points in one block, an unconditional branch; every iterator information, including none for a loop |
| `trees` | what a tree may hold, that all trees together hold what the roots lead to in any order, how trees overlap, that each hangs together, what is a root's own, termination | every reducible loop of five blocks with one latch and at most two successors per block, and every one of four blocks with several latches, self-loops and any payload; up to three roots |
| `selection` | header and latches are left out, no iterator code is selected by `itr` and `witr`, the `itr` region is entered from the header's side and ends only at iterator code, the `witr` region is worth at least what any root owns | 300-odd loops with and without several latches and inner loops, all reverse post orders, blocks of different and equal weight |
| `single_entry` | a counterexample to the single-entry assumption of the code extractor | as above |
| `extraction` | the clone uses nothing of the old function unless its header was severed (`ClosedUnlessSevered`), what the region as selected carries to the next iteration goes through the memory of parameters (`CarriedThroughMemory`), initial values and local variables stay in step in builds with assertions (`InitsFollowAllocas`), a clone has one iterator and, unless `ReorderInputs` picked an input that is no parameter, as its first parameter (`OneIteratorFirst`) | regions of three instructions over eleven values: phi nodes, address computations on globals, arguments and values of the region, loads, stores; one and two entries; iterators known or not; every role of an induction variable; integers and other numbers |
| `arrays` | a flattened reference addresses what it addressed but for its first index, whatever wraps, and all references of the region get flattened (`FlattenedAddress`); a decomposed one is a chain in which each step has a pointer of its type, and a change is reported when there is one (`DecomposedTyped`), although accesses share references | two references, three accesses; up to three dimensions; words of four bits, so that products wrap; fields, partial and narrow indices, references outside of the region |
| `cloning` | see below | modules of up to three functions with up to four loops: nested, with two latches, three deep with a loop beside, with a region entered twice, around a cycle with two ways in; limits that are integers and that are not; every kind of access and call; every strategy and option; builds with and without assertions |
| `scalar_outputs`, `input_roles`, `no_iterator_input`, `outside_inputs`, `severed_region` | counterexamples, see below | as above |

`cloning` asks what an earlier loop leaves for a later one and what reaches the
reader of the reports:

- `OriginalGraphKept`: with the parts of split blocks put together the function has
  the graph and the code it had, and each part only leads to the next. `cfg.of` says
  which original block a part is of, `cfg.rest` which part a split left behind it;
  in one of the functions (`Shared`) a block is split for two loops, one after the
  other; where it is the last block of the inner loop the second loop stops in
  `prepare`, because its exiting block has become an unconditional branch.
- `RegionsComplete`: ordering a selection loses nothing, unless a block of the nest
  was split before: then the loops of `LoopInfo` miss the new block, and a region
  can lose all that lies behind it.
- `CloneGraphSound`: in the clone of a region with one entry every block is reached
  and phi nodes have one value for each way in.
- `BoundsFresh`, `StartsFixed`: neither the results for another nest nor the
  evaluation for an earlier loop show in what the analyzer answers, and local
  variables start with the first value of the induction variable they stand for.
- `SpecPerParameter`: a specification for each argument of a clone, in order.
- `DirectionsSound`: a computed pointer that gets a direction is not called inbound
  if the region may write through it, and is called both if the region also reads
  through it, without writing or in a call it is passed to; with
  `atrox-ignore-aliasing` the same holds for arguments and globals. It is no more
  than that. Loaded pointers are judged by what is done to the place they come from, and
  without the option arguments and globals are called inbound whatever is written;
  the read of a call that reads and writes
  what another pointer gives it is not seen (`MemoryAccessInfo.cpp:40` asks for a
  read that does not write); `MemoryAccessInfo` goes through the blocks it was made
  with, so that code split off the first block before does not count; and calls it
  has no answer for stop the program (`DescribeFails`).
- `ChangesReported`: functions appear and graphs change for the loops that are
  reported as cloned. `Recording`: the refinement of `LoopRecords`.
- `TameNeverStops`: the conditions of `Tame` are enough to get through `prepare`, with
  assertions and without: loops with one exiting block, two deep and not split
  before, with induction variables in those inside; an iterator among the inputs;
  no input that is a limit and an induction variable of another loop of the nest;
  inner induction variables that start with a number; and integers where a local
  variable is given an initial value. They are not all necessary: of the nests in
  the run that lack one of them some stop and some get through.
- `CloningEnds`: the pass ends, in a report or an early stop.

Two phi nodes are the fewest that can disagree and two points in one block the
fewest whose order matters; two nested loops make every inner block visited
twice. Five blocks allow three roots, shared payload, a cycle of payload and an
inner loop that is entered from iterator code.

Three instructions are enough for two getelementptrs and an access through one of
them (the fewest that `erase` treats differently), for a value that is used in
the region, behind it and in the next iteration, and for a severed phi node with
a user. `MCRegionsThatDiffer` makes a choice once where a region does not depend
on it.

In `cloning`, two loops in one show an inner loop whose blocks were split for the
outer one; the loops three deep make the analyzer's vector grow while it is
walked; the two latches and the meeting paths are what makes a region's first
block have two ways in, without which nothing is severed; the cycle with two ways
in (`Crossing`) is what no order of the blocks sorts. `Accesses`, `Shapes`,
`Bounds` and `Reporting` each vary one part against fixed others, because the parts
meet in few places: what is written per access does not depend on the shape of
a loop, nor the numbering of reports on either.

Fairness is weak fairness of the whole next-state relation in `BlockSeparator`,
`PayloadTrees`, `RegionSelection` and `LoopCloning`: the code is sequential and runs until
it returns. `CodeExtractor` and `ArrayReferences` state no liveness property and assume
none. `CHECK_DEADLOCK FALSE` is set where a model is of one call that ends; in
`LoopCloning` the end is a state to stay in (`Stay`), and deadlock is checked, so
that no loop gets stuck half way through `cloneLoop`.

Six runs end in a counterexample:

- `single_entry`: every strategy may select a region with several entries. The code
  extractor's check for it only logs (`CodeExtractor.cpp:233-241`, the `return {}` is
  commented out), and `cloneCodeRegion` goes on assuming a single entry (line 1138).
- `scalar_outputs`: the description of the algorithm promises stores "to the
  arguments for any scalars" (`CodeExtractor.hpp:66-67`); `cloneFunction` stores
  only outputs related to an input (`CodeExtractor.cpp:1088-1099`).
- `input_roles`: the assertion "Input is of both kinds!" for induction variables of
  surrounding loops (`CodeExtractor.cpp:455`) does not hold. Such a variable can be
  the limit of an inner loop and nothing else in the region.
- `no_iterator_input`: `cloneLoop` has a check for loops without an iterator input
  (`LoopBodyCloner.hpp:150`), but `prepare`, called before it, already dereferences
  the end of the inputs (`ArgUtils.cpp:49-50`).
- `outside_inputs`: `geps.erase(toErase)` (`CodeExtractor.cpp:667`) erases one element
  and not the rest, and a pointer the region computes itself becomes an input.
- `severed_region`: `severSplitPHINodes` runs after the inputs were found (line 1163),
  and the clone refers to phi nodes of the old function, which `verifyFunction`
  (line 1281) rejects. The region needs several entries into its first block, as
  the header of an inner loop has when nothing gives it a preheader.

## What is proved

Every invariant and every action property of the runs is a theorem, and so are the
two refinements; what TLC shows for the small instances holds for every value of
the constants that fulfils the assumptions below. Types come first in each
module, and the inductive invariants are conjunctions of named parts.

`DataLemmas` has what several proofs need and the library has not got in a form the
provers can use: least members, that a recursive function up to a number or over
the subsets of a finite set exists and is the one its steps determine
(`StepsExist`, `AddsExists`), that a fold adds up (`FoldAdds`) and that sums grow with
their sets (`AddsMonotonic`), and what is kept of a sequence that gets longer
(`KeptAppended`). What varies in them is a function, not an operator. They are proved
from well-founded sets, by smallest counterexamples, because induction over
predicates is out of the provers' reach.

`BlockSeparator_proofs`, for every function, nest, iterator information and order of
splitting:

- `TypeCorrect`, `SplitPointsStayValid`: the type invariant and the validity of
  the points still to be split at.
- `Implements`: `Spec => Abstract!Spec`. Neither is inductive alone. The invariant
  `Safe` adds that blocks are pieces of original blocks (`Pieces`), that the points
  wanted by the loop being visited are found or already cut (`PointsWanted`,
  `CurrentCut`), that all cuts of visited loops were made (`VisitedCut`) and that
  every cut is called for (`CutsCalledFor`). The crux is that a loop sees the same
  mode changes in the pieces of a block as in the block itself, because a fresh
  branch is payload, is not scanned, and ends its block.
- `SplitsKeepInstructions`, `BlocksAreSeparated`: the pieces are `Apart`, no two
  overlap, and `Linked`, a fresh branch leads to the piece cut off there; so the
  pieces go on holding every instruction once, and the neighbours of a cut are
  neighbours in the code.
- `RecordedModesAreExact`: `Roots` says that the first piece of a block keeps the
  block's name, and `Recording` how far the modes of the loop being visited have
  come: a block that still waits has no mode, its points are all its mode changes,
  and what was cut off last begins with the other mode (`Waiting`); any other
  block has the mode of its instructions.

`PayloadTrees_proofs`, for every loop and order:

- `TreeTypeCorrect`, `TreesStayAllowed`, `TreesCover`, `TreesOverlapAtRoots`,
  `TreesStayConnected`, `OwnPayloadStays`. The inductive invariant `Walk` says that a
  tree is its root before its turn (`Rooted`), that only the current root may be
  on the worklist although visited (`Fresh`), that trees stay within what their
  root leads to (`Led`), that what a visited block leads to is visited or waits
  (`Followed`), and that the worklist hangs on the current tree (`Hanging`).
  Reachability is defined by closed sets, so that no induction over paths is
  needed.

`RegionSelection_proofs`, for every loop, reverse post order and order of trees:

- `SelectionTypeCorrect`, `LoopEndsStayOut`, `ItrStaysEnteredFromHeader`,
  `ItrOnlyStopsAtIteratorCode`. A step of the selection is a step of the trees or
  leaves them alone, so that `Walk` carries over. `Placing` says that the region holds
  what was selected as far as the ordering has come; `Choosing` says, per
  selector, what may be selected: for `itr`, that all blocks behind the walk are
  selected or ends of the loop (`Behind`), hence that predecessors are too
  (`EnteredFromEnds`). A reverse post order puts every predecessor of a block first
  unless the edge goes back to a header, and an inner loop is entered through its
  header: that is where it is needed that loops are natural loops.
- `HeaviestTreeIsSelected`: the selected tree weighs as much as any (`Heaviest`), and the
  tree of a root holds what only that root leads to (`Walk`); weights are no
  negative numbers, so that a tree weighs at least as much as its part.

`CodeExtractor_proofs` and `ExtractorArguments_proofs`, for every region:

- `ExtractorTypeCorrect`: types, which include that inputs and outputs hold nothing
  twice and that the two maps stay within them. The invariant `Typed` adds that
  an input `OutputToInputMap` names can be looked up in `InputToOutputMap`
  (`Related`), which the code relies on when it indexes outputs.
- `StaysClosed`: `ClosedUnlessSevered`. The invariant `Closing` follows the
  operands: those scanned are inputs if they come from the caller (`Scanned`),
  outputs are instructions of the region or pointers (`OutputsHeld`), and the
  three kinds of inputs are replaced one after the other (`BoundSoFar`). Every
  input is of one of the three kinds, which is the crux, and a kind never changes
  once cloning has begun.
- `InitsStayInStep`, `IteratorComesFirst`: initial values and local variables have the
  same length and order in builds with assertions, where the assertion about two
  kinds guards them (the property compares them until the header is severed;
  severing changes neither, but what their values are used for); a clone has one
  iterator, first among its parameters unless `ReorderInputs` picked another input.
- `CarriedByTheClone`: `CarriedThroughMemory`. `CarriedHeld` follows `mapInputsOutputs`:
  whatever has been visited, a phi input is related to one of the outputs it
  gets, and an output to a phi input that gets it, which is the only one there is
  if nothing else takes the output. `UsesHeld` follows the replacements: what is
  bound first stays, and the outputs are passed and stored. The property speaks
  of the region as it was selected: over the operands after severing it does not
  hold, because the maps go on naming the phi nodes from before, and the two
  phi nodes of the incoming values `y`, `x` in the run are such a case.

`ArrayReferences_proofs`, for every word size, list of accesses, and number and size of
dimensions:

- `ChainsAreTyped`, `ArrayTypes`: what is decomposed is a well-typed chain, with every
  index once, and a change is reported when there is one (`Decomposing`).
- `FlattenedTheSame`: `FlattenedAddress`. The code walks the dimensions from the outside
  in and multiplies each index by the product of the dimensions behind it;
  row-major order is defined by Horner's rule. `FlatIndexIs` shows that the sum of
  the one is the value of the other modulo the word size, by induction over the
  dimensions (`NextIndex`, `SameElement`) from lemmas about remainders of sums and
  products. The invariant `Flattening` adds that every reference the walk has
  passed is flat, whoever shares it.

`LoopCloning_proofs`, for every set of programs:

- `CloningTypes`, from `WorkOK` (there is a function and a loop of it whenever one is
  worked on), `RegionOK` (the region holds what was selected of an ordering of
  what the loop reaches, from its first block on), `GraphOK` and `RecordsOK`.
- `OriginalGraphStays`. `GraphOK` says that parts are numbered upwards and each
  is of one original block (`Parts`), that edges out of last parts are the edges
  of the original (`EdgesKept`), that every block has one last part (`OneLast`), that
  any other part leads to the next only (`LeadOn`) and that the parts of a block
  make no circle (`NoCircle`). Splitting keeps them wherever it happens, also at a
  part of a block that was split before.
- `RegionsStayComplete`: as long as no block of the nest was split, the ordering by
  what `LoopInfo` reaches has all blocks of the loop, by the connectedness that
  `ProgramAssumption` has for loops.
- `CloneGraphsSound`. What reaches the region from its header reaches all of it when it
  is the only block entered (`EnteredAtFirst`), because the region is in the order
  of the traversal, which puts a predecessor first; `Severed` says that from then
  on there is one way in from outside where there are phi nodes. In the graph of
  the clone (`CloneSound`) every block is then reached, with the values of phi
  nodes as their ways in.
- `BoundsStayFresh`, `StartsStayFixed`. `BoundsOK` says that the analyzer has no results,
  or those of all loops of one nest as it was before the first split. Evaluation
  goes through the loops of the nest one by one; the lemmas up to `EvaluateIs` show
  that it ends with the value that all recurrences have in their first
  iterations, in whatever order they are stepped.
- `SpecsAreOfParameters`, `DirectionsStaySound`: `SpecsOK` relates the function made last
  to the loop being described (`LastClone`); directions follow from what alias
  analysis answers, call by call, within the limits `DirectionsSound` states.
- `ReportsItsChanges`. Records and functions of later loops cannot disturb those of
  earlier ones because what was handled comes before what is being handled
  (`ResultsPast`), functions match results except for the loop between `Copy` and
  `Describe` (`ClonesMatch`), and so does the graph (`GraphsMatch`).
- `TameGetsThrough`: the action property `TameNeverStops`, from the same invariants:
  each way in which `Preparation` fails is excluded by conditions of `Tame`, in
  particular the branch of a split by `NestWhole` and, as an exiting block has a
  way on inside of its natural loop, by `LoopOK`.
- `RecordsAsPromised`: `Spec => LR!Spec`. The records are those of the results kept for
  the function (`LoopsCounted`); numbering each kind from 1 is the rank among the
  kept ones, which is what `DataLemmas` has about `Kept`.

The proofs use the assumptions named in `LoopNest`, `LoopShape`, `PayloadTrees`,
`RegionSelection`, `CodeExtractor`, `ArrayReferences` and `LoopCloning`, which the runs
evaluate:

- blocks are disjoint intervals whose terminator is no phi node; branches end
  blocks;
- successors, payload and inner loops are within the loop, and inner loops are
  entered through their headers; a traversal lists the blocks of a loop, sources
  of forward edges first; blocks hold instructions of the kinds that have weights
  (`ContentAssumption`);
- a getelementptr has a base of pointer type; the phi nodes of a first block have a
  value for every edge into it; an induction variable is not of a loop around and
  of a loop inside at once; a reference has no more indices than its array has
  dimensions and fields;
- for `LoopCloning` (`ProgramAssumption`): the strategy is one of the three, reports are
  wanted or not; functions have finitely many blocks; loops are those `LoopInfo`
  finds (`LoopOK`): disjoint or nested, entered at the header only, by some edge,
  connected from there, and with a way on inside from every block; blocks end in
  branches; alias analysis gives calls one of its known effects; arguments have names of their own (`ValuesOK`); starts
  are recurrences of loops of the function (`StartsOK`).

Only model-checked: liveness (`Returns`, `TreesReturn`, `SelectionEnds`, `CloningEnds`), which
the provers cannot reason about with fairness. The counterexamples of the other six
runs are TLC's by nature.

## Not modelled

- Construction of the external analyses (`PDGUtils`, `ITRUtils`): their results are inputs
  of the models.
- The text of reports, the directory they go to, reading the options and the white
  list file, registration of passes: formatting, I/O and declarations. That a
  file or the directory cannot be made is in the model.
- Functions with variable arguments, `moveCodeToFunction`, which nothing calls, and
  `splitReturnBlocks`, which finds nothing to split in the blocks of a loop.
- `TripCount`, which nothing reads. The end of the iteration space, which is
  initialised with its start (`LoopBoundsAnalyzer.cpp:223`), is computed as the code
  computes it; nothing outside of the analyzer reads it either.
- In `LoopCloning` the inputs and outputs of a region are given with its loop, also
  when an earlier loop of the nest had a block split: which phi nodes are inputs
  then is not followed. `CodeExtractor` examines one region and the values in
  it, severed or not, with arguments passed one by one.
- What `ValueMap` does when LLVM replaces a value that is a key of it.
- Whether a value varies with the iterator is what the external
  `DispositionTracker` answers; `LoopCloning` passes it through.

Worth doing next: values of a region after an earlier split, which would join
`CodeExtractor` and `LoopCloning`; a selection in `LoopCloning` that is an instance of
`RegionSelection`; variable arguments and aggregated ones in `CodeExtractor`.
