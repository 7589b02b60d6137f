----------------------------- MODULE LoopCloning -----------------------------
(***************************************************************************)
(* The loop body cloner as a whole: LoopBodyClonerPass::perform takes one  *)
(* function of the module after the other, cloneLoops its loops in         *)
(* preorder, and cloneLoop selects a region of each, asks the loop bounds  *)
(* analyzer about its inputs, has the code extractor clone it, describes   *)
(* the arguments of the clone and leaves a record.                         *)
(*                                                                         *)
(* What earlier loops leave behind for later ones is here: the control     *)
(* flow graph, which severSplitPHINodes changes while LoopInfo goes on     *)
(* describing the graph before, and the results of the analyzer.  The      *)
(* values a region needs and makes are given with its loop; CodeExtractor  *)
(* has how they are found and replaced.                                    *)
(*                                                                         *)
(* A program has functions and options.  A function is                     *)
(*   defined, listed   it has a body; it is on the white list              *)
(*   edges, phis       its control flow graph, the blocks with phi nodes   *)
(*   code              what its blocks do to memory (see ArgumentSpecs)    *)
(*   barred            the blocks isBlockValidForExtraction rejects        *)
(*   loops             in preorder (see LoopBounds), each also with its    *)
(*     known, payload  iterator information: whether there is any, the     *)
(*                     blocks without iterator code                        *)
(*     tree            the payload tree the weighted selector picks        *)
(*     inputs          in the order findInputsOutputs leaves them: values  *)
(*                     with what is asked about them: iterator, carried    *)
(*                     (related to an output), ind (the phi node of a      *)
(*                     header it is), limits (the conditions of back edges *)
(*                     that use it: [loop, block]), elsewhere (it has      *)
(*                     other uses in the region), integer (it is of        *)
(*                     integer type), variant                              *)
(*     outputs         values                                              *)
(* Blocks end in branches, and no block branches twice to the same one.    *)
(***************************************************************************)
EXTENDS LoopBounds, ArgumentSpecs, SequencesExt

CONSTANT Programs

Strategies == {"naive", "itr", "witr"}

Elems(s) == {s[i] : i \in DOMAIN s}

IsSeq(s) == s \in Seq(Elems(s))

\* What LoopInfo guarantees: a loop has one way in, to its header, from which all of
\* it can be reached, and from all of it a way on inside; loops are disjoint or
\* one is in the other, the outer one first.  Code that cannot be reached is left out, and the first block of a
\* function, which nothing branches to, is in no loop.
LoopOK(f, l) ==
  LET L == f.loops[l]
  IN  /\ L.header \in L.blocks /\ L.blocks \subseteq DOMAIN f.code /\ L.tree \subseteq L.blocks
      /\ \A e \in f.edges : e[2] \in L.blocks \ {L.header} => e[1] \in L.blocks
      /\ \E e \in f.edges : e[2] = L.header /\ e[1] \notin L.blocks
      /\ \A b \in L.blocks : \E e \in f.edges : e[1] = b /\ e[2] \in L.blocks
      /\ \A S \in SUBSET L.blocks :
           L.header \in S /\ (\A e \in f.edges : e[1] \in S /\ e[2] \in L.blocks => e[2] \in S)
           => S = L.blocks
      /\ \A m \in DOMAIN f.loops :
           \/ m = l \/ f.loops[m].blocks \cap L.blocks = {}
           \/ m < l /\ L.blocks \subseteq f.loops[m].blocks \ {f.loops[m].header}
           \/ m > l /\ f.loops[m].blocks \subseteq L.blocks \ {L.header}

\* Names tell the values of a region apart.
ValuesOK(L) ==
  /\ IsSeq(L.phis) /\ IsSeq(L.inputs) /\ IsSeq(L.outputs)
  /\ LET values == L.inputs \o L.outputs
     IN  /\ \A i \in DOMAIN values : values[i].name # "" /\ values[i].form \in Forms
         /\ \A i, k \in DOMAIN values : values[i].name = values[k].name => i = k

\* Recurrences of loops of the function.
StartsOK(f, L) ==
  \A k \in DOMAIN L.phis :
     L.phis[k].start \in [known : BOOLEAN, base : Int,
                          recs : Seq([loop : DOMAIN f.loops, step : Int])]

FunctionOK(f) ==
  /\ IsFiniteSet(DOMAIN f.code) /\ DOMAIN f.code \subseteq Nat \ {0}
  /\ \A b \in DOMAIN f.code :
       IsSeq(f.code[b]) /\ \A i \in Elems(f.code[b]) : i.effect \in Effects
  /\ f.edges \subseteq (DOMAIN f.code) \X (DOMAIN f.code) /\ f.phis \subseteq DOMAIN f.code
  /\ IsSeq(f.loops)
  /\ \A l \in DOMAIN f.loops :
       LoopOK(f, l) /\ ValuesOK(f.loops[l]) /\ StartsOK(f, f.loops[l])

ASSUME ProgramAssumption ==
  \A p \in Programs :
     /\ p.strategy \in Strategies
     /\ p.exportResults \in BOOLEAN /\ p.exportFailResults \in BOOLEAN
     /\ IsSeq(p.functions) /\ \A i \in DOMAIN p.functions : FunctionOK(p.functions[i])

VARIABLES
  program,   \* the module and the options
  worklist,  \* the functions left, the current one last
  cfg,       \* the current function: [edges, phis, code, of, rest]; of tells
             \* which block of it a block is a part of, rest which block has
             \* what followed the part in a block that was split
  lba,       \* LoopBoundsAnalyzer: [top, map]
  loop,      \* the loop cloneLoops has reached
  region,    \* [blocks, now, header]: the blocks cloneLoop ordered; Blocks and
             \* header of the code extractor
  clones,    \* the new functions
  results,   \* what cloneLoop returned for each loop
  records,   \* StoreInfo of the current function
  written,   \* the reports
  pc

vars == <<program, worklist, cfg, lba, loop, region, clones, results, records, written, pc>>

cloner == <<program, worklist, loop>>
made == <<clones, results, records, written>>

fn == program.functions[worklist[Len(worklist)]]
cur == fn.loops[loop]

NoRegion == [blocks |-> <<>>, now |-> {}, header |-> 0]

\* A failed assertion, or what comes after it in a build without.
Fails == IF program.asserts THEN "abort" ELSE "undefined"

Exports == program.exportResults \/ program.exportFailResults

\* The functions with a body that the white list, if there is one, names.
WorkList(p) ==
  LET Wanted(f) == p.functions[f].defined /\ (p.whiteList => p.functions[f].listed)
  IN  Kept([f \in DOMAIN p.functions |-> f], {f \in DOMAIN p.functions : Wanted(f)})

Graph(f) ==
  [edges |-> f.edges, phis |-> f.phis, code |-> f.code, of |-> [b \in DOMAIN f.code |-> b],
   rest |-> <<>>]

NoGraph == [edges |-> {}, phis |-> {}, code |-> <<>>, of |-> <<>>, rest |-> <<>>]

-----------------------------------------------------------------------------
Init ==
  /\ program \in Programs
  /\ worklist = WorkList(program)
  /\ cfg = NoGraph /\ lba = Unanalyzed /\ loop = 0 /\ region = NoRegion
  /\ clones = <<>> /\ results = <<>> /\ records = <<>> /\ written = <<>>
  /\ pc = "start"

\* The directory for the reports cannot be made.
ReportsDirectoryMissing ==
  /\ pc = "start" /\ Exports /\ ~program.directory
  /\ pc' = "fatal"
  /\ UNCHANGED <<cloner, cfg, lba, region, made>>

Begin ==
  /\ pc = "start" /\ (Exports => program.directory)
  /\ pc' = "functions"
  /\ UNCHANGED <<cloner, cfg, lba, region, made>>

\* A cloner, a LoopInfo and an analyzer of its own for every function.
TakeFunction ==
  /\ pc = "functions" /\ worklist # <<>>
  /\ cfg' = Graph(fn)
  /\ lba' = Unanalyzed
  /\ records' = <<>>
  /\ loop' = 1
  /\ pc' = "loops"
  /\ UNCHANGED <<program, worklist, region, clones, results, written>>

FinishModule ==
  /\ pc = "functions" /\ worklist = <<>>
  /\ pc' = "done"
  /\ UNCHANGED <<cloner, cfg, lba, region, made>>

\* cloneLoops
Analyze ==
  /\ pc = "loops" /\ loop <= Len(fn.loops)
  /\ lba' = Analyzed(lba, fn.loops, cfg.edges, loop)
  /\ pc' = "select"
  /\ UNCHANGED <<cloner, cfg, region, made>>

EndLoops ==
  /\ pc = "loops" /\ loop > Len(fn.loops)
  /\ pc' = "report"
  /\ UNCHANGED <<cloner, cfg, lba, region, made>>

-----------------------------------------------------------------------------
\* Mutant: the inner loops are left out.
ReachedOutside(l) ==
  LET L == fn.loops[l]
      inner == UNION {fn.loops[m].blocks : m \in {k \in DOMAIN fn.loops : l \in OuterLoops(fn.loops, k)}}
      within[n \in 0 .. Cardinality(L.blocks)] ==
        IF n = 0 THEN {L.header}
        ELSE UNION {{p} \cup {b \in L.blocks \ inner : <<p, b>> \in cfg.edges} : p \in within[n - 1]}
  IN  within[Cardinality(L.blocks)]

\* What the given edges lead to from block h without leaving blocks.
LedTo(blocks, edges, h) ==
  LET within[n \in 0 .. Cardinality(blocks)] ==
        IF n = 0 THEN {h}
        ELSE UNION {{p} \cup {b \in blocks : <<p, b>> \in edges} : p \in within[n - 1]}
  IN  within[Cardinality(blocks)]

\* The blocks of loop l that edges inside of it lead to from its header;
\* LoopInfo says what is inside.
Reached(l) == LedTo(fn.loops[l].blocks, cfg.edges, fn.loops[l].header)

\* Edges to the header of a loop around their source.
IsBackEdge(e) == \E m \in DOMAIN fn.loops : e[2] = fn.loops[m].header /\ e[1] \in fn.loops[m].blocks

\* The orders LoopBlocksRPO may go over the blocks in that it reaches: the header
\* comes first and every other block after one that leads to it; an edge goes
\* against the order if it is a back edge or in a cycle of edges that are none.
Traversals(l) ==
  LET blocks == Reached(l)
      forward == {e \in cfg.edges : ~IsBackEdge(e)}
      ledTo == [b \in blocks |-> LedTo(blocks, forward, b)]
      Ready(s) ==
        {b \in blocks \ Elems(s) :
           /\ IF s = <<>> THEN b = fn.loops[l].header
              ELSE \E p \in Elems(s) : <<p, b>> \in cfg.edges
           /\ \A e \in forward : e[2] = b /\ e[1] \in blocks \ Elems(s) => e[1] \in ledTo[b]}
      orders[n \in 0 .. Cardinality(blocks)] ==
        IF n = 0 THEN {<<>>} ELSE UNION {{Append(s, b) : b \in Ready(s)} : s \in orders[n - 1]}
  IN  orders[Cardinality(blocks)]

Ends(L) == {L.header} \cup LoopLatches(cfg.edges, L)

Headed(b) == {m \in DOMAIN fn.loops : fn.loops[m].header = b}

\* What the itr selector asks of block b, and takes if all of it is payload:
\* an inner loop goes as a whole.
Asked(b) == {b} \cup UNION {fn.loops[m].blocks : m \in Headed(b)}
Taken(b) == {b} \cup UNION {Reached(m) : m \in Headed(b)}

ItrBlocks(order) ==
  LET candidates == {i \in DOMAIN order : order[i] \notin Ends(cur)}
      mixed == {i \in candidates : ~(Asked(order[i]) \subseteq cur.payload)}
  IN  UNION {Taken(order[i]) : i \in {k \in candidates : \A m \in mixed : k < m}}

Selected(order) ==
  CASE program.strategy = "naive" -> cur.blocks \ Ends(cur)
    [] program.strategy = "itr" -> IF cur.known THEN ItrBlocks(order) ELSE {}
    [] program.strategy = "witr" -> IF cur.known THEN cur.tree ELSE {}

\* The weighted selector has no tree to pick: it dereferences the end of an
\* empty map, which may look like an empty tree.
NoTree == program.strategy = "witr" /\ cur.known /\ cur.tree = {}

SelectNothing ==
  /\ pc = "select"
  /\ \E order \in Traversals(loop) : Selected(order) = {}
  /\ pc' = "fail" \/ (NoTree /\ pc' = "undefined")
  /\ UNCHANGED <<cloner, cfg, lba, region, made>>

\* Mutant: the blocks stay as the selector left them, in the order of LoopInfo.
SelectUnordered ==
  /\ pc = "select"
  /\ \E order \in Traversals(loop) :
       /\ Selected(order) # {}
       /\ LET blocks == SetToSortSeq(Selected(order), >)
          IN  region' = [blocks |-> blocks, now |-> Selected(order), header |-> blocks[1]]
  /\ pc' = "calls"
  /\ UNCHANGED <<cloner, cfg, lba, made>>

\* cloneLoop puts the blocks in reverse post order, which loses those the
\* traversal does not get to.
Select ==
  /\ pc = "select"
  /\ \E order \in Traversals(loop) : \E selected \in {Selected(order)} :
       /\ selected # {}
       /\ LET blocks == Kept(order, {k \in DOMAIN order : order[k] \in selected})
          IN  region' = [blocks |-> blocks, now |-> Elems(blocks),
                         header |-> IF blocks = <<>> THEN 0 ELSE blocks[1]]
  /\ pc' = "calls"
  /\ UNCHANGED <<cloner, cfg, lba, made>>

CodeOf(blocks) == FlattenSeq([i \in DOMAIN blocks |-> cfg.code[blocks[i]]])

\* atrox-skip-calls, and the assertions on the iterator information and on the
\* blocks.
SkipCalls ==
  /\ pc = "calls"
  /\ program.skipCalls /\ DetectsCall(CodeOf(region.blocks))
  /\ pc' = "fail"
  /\ UNCHANGED <<cloner, cfg, lba, region, made>>

PassCalls ==
  /\ pc = "calls"
  /\ program.skipCalls => ~DetectsCall(CodeOf(region.blocks))
  /\ pc' = IF ~cur.known THEN Fails
           ELSE IF program.asserts /\ region.blocks = <<>> THEN "abort" ELSE "prepare"
  /\ UNCHANGED <<cloner, cfg, lba, region, made>>

-----------------------------------------------------------------------------
\* buildExtractionBlockSet: all blocks or none.
Eligible == region.blocks # <<>> /\ region.now \cap fn.barred = {}

Inputs == IF Eligible THEN cur.inputs ELSE <<>>
Outputs == IF Eligible THEN cur.outputs ELSE <<>>

IsOuter(v) == IsOuterInduction(lba, fn.loops, v.ind, loop)
IsInner(v) == IsInnerInduction(lba, fn.loops, v.ind, loop)

\* The condition of a back edge is among those isValueUsedInLoopNestConditions
\* finds, or in the region.
Found(c) == c.loop \in ConditionLoops(fn.loops, loop) /\ SingleExiting(cfg.edges, fn.loops[c.loop])

OnlyInConditions(v) ==
  /\ \E c \in v.limits : Found(c)
  /\ ~v.elsewhere
  /\ \A c \in v.limits : c.block \in region.now => Found(c)

\* findStackAllocatable evaluates a copy of the analyzer.
Evaluation == Evaluated(lba, fn.loops, loop, 0, 5)

\* The assertions of findStackAllocatable.
RolesClash(v) ==
  \/ OnlyInConditions(v) /\ (IsOuter(v) \/ IsInner(v))
  \/ IsInner(v) /\ ~ConstantStart(InfoOf(Evaluation, v.ind))

\* ConstantInt::get makes the initial value of a local variable, which has to be
\* of integer type.
NoConstant(v) == (IsOuter(v) \/ OnlyInConditions(v)) /\ ~v.integer

\* How prepare fails: ReorderInputs without an iterator, a nest without an
\* induction variable, the walk over the subloops, the assertions; and, in any
\* build, the condition of an unconditional branch and an integer of another type.
Preparation ==
  IF Inputs # <<>> /\ \A i \in DOMAIN Inputs : ~Inputs[i].iterator THEN "undefined"
  ELSE IF EvaluateFails(lba) THEN Fails
  ELSE IF Inputs = <<>> THEN "check"
  ELSE IF GrowsInWalk(fn.loops, loop) THEN "undefined"
  ELSE IF /\ program.asserts
          /\ \/ \E m \in ConditionLoops(fn.loops, loop) : ~SingleExiting(cfg.edges, fn.loops[m])
             \/ \E i \in DOMAIN Inputs : RolesClash(Inputs[i])
       THEN "abort"
  ELSE IF \/ \E m \in ConditionLoops(fn.loops, loop) :
               SingleExiting(cfg.edges, fn.loops[m]) /\ ~ConditionalExit(cfg.edges, fn.loops[m])
          \/ \E i \in DOMAIN Inputs : NoConstant(Inputs[i])
       THEN Fails
  ELSE "check"

Prepare ==
  /\ pc = "prepare"
  /\ pc' = Preparation
  /\ UNCHANGED <<cloner, cfg, lba, region, made>>

Allocated(v) == IsOuter(v) \/ IsInner(v) \/ OnlyInConditions(v)

\* The local variables of the clone and what they start with.
Locals ==
  LET start(v) == InfoOf(Evaluation, v.ind)
      vs == Elems(Inputs)
  IN  {[of |-> v, init |-> "none", value |-> 0] : v \in {x \in vs : IsInner(x)}}
      \cup {IF ConstantStart(start(v)) THEN [of |-> v, init |-> "start", value |-> start(v).start.base]
            ELSE [of |-> v, init |-> "guess", value |-> 354] : v \in {x \in vs : IsOuter(x)}}
      \cup {[of |-> v, init |-> "limit", value |-> 5] : v \in {x \in vs : OnlyInConditions(x)}}

PureInputs ==
  Kept(Inputs, {i \in DOMAIN Inputs : ~Inputs[i].carried /\ ~Allocated(Inputs[i])})

\* cloneLoop's check of the inputs, and isEligible.
Check ==
  /\ pc = "check"
  /\ LET iterators == {i \in DOMAIN PureInputs : PureInputs[i].iterator}
     IN  pc' = IF Cardinality(iterators) = 1 /\ Eligible THEN "sever" ELSE "fail"
  /\ UNCHANGED <<cloner, cfg, lba, region, made>>

-----------------------------------------------------------------------------
PredsOf(b) == {e[1] : e \in {x \in cfg.edges : x[2] = b}}

\* Phi nodes of the first block merge values from outside of the region.
Merges == region.header \in cfg.phis /\ Cardinality(PredsOf(region.header) \ region.now) > 1

Keep ==
  /\ pc = "sever" /\ ~Merges
  /\ pc' = "copy"
  /\ UNCHANGED <<cloner, cfg, lba, region, made>>

\* Mutant: the ways out of the block stay with its first part.
SplitEntries(b, n, back) ==
  {IF e[2] = b /\ e[1] \in back THEN <<e[1], n>> ELSE e : e \in cfg.edges} \cup {<<b, n>>}

\* The edges after the split of b into b and n: b has those into it that are
\* not from the blocks in back, n those and the ones out of b.
SplitEdges(b, n, back) ==
  LET Source(p) == IF p = b THEN n ELSE p
      Target(e) == IF e[2] = b /\ e[1] \in back THEN n ELSE e[2]
  IN  {<<Source(e[1]), Target(e)>> : e \in cfg.edges} \cup {<<b, n>>}

\* Mutant: the caller goes on with the old first block.
SplitSameHeader(b, n) == [region EXCEPT !.now = (@ \ {b}) \cup {n}]

SplitRegion(b, n) == [region EXCEPT !.now = (@ \ {b}) \cup {n}, !.header = n]

Extended(f, n, v) == [p \in DOMAIN f \cup {n} |-> IF p = n THEN v ELSE f[p]]

\* A block is followed by what is split off it, and that by what was split off
\* before.
SplitRest(b, n) ==
  [p \in DOMAIN cfg.rest \cup {b} \cup (IF b \in DOMAIN cfg.rest THEN {n} ELSE {}) |->
     IF p = b THEN n ELSE IF p = n THEN cfg.rest[b] ELSE cfg.rest[p]]

\* severSplitPHINodes: the phi nodes stay in the block, outside of the region;
\* the rest of it is a new block in the region, which the region branches to
\* in place of the old one.
Sever ==
  /\ pc = "sever" /\ Merges
  /\ LET b == region.header
         n == Max(DOMAIN cfg.code) + 1
         back == PredsOf(b) \cap region.now
     IN  /\ cfg' = [edges |-> SplitEdges(b, n, back),
                    phis |-> IF back = {} THEN cfg.phis ELSE cfg.phis \cup {n},
                    code |-> Extended([cfg.code EXCEPT ![b] = <<>>], n, cfg.code[b]),
                    of |-> Extended(cfg.of, n, cfg.of[b]),
                    rest |-> SplitRest(b, n)]
         /\ region' = SplitRegion(b, n)
  /\ pc' = "copy"
  /\ UNCHANGED <<cloner, lba, made>>

-----------------------------------------------------------------------------
Root == 0
Exit == -1

Inside(b) == b \in region.now

\* The phi nodes of block b have a value for every predecessor; those of the
\* first block get the root for the ones outside.
Incoming(b) ==
  {[of |-> p, from |-> IF b = region.header /\ ~Inside(p) THEN Root ELSE p] : p \in PredsOf(b)}

Passed == PureInputs \o Outputs

Names(values) == [i \in DOMAIN values |-> values[i].name]

\* The arguments of a clone; the fields of the only one have no names.
Params ==
  IF program.aggregate /\ Passed # <<>> THEN <<"">> ELSE Names(Passed)

Clone ==
  [fn |-> Len(worklist), loop |-> loop, blocks |-> region.now, header |-> region.header,
   edges |-> {<<Root, region.header>>}
             \cup {<<e[1], IF Inside(e[2]) THEN e[2] ELSE Exit>> :
                       e \in {x \in cfg.edges : Inside(x[1])}},
   incoming |-> [b \in cfg.phis \cap region.now |-> Incoming(b)],
   params |-> Params, locals |-> Locals]

\* cloneCodeRegion, with cloneFunction: an argument out of range stands for an
\* input that is related to an output if the arguments are in a structure.
Copy ==
  /\ pc = "copy"
  /\ clones' = Append(clones, Clone)
  /\ pc' = IF program.aggregate /\ \E i \in DOMAIN Inputs : Inputs[i].carried THEN "undefined"
           ELSE IF \E b \in region.now : EraserFails(cfg.code[b]) THEN Fails
           ELSE "specs"
  /\ UNCHANGED <<cloner, cfg, lba, region, results, records, written>>

\* GenerateArgDirection: MemoryAccessInfo goes through the blocks it was made
\* with, which are those before a split.
DirectionsOf(values, inputs) ==
  [i \in DOMAIN values |->
     LET code == CodeOf(region.blocks)
     IN  IF i <= inputs THEN InputDirection(values[i], code, program.ignoreAliasing)
         ELSE OutputDirection(values[i], code, program.ignoreAliasing)]

Failures(answers) == {i \in DOMAIN answers : answers[i] \notin Directions}

\* The specifications of values, for a function with arguments params.
SpecsOf(values, answers, params) ==
  [i \in DOMAIN values |->
     [name |-> params[i], direction |-> answers[i], variant |-> values[i].variant]]

Result(cloned) == [fn |-> Len(worklist), loop |-> loop, cloned |-> cloned]

\* Mutant: a loop counts as cloned if there is a record of it.
ResultIfRecorded == Result(program.exportResults)

\* hasChanged, once there is a function.
ResultOfClone == Result(TRUE)

\* Mutant: the specifications are for all inputs, also those that are not
\* passed.
DescribeAllInputs ==
  /\ pc = "specs"
  /\ LET answers == DirectionsOf(Inputs \o Outputs, Len(Inputs))
     IN  records' = Append(records, [loop |-> loop, cloned |-> TRUE,
           specs |-> SpecsOf(Inputs \o Outputs, answers, Names(Inputs \o Outputs))])
  /\ results' = Append(results, ResultOfClone)
  /\ loop' = loop + 1 /\ pc' = "loops"
  /\ UNCHANGED <<program, worklist, cfg, lba, region, clones, written>>

\* The rest of cloneLoop.
Describe ==
  /\ pc = "specs"
  /\ \E answers \in {DirectionsOf(Passed, Len(PureInputs))} :
         /\ Failures(answers) = {}
         /\ program.exportResults => Len(Params) = Len(Passed)
         /\ records' = IF ~program.exportResults THEN records
                       ELSE Append(records, [loop |-> loop, cloned |-> TRUE,
                                             specs |-> SpecsOf(Passed, answers, Params)])
  /\ results' = Append(results, ResultOfClone)
  /\ loop' = loop + 1 /\ pc' = "loops"
  /\ UNCHANGED <<program, worklist, cfg, lba, region, clones, written>>

\* The callee of an indirect call is a null pointer, calls of functions without
\* a useful annotation are said to be unreachable, and the assertion on the
\* number of arguments.
DescribeFails ==
  /\ pc = "specs"
  /\ \E answers \in {DirectionsOf(Passed, Len(PureInputs))} :
       LET failed == Failures(answers)
       IN  /\ failed # {} \/ (program.exportResults /\ Len(Params) # Len(Passed))
           /\ pc' = IF failed # {} /\ answers[Min(failed)] = "null function" THEN "undefined"
                    ELSE Fails
  /\ UNCHANGED <<cloner, cfg, lba, region, made>>

\* Mutant: the loop is tried again.
FailAgain ==
  /\ pc = "fail"
  /\ pc' = "loops"
  /\ UNCHANGED <<cloner, cfg, lba, region, made>>

\* cloneLoops, of a loop that was not cloned.
Fail ==
  /\ pc = "fail"
  /\ results' = Append(results, Result(FALSE))
  /\ records' = IF ~program.exportFailResults THEN records
                ELSE Append(records, [loop |-> loop, cloned |-> FALSE, specs |-> <<>>])
  /\ loop' = loop + 1 /\ pc' = "loops"
  /\ UNCHANGED <<program, worklist, cfg, lba, region, clones, written>>

\* Mutant: one counter for both kinds of reports.
NumberOfAll(k) == k - 1

\* How many records of the same kind come before the k-th.
Number(k) == Cardinality({i \in 1 .. k - 1 : records[i].cloned = records[k].cloned})

\* perform: the records of the function are written, and it is through.
Report ==
  /\ pc = "report" /\ (records = <<>> \/ program.files)
  /\ written' = written \o
       [k \in DOMAIN records |-> [fn |-> Len(worklist), cloned |-> records[k].cloned,
                                 number |-> Number(k), loop |-> records[k].loop]]
  /\ worklist' = Front(worklist)
  /\ pc' = "functions"
  /\ UNCHANGED <<program, loop, cfg, lba, region, clones, results, records>>

\* WriteJSONToFile, for a file that cannot be opened.
ReportFails ==
  /\ pc = "report" /\ records # <<>> /\ ~program.files
  /\ pc' = "fatal"
  /\ UNCHANGED <<cloner, cfg, lba, region, made>>

\* The pass is over, or the program that runs it has stopped.
Stopped == {"done", "fatal", "abort", "undefined"}

Stay == pc \in Stopped /\ UNCHANGED vars

Next ==
  \/ ReportsDirectoryMissing \/ Begin \/ TakeFunction \/ FinishModule
  \/ Analyze \/ EndLoops \/ SelectNothing \/ Select \/ SkipCalls \/ PassCalls
  \/ Prepare \/ Check \/ Keep \/ Sever \/ Copy \/ Describe \/ DescribeFails \/ Fail
  \/ Report \/ ReportFails \/ Stay

\* A single thread that does not stop by itself.
Spec == Init /\ [][Next]_vars /\ WF_pc(Next)

-----------------------------------------------------------------------------
CloningTypeOK ==
  /\ Elems(worklist) \subseteq 1 .. Len(program.functions)
  /\ cfg.edges \subseteq (DOMAIN cfg.code) \X (DOMAIN cfg.code)
  /\ cfg.phis \subseteq DOMAIN cfg.code
  /\ DOMAIN cfg.of = DOMAIN cfg.code /\ DOMAIN cfg.rest \subseteq DOMAIN cfg.code
  /\ pc \in {"select", "calls", "prepare", "check", "sever", "copy", "specs", "fail"}
       => /\ loop \in DOMAIN fn.loops
          /\ lba.top \in DOMAIN fn.loops /\ DOMAIN lba.map \subseteq DOMAIN fn.loops
  /\ pc \in {"check", "sever", "copy", "specs"}
       => /\ region.now \subseteq DOMAIN cfg.code
          /\ region.header \in region.now \/ region.blocks = <<>>
  /\ \A i \in DOMAIN records : /\ records[i].loop \in Nat /\ records[i].cloned \in BOOLEAN
                              /\ \A k \in DOMAIN records[i].specs :
                                   records[i].specs[k].direction \in Directions
  /\ \A i \in DOMAIN results : results[i].cloned \in BOOLEAN
  /\ \A i \in DOMAIN written : written[i].number \in Nat
  /\ pc \in Stopped \cup {"start", "functions", "loops", "select", "calls", "prepare", "check",
                         "sever", "copy", "specs", "fail", "report"}

\* The pass reports what LoopRecords says: each loop of each function once, in
\* order, and for each function what was recorded, numbered without gaps.  A
\* run that stops early has done a part of it (cloneLoops, LoopBodyClonerPass::perform).
LR == INSTANCE LoopRecords WITH
        todo <- [i \in DOMAIN worklist |-> Len(program.functions[worklist[i]].loops)],
        wanted <- [cloned |-> program.exportResults, failed |-> program.exportFailResults]

Recording == LR!Spec

\* Whatever cloning a loop does to the graph the next loops are selected from,
\* the pass comes to an end: the worklist and the loops run out, or an assertion
\* or a fatal error stops it.
CloningEnds == <>(pc \in Stopped)

\* While a function is worked on.
Working == pc \notin {"start", "functions"} \cup Stopped

\* The specifications of a clone are those of its arguments, one by one: the
\* local variables and the inputs passed with an output have none
\* (GenerateArgDirection, cloneFunction).
SpecPerParameter ==
  Working => \A i \in DOMAIN records : records[i].cloned =>
    \E k \in DOMAIN clones :
      /\ clones[k].fn = Len(worklist) /\ clones[k].loop = records[i].loop
      /\ clones[k].params = Names(records[i].specs)
      /\ \A local \in clones[k].locals : local.of.name \notin Elems(clones[k].params)

WritesThrough(i, v) == "mod" \in ModRef(i, v.to)

\* An access that does not write, or one of a call that gets the pointer.
ReadsThrough(i, v) ==
  \/ ModRef(i, v.to) = {"ref"}
  \/ IsCall(i) /\ v.name \in i.args /\ "ref" \in ModRef(i, v.to)

\* The pointers whose direction does not depend on what they were loaded from or
\* on what the cloner does not know.
Judged(v) ==
  v.form = "pointer" \/ (v.form \in {"argument", "global"} /\ program.ignoreAliasing)

\* A computed pointer, or with atrox-ignore-aliasing also an argument or a global,
\* that gets a direction is not called inbound if the code MemoryAccessInfo goes
\* through may write through it; and it is called both if that code also reads
\* through it without writing, or in a call it is passed to.  Nothing is said of
\* loaded pointers, of arguments and globals without the option, of a call that
\* reads and writes what another pointer gives it, and of code that was split off
\* the first block before: for those it may not be so (GenerateArgDirection).
DirectionsSound ==
  pc = "specs" =>
    LET code == CodeOf(region.blocks)
        answers == DirectionsOf(Passed, Len(PureInputs))
    IN  \A i \in DOMAIN PureInputs :
          /\ Judged(PureInputs[i]) /\ answers[i] \in Directions
          /\ \E k \in DOMAIN code : WritesThrough(code[k], PureInputs[i])
          => /\ answers[i] # "Inbound"
             /\ (\E k \in DOMAIN code : ReadsThrough(code[k], PureInputs[i])) => answers[i] = "Both"

-----------------------------------------------------------------------------
\* No block of the loop nest around the current loop has been split.
NestWhole ==
  \A p \in DOMAIN cfg.rest : cfg.of[p] \notin fn.loops[TopOf(fn.loops, loop)].blocks

\* The blocks that end as the block they are a part of does.
LastParts == DOMAIN cfg.code \ DOMAIN cfg.rest

\* The function the loops are cloned from goes on taking the paths it took: with
\* the parts of a split block put together its graph is the original one; the
\* last part has what the block does to memory; and from another there is no way
\* but to the next part, which gets to the last (severSplitPHINodes).
OriginalGraphKept ==
  Working =>
    /\ fn.edges = {<<cfg.of[e[1]], cfg.of[e[2]]>> : e \in {x \in cfg.edges : x[1] \in LastParts}}
    /\ \A b \in DOMAIN fn.code :
         \E p \in LastParts : {q \in LastParts : cfg.of[q] = b} = {p} /\ cfg.code[p] = fn.code[b]
    /\ \A p \in DOMAIN cfg.rest :
         /\ {e \in cfg.edges : e[1] = p} = {<<p, cfg.rest[p]>>}
         /\ cfg.of[cfg.rest[p]] = cfg.of[p] /\ cfg.code[p] = <<>>
    /\ \A parts \in SUBSET DOMAIN cfg.rest :
         parts # {} => \E p \in parts : cfg.rest[p] \notin parts

\* The blocks of the region that edges from outside lead to.
Entries == {b \in region.now : ~(PredsOf(b) \subseteq region.now)}

\* A clone of a region with one entry is a function of its own: every block of
\* it can be reached, the phi nodes have a value for each way into their block
\* and none for another (cloneCodeRegion, cloneFunction).
CloneGraphSound ==
  pc = "copy" /\ Cardinality(Entries) = 1 =>
    LET c == Clone
        Preds(b) == {e[1] : e \in {x \in c.edges : x[2] = b}}
        within[n \in 0 .. Cardinality(c.blocks)] ==
          IF n = 0 THEN {c.header}
          ELSE UNION {{p} \cup {b \in c.blocks : p \in Preds(b)} : p \in within[n - 1]}
    IN  /\ c.blocks = within[Cardinality(c.blocks)]
        /\ \A b \in DOMAIN c.incoming :
             /\ {v.from : v \in c.incoming[b]} = Preds(b)
             /\ Cardinality(c.incoming[b]) = Cardinality(Preds(b))

\* Putting the selected blocks in order loses none of them, unless an earlier
\* loop of the nest had its region split (LoopBlocksRPO in cloneLoop).
RegionsComplete ==
  pc = "calls" /\ NestWhole /\ program.strategy # "itr" => region.now = Selected(region.blocks)

-----------------------------------------------------------------------------
\* What the analyzer answers is about the nest the loop is in, and as if it had
\* just been analyzed: neither evaluating a copy for an earlier loop of the nest
\* nor the results for another nest show (LoopBoundsAnalyzer::analyze).
BoundsFresh ==
  pc \in {"select", "prepare", "copy"} /\ NestWhole =>
    lba = Analyzed(Unanalyzed, fn.loops, fn.edges, loop)

\* The variables of the loops around the region start, in the clone, with the
\* value they have in the first iteration, if that is a known number and its
\* recurrences are of one loop at most (findStackAllocatable, evaluate).
StartsFixed ==
  pc = "copy" =>
    \A x \in Locals : x.init \in {"start", "guess"} =>
      LET start == InfoOf(lba, x.of.ind).start
      IN  start.known /\ Len(start.recs) <= 1 => x.init = "start" /\ x.value = start.base

\* Input v is not both a limit and the variable of another loop of the nest, the
\* variable of a loop inside starts at a number, and what needs a number to start
\* with is an integer.
TameInput(v) ==
  LET around == v.ind # NoValue /\ v.ind[1] \in OuterLoops(fn.loops, loop)
      inside == v.ind # NoValue /\ loop \in OuterLoops(fn.loops, v.ind[1])
      limit == v.limits # {} /\ ~v.elsewhere
      start == fn.loops[v.ind[1]].phis[v.ind[2]].start
  IN  /\ around \/ inside => ~limit
      /\ inside => start.known /\ start.recs = <<>>
      /\ around \/ limit => v.integer

\* What prepare and the analyzer ask for, in terms of the function: loops with
\* one exiting block, at most two deep, with an induction variable in those inside,
\* none of them split for an earlier loop; an iterator among the inputs, and
\* inputs that fit.
Tame ==
  /\ NestWhole
  /\ LET nest == NestOf(fn.loops, TopOf(fn.loops, loop))
     IN  /\ \A m \in nest : SingleExiting(fn.edges, fn.loops[m])
         /\ \A m \in nest \ {TopOf(fn.loops, loop)} :
              OuterLoops(fn.loops, m) = {TopOf(fn.loops, loop)}
              /\ GetInductionVariable(fn.edges, fn.loops[m]) # 0
  /\ \E i \in DOMAIN cur.inputs : cur.inputs[i].iterator
  /\ \A i \in DOMAIN cur.inputs : TameInput(cur.inputs[i])

\* The conditions above are enough: with them prepare gets to the check of the
\* inputs, in every build, whatever was done to the function for earlier loops
\* outside the nest.  Some nests get there without them
\* (CodeExtractor::prepare, isValueUsedInLoopNestConditions, evaluate).
TameNeverStops ==
  [][pc = "prepare" /\ Eligible /\ Tame => pc' = "check"]_vars

Key(x) == <<x.fn, x.loop>>

Keys(xs) == {Key(x) : x \in xs}

Reported == {r \in Elems(results) : r.cloned}

\* Functions appear in the module, one each, and graphs are changed, just for
\* the loops the pass reports as cloned: what it tells the pass manager to keep
\* depends on that (cloneLoop, cloneLoops, perform).
ChangesReported ==
  /\ pc \in {"functions", "loops", "report", "done"} =>
       /\ Keys(Elems(clones)) = Keys(Reported)
       /\ \A i, k \in DOMAIN clones : Key(clones[i]) = Key(clones[k]) => i = k
  /\ pc \in {"loops", "report"} /\ cfg.edges # fn.edges =>
       \E r \in Reported : r.fn = Len(worklist)
=============================================================================
