---------------------------- MODULE CodeExtractor ----------------------------
(***************************************************************************)
(* From selected blocks to a cloned function: the second half of           *)
(* LoopBodyCloner::cloneLoop and the code extractor it uses.  prepare      *)
(* finds the inputs and outputs of the region, relates them, moves the     *)
(* iterator to the front and decides which inputs become local variables;  *)
(* cloneLoop checks the inputs; cloneCodeRegion clones the instructions    *)
(* and replaces what they use from outside.                                *)
(*                                                                         *)
(* A region is given by a function's values and what each of them uses:    *)
(*   body       the instructions of the region, in the order of its blocks *)
(*              when its inputs are found                                  *)
(*   kind, ops  the kind of every value and the values it uses; the        *)
(*              operands of a phi node are its incoming values, a          *)
(*              getelementptr uses its base pointer first, and constants   *)
(*              are left out, except for those that come into the first    *)
(*              block, which count as globals                              *)
(*   ptrs       the values of pointer type                                 *)
(*   ints       the values of integer type                                 *)
(*   eligible   buildExtractionBlockSet accepts the blocks                 *)
(*   outPreds   the number of edges into the first block from outside; the *)
(*              incoming values of its phi nodes start with theirs         *)
(*   known, iters   whether there is iterator information for the loop,    *)
(*              and its values                                             *)
(*   conds      the conditions of the back edges of the loop and the loops *)
(*              inside it                                                  *)
(*   outer, inner, constStart   the induction variables of the loops       *)
(*              around and inside the loop, those with a constant start    *)
(***************************************************************************)
EXTENDS Integers, Sequences, FiniteSets

CONSTANTS
  Values,      \* everything that can be an operand
  Severed(_),  \* the phi node made from a phi node by severSplitPHINodes
  Regions      \* the regions to be cloned

Kinds == {"phi", "gep", "load", "store", "other", "argument", "global"}

RegionRecords ==
  [body : Seq(Values), kind : [Values -> Kinds], ops : [Values -> Seq(Values)],
   ptrs : SUBSET Values, ints : SUBSET Values, eligible : BOOLEAN, outPreds : Nat,
   known : BOOLEAN, iters : SUBSET Values, conds : SUBSET Values,
   outer : SUBSET Values, inner : SUBSET Values, constStart : SUBSET Values]

ASSUME RegionAssumption ==
  /\ Regions \subseteq RegionRecords
  /\ \A v \in Values : Severed(v) \in Values
  /\ \A r \in Regions : \A v \in Values :
        r.kind[v] = "gep" => r.ops[v] # <<>> /\ r.ops[v][1] \in r.ptrs
  /\ \A r \in Regions : r.outer \cap r.inner = {}
  /\ \A r \in Regions : \A n \in DOMAIN r.body :
        (\A i \in 1 .. n : r.kind[r.body[i]] = "phi")
          => r.outPreds <= Len(r.ops[r.body[n]])

VARIABLES
  fn,        \* the region as it was selected
  asserts,   \* the build checks assertions
  body,      \* Blocks: the instructions of the region now
  ops,       \* the operands of all values now
  k, j,      \* the instruction, input or getelementptr being visited; its operand
  inputs,    \* Inputs
  outputs,   \* Outputs
  geps,      \* the getelementptrs of findGlobalInputsOutputs, and those of
  kept,      \* them whose base is a global variable
  ioMap,     \* InputToOutputMap, with the output in place of its index
  oiMap,     \* OutputToInputMap
  allocas,   \* StackAllocas
  inits,     \* StackAllocaInits
  params,    \* the values the parameters of the new function stand for
  bound,     \* what the cloned instructions use in place of a value
  stores,    \* the outputs whose clones are stored in the new exit block
  severed,   \* severSplitPHINodes split the first block
  pc

found == <<inputs, outputs>>
related == <<ioMap, oiMap>>
locals == <<allocas, inits>>
addresses == <<geps, kept>>
code == <<body, ops, severed>>
new == <<params, bound, stores>>
vars == <<fn, asserts, code, k, j, found, addresses, related, locals, new, pc>>

Elems(s) == {s[i] : i \in DOMAIN s}

\* SetVector::insert
Insert(s, v) == IF v \in Elems(s) THEN s ELSE Append(s, v)

IsInstruction(v) == fn.kind[v] \notin {"argument", "global"}
Users(v) == {u \in Values : v \in Elems(ops[u])}

\* Mutant: arguments of the function are not live-ins.
DefinedInCallerAsInstruction(v) == IsInstruction(v) /\ v \notin Elems(body)

DefinedInCaller(v) ==
  fn.kind[v] = "argument" \/ (IsInstruction(v) /\ v \notin Elems(body))

DefinedInRegion(v) == v \in Elems(body)

-----------------------------------------------------------------------------
Init ==
  /\ fn \in Regions
  /\ asserts \in BOOLEAN
  /\ body = IF fn.eligible THEN fn.body ELSE <<>>
  /\ ops = fn.ops
  /\ k = 1 /\ j = 1
  /\ inputs = <<>> /\ outputs = <<>> /\ geps = <<>> /\ kept = <<>>
  /\ ioMap = [v \in {} |-> v] /\ oiMap = [v \in {} |-> v]
  /\ allocas = <<>> /\ inits = <<>>
  /\ params = <<>> /\ bound = [v \in {} |-> v] /\ stores = {}
  /\ severed = FALSE
  /\ pc = "info"

\* cloneLoop reads the iterator information even if there is none: an
\* assertion stops it, or it goes on with an empty record.
TakeIteratorInfo ==
  /\ pc = "info"
  /\ \/ pc' = "scan" /\ (fn.known \/ ~asserts)
     \/ pc' = "abort" /\ ~fn.known
  /\ UNCHANGED <<fn, asserts, code, k, j, found, addresses, related, locals, new>>

\* findInputsOutputs: one operand of one instruction.
ScanOperand ==
  /\ pc = "scan" /\ k <= Len(body) /\ j <= Len(ops[body[k]])
  /\ LET v == ops[body[k]][j]
     IN  inputs' = IF DefinedInCaller(v) THEN Insert(inputs, v) ELSE inputs
  /\ j' = j + 1
  /\ UNCHANGED <<fn, asserts, code, k, outputs, addresses, related, locals, new, pc>>

IsGlobalGep(v) == fn.kind[v] = "gep" /\ fn.kind[ops[v][1]] = "global"

\* The users of the instruction, after its operands; here it is also sorted
\* for findGlobalInputsOutputs, which walks the region once more.
ScanUsers ==
  /\ pc = "scan" /\ k <= Len(body) /\ j > Len(ops[body[k]])
  /\ LET v == body[k]
     IN  /\ outputs' = IF \E u \in Users(v) : ~DefinedInRegion(u)
                       THEN Insert(outputs, v) ELSE outputs
         /\ geps' = IF fn.kind[v] = "gep" THEN Append(geps, v) ELSE geps
         /\ kept' = IF IsGlobalGep(v) THEN Append(kept, v) ELSE kept
  /\ k' = k + 1 /\ j' = 1
  /\ UNCHANGED <<fn, asserts, code, inputs, related, locals, new, pc>>

\* findGlobalInputsOutputs removes the getelementptrs whose base is not a
\* global variable, but erases one element of what std::remove_if leaves, not
\* the rest: the others stay, at the places they had.
EndScan ==
  /\ pc = "scan" /\ k > Len(body)
  /\ geps' = kept \o SubSeq(geps, Len(kept) + 2, Len(geps))
  /\ k' = 1
  /\ pc' = "geps"
  /\ UNCHANGED <<fn, asserts, code, j, found, kept, related, locals, new>>

\* The base of a getelementptr is an output if something is stored through
\* it, and an input if something is loaded.
VisitGep ==
  /\ pc = "geps" /\ k <= Len(geps)
  /\ LET g == geps[k]
         base == ops[g][1]
         UsedBy(kind) == \E u \in Users(g) : fn.kind[u] = kind
     IN  /\ outputs' = IF UsedBy("store") THEN Insert(outputs, base) ELSE outputs
         /\ inputs' = IF g \notin Elems(outputs') /\ UsedBy("load")
                      THEN Insert(inputs, base) ELSE inputs
  /\ k' = k + 1
  /\ UNCHANGED <<fn, asserts, code, j, addresses, related, locals, new, pc>>

EndGeps ==
  /\ pc = "geps" /\ k > Len(geps)
  /\ k' = 1
  /\ pc' = "map"
  /\ UNCHANGED <<fn, asserts, code, j, found, addresses, related, locals, new>>

-----------------------------------------------------------------------------
\* An assignment through operator[] of a map: what is written later wins.
Override(f, g) ==
  [x \in DOMAIN f \cup DOMAIN g |-> IF x \in DOMAIN g THEN g[x] ELSE f[x]]

\* Mutant: every incoming value is taken for an output.
MapIncomingAny ==
  /\ pc = "map" /\ k <= Len(inputs)
  /\ fn.kind[inputs[k]] = "phi" /\ j <= Len(ops[inputs[k]])
  /\ LET v == inputs[k]
         incoming == ops[v][j]
     IN  /\ ioMap' = Override(ioMap, [x \in {v} |-> incoming])
         /\ oiMap' = Override(oiMap, [x \in {incoming} |-> v])
  /\ j' = j + 1
  /\ UNCHANGED <<fn, asserts, code, k, found, addresses, locals, new, pc>>

\* mapInputsOutputs relates an input that is a phi node to the outputs it
\* gets in the next iteration: one incoming value.
MapIncoming ==
  /\ pc = "map" /\ k <= Len(inputs)
  /\ fn.kind[inputs[k]] = "phi" /\ j <= Len(ops[inputs[k]])
  /\ LET v == inputs[k]
         incoming == ops[v][j]
     IN  IF incoming \in Elems(outputs)
         THEN /\ ioMap' = Override(ioMap, [x \in {v} |-> incoming])
              /\ oiMap' = Override(oiMap, [x \in {incoming} |-> v])
         ELSE UNCHANGED related
  /\ j' = j + 1
  /\ UNCHANGED <<fn, asserts, code, k, found, addresses, locals, new, pc>>

MapNext ==
  /\ pc = "map" /\ k <= Len(inputs)
  /\ fn.kind[inputs[k]] # "phi" \/ j > Len(ops[inputs[k]])
  /\ k' = k + 1 /\ j' = 1
  /\ UNCHANGED <<fn, asserts, code, found, addresses, related, locals, new, pc>>

\* An output that is also an input is related to itself.
MapOutputs ==
  /\ pc = "map" /\ k > Len(inputs)
  /\ LET both == Elems(inputs) \cap Elems(outputs)
     IN  /\ ioMap' = Override(ioMap, [x \in both |-> x])
         /\ oiMap' = Override(oiMap, [x \in both |-> x])
  /\ pc' = "reorder"
  /\ UNCHANGED <<fn, asserts, code, k, j, found, addresses, locals, new>>

\* The iterator information of the loop; empty if there is none.
IsIterator(v) == IsInstruction(v) /\ fn.known /\ v \in fn.iters

\* Input i becomes the first one.
MovedToFront(i) ==
  [n \in DOMAIN inputs |->
     IF n = 1 THEN inputs[i] ELSE IF n <= i THEN inputs[n - 1] ELSE inputs[n]]

\* ReorderInputs
ReorderInputs ==
  /\ pc = "reorder"
  /\ IF inputs = <<>>
     THEN UNCHANGED inputs
     ELSE \E i \in DOMAIN inputs :
            /\ IsIterator(inputs[i])
            /\ \A n \in 1 .. i - 1 : ~IsIterator(inputs[n])
            /\ inputs' = MovedToFront(i)
  /\ k' = 1
  /\ pc' = "stack"
  /\ UNCHANGED <<fn, asserts, code, j, outputs, addresses, related, locals, new>>

\* Without an iterator among the inputs, the end of the set is dereferenced
\* and erased.
ReorderNothing ==
  /\ pc = "reorder" /\ inputs # <<>>
  /\ \A i \in DOMAIN inputs : ~IsIterator(inputs[i])
  /\ pc' = "undefined"
  /\ UNCHANGED <<fn, asserts, code, k, j, found, addresses, related, locals, new>>

-----------------------------------------------------------------------------
\* isValueUsedOnlyInLoopNestConditions, over the instructions of the region.
OnlyInConditions(v) ==
  /\ \E c \in fn.conds : v \in Elems(ops[c])
  /\ \A u \in Users(v) : DefinedInRegion(u) => u \in fn.conds

\* The assertions of findStackAllocatable: a value has one role, and the
\* induction variable of an inner loop starts at a constant.
OneRole(v) == OnlyInConditions(v) => v \notin fn.outer \cup fn.inner

StartKnown(v) == v \in fn.inner => v \in fn.constStart

\* Mutant: nothing is recorded for a variable that gets no initial value.
InitsOfValued(v) ==
     (IF v \in fn.outer THEN <<IF v \in fn.constStart THEN "start" ELSE "guess">> ELSE <<>>)
  \o (IF OnlyInConditions(v) THEN <<"bound">> ELSE <<>>)

\* The initial values recorded for input v: none for a variable of an inner
\* loop, the start of a variable of an outer one or a guess, a small bound for
\* a value that only limits loops.
InitsOf(v) ==
     (IF v \in fn.inner THEN <<"unset">> ELSE <<>>)
  \o (IF v \in fn.outer THEN <<IF v \in fn.constStart THEN "start" ELSE "guess">> ELSE <<>>)
  \o (IF OnlyInConditions(v) THEN <<"bound">> ELSE <<>>)

\* ConstantInt::get makes an initial value of the type of v, which has to be
\* an integer type.
HasConstant(v) == v \in fn.outer \/ OnlyInConditions(v) => v \in fn.ints

StackAllocate ==
  /\ pc = "stack" /\ k <= Len(inputs)
  /\ LET v == inputs[k]
     IN  /\ asserts => OneRole(v) /\ StartKnown(v)
         /\ HasConstant(v)
         /\ inits' = inits \o InitsOf(v)
         /\ allocas' = IF v \in fn.inner \cup fn.outer \/ OnlyInConditions(v)
                       THEN Insert(allocas, v) ELSE allocas
  /\ k' = k + 1
  /\ UNCHANGED <<fn, asserts, code, j, found, addresses, related, new, pc>>

\* An assertion fails, here or in the cast of ConstantInt::get; without
\* assertions the cast is undefined.
StackAbort ==
  /\ pc = "stack" /\ k <= Len(inputs)
  /\ \/ asserts /\ (~OneRole(inputs[k]) \/ ~StartKnown(inputs[k]))
     \/ ~HasConstant(inputs[k])
  /\ pc' = IF asserts THEN "abort" ELSE "undefined"
  /\ UNCHANGED <<fn, asserts, code, k, j, found, addresses, related, locals, new>>

EndStack ==
  /\ pc = "stack" /\ k > Len(inputs)
  /\ pc' = "check"
  /\ UNCHANGED <<fn, asserts, code, k, j, found, addresses, related, locals, new>>

Bidirectional(v) == \E x \in DOMAIN oiMap : v \in {x, oiMap[x]}

InputOnly(v) == ~Bidirectional(v) /\ v \notin Elems(allocas)

PureInputs == {v \in Elems(inputs) : InputOnly(v)}

\* Mutant: iterators are counted among all inputs.
IteratorInputsOfAll == {v \in Elems(inputs) : IsIterator(v)}

IteratorInputs == {v \in PureInputs : IsIterator(v)}

\* cloneLoop handles exactly one iterator input, if it knows the iterator.
Check ==
  /\ pc = "check"
  /\ pc' = IF fn.known /\ Cardinality(IteratorInputs) # 1 THEN "declined" ELSE "clone"
  /\ UNCHANGED <<fn, asserts, code, k, j, found, addresses, related, locals, new>>

-----------------------------------------------------------------------------
\* isEligible: the blocks were not accepted.
CloneNothing ==
  /\ pc = "clone" /\ ~fn.eligible
  /\ pc' = "declined"
  /\ UNCHANGED <<fn, asserts, code, k, j, found, addresses, related, locals, new>>

\* The phi nodes at the beginning of the first block are body[1 .. n].
AreHeaderPhis(n) ==
  /\ \A i \in 1 .. n : fn.kind[body[i]] = "phi"
  /\ n < Len(body) => fn.kind[body[n + 1]] # "phi"

KeepHeader ==
  /\ pc = "clone" /\ fn.eligible
  /\ AreHeaderPhis(0) \/ fn.outPreds <= 1
  /\ k' = 1
  /\ pc' = "inputs"
  /\ UNCHANGED <<fn, asserts, code, j, found, addresses, related, locals, new>>

\* severSplitPHINodes: the phi nodes leave the region with the part of the
\* first block they are in.  If the region branches back to it, phi nodes in
\* the new first block take over what comes from inside, and all uses.  (The
\* new first block is the last one of Blocks; no order is needed any more.)
SeverHeader(n) ==
  /\ pc = "clone" /\ fn.eligible /\ fn.outPreds > 1
  /\ n \in 1 .. Len(body) /\ AreHeaderPhis(n)
  /\ LET phis == {body[i] : i \in 1 .. n}
         twins == \E v \in phis : Len(ops[v]) > fn.outPreds
         Of(v) == IF twins /\ v \in phis THEN Severed(v) ELSE v
         Renamed(s) == [i \in DOMAIN s |-> Of(s[i])]
         FromOutside(v) == SubSeq(ops[v], 1, fn.outPreds)
         FromInside(v) == SubSeq(ops[v], fn.outPreds + 1, Len(ops[v]))
         Operands(v) ==
           IF ~twins THEN ops[v]
           ELSE IF v \in phis THEN Renamed(FromOutside(v))
           ELSE IF \E p \in phis : v = Severed(p)
                THEN LET p == CHOOSE p \in phis : v = Severed(p)
                     IN  <<p>> \o Renamed(FromInside(p))
           ELSE Renamed(ops[v])
     IN  /\ body' = (IF twins THEN [i \in 1 .. n |-> Severed(body[i])] ELSE <<>>)
                      \o SubSeq(body, n + 1, Len(body))
         /\ ops' = [v \in Values |-> Operands(v)]
  /\ severed' = TRUE
  /\ k' = 1
  /\ pc' = "inputs"
  /\ UNCHANGED <<fn, asserts, j, found, addresses, related, locals, new>>

\* cloneFunction: a pure input becomes a parameter, and the clones use it.
BindInput ==
  /\ pc = "inputs" /\ k <= Len(inputs)
  /\ IF InputOnly(inputs[k])
     THEN /\ params' = Append(params, inputs[k])
          /\ bound' = Override(bound, [v \in {inputs[k]} |-> [use |-> "parameter", of |-> v]])
     ELSE UNCHANGED <<params, bound>>
  /\ k' = k + 1
  /\ UNCHANGED <<fn, asserts, code, j, found, addresses, related, locals, stores, pc>>

\* The outputs are the parameters behind them.
BindOutputs ==
  /\ pc = "inputs" /\ k > Len(inputs)
  /\ params' = params \o outputs
  /\ pc' = "cells"
  /\ UNCHANGED <<fn, asserts, code, k, j, found, addresses, related, locals, bound, stores>>

\* What a bidirectional input becomes: what its output's parameter points to,
\* or that parameter itself if the output is a pointer.
BidirectionalUse(v) ==
  [use |-> IF ioMap[v] \in fn.ptrs THEN "parameter" ELSE "cell", of |-> ioMap[v]]

BindCells ==
  /\ pc = "cells"
  /\ bound' = Override([v \in {x \in Elems(inputs) : Bidirectional(x)} |-> BidirectionalUse(v)],
                       bound)
  /\ pc' = "locals"
  /\ UNCHANGED <<fn, asserts, code, k, j, found, addresses, related, locals, params, stores>>

\* What is left of the uses of a stack-allocated input becomes a load from
\* its local variable.
BindLocals ==
  /\ pc = "locals"
  /\ bound' = Override([v \in Elems(allocas) |-> [use |-> "local", of |-> v]], bound)
  /\ pc' = "exit"
  /\ UNCHANGED <<fn, asserts, code, k, j, found, addresses, related, locals, params, stores>>

\* Mutant: only outputs that are also inputs are stored.
StoreOutputsThatAreInputs ==
  /\ pc = "exit"
  /\ stores' = (Elems(inputs) \cap Elems(outputs)) \ fn.ptrs
  /\ pc' = "cloned"
  /\ UNCHANGED <<fn, asserts, code, k, j, found, addresses, related, locals, params, bound>>

\* The exit block stores the outputs of bidirectional inputs.
StoreOutputs ==
  /\ pc = "exit"
  /\ stores' = {ioMap[v] : v \in {x \in Elems(inputs) : Bidirectional(x)}} \ fn.ptrs
  /\ pc' = "cloned"
  /\ UNCHANGED <<fn, asserts, code, k, j, found, addresses, related, locals, params, bound>>

Next ==
  \/ TakeIteratorInfo \/ ScanOperand \/ ScanUsers \/ EndScan \/ VisitGep \/ EndGeps
  \/ MapIncoming \/ MapNext \/ MapOutputs \/ ReorderInputs \/ ReorderNothing
  \/ StackAllocate \/ StackAbort \/ EndStack \/ Check
  \/ CloneNothing \/ KeepHeader \/ \E n \in DOMAIN body : SeverHeader(n)
  \/ BindInput \/ BindOutputs \/ BindCells \/ BindLocals \/ StoreOutputs

Spec == Init /\ [][Next]_vars

-----------------------------------------------------------------------------
NoRepetition(s) == \A i, n \in DOMAIN s : s[i] = s[n] => i = n

Uses == [use : {"parameter", "cell", "local"}, of : Values]

CodeTyped ==
  /\ asserts \in BOOLEAN /\ severed \in BOOLEAN
  /\ body \in Seq(Values) /\ ops \in [Values -> Seq(Values)]
  /\ k \in Nat \ {0} /\ j \in Nat \ {0}
  /\ pc \in {"info", "scan", "geps", "map", "reorder", "stack", "check", "clone",
             "inputs", "cells", "locals", "exit", "cloned", "declined", "abort", "undefined"}

FoundTyped ==
  /\ inputs \in Seq(Values) /\ outputs \in Seq(Values)
  /\ NoRepetition(inputs) /\ NoRepetition(outputs)
  /\ geps \in Seq(Values) /\ kept \in Seq(Values)

RelatedTyped ==
  /\ ioMap \in [DOMAIN ioMap -> Elems(outputs)] /\ DOMAIN ioMap \subseteq Elems(inputs)
  /\ oiMap \in [DOMAIN oiMap -> Elems(inputs)] /\ DOMAIN oiMap \subseteq Elems(outputs)

LocalsTyped ==
  /\ allocas \in Seq(Values) /\ Elems(allocas) \subseteq Elems(inputs)
  /\ inits \in Seq({"unset", "start", "guess", "bound"})

NewTyped ==
  /\ params \in Seq(Values)
  /\ bound \in [DOMAIN bound -> Uses] /\ DOMAIN bound \subseteq Elems(inputs)
  /\ stores \subseteq Elems(outputs)

TypeOK == CodeTyped /\ FoundTyped /\ RelatedTyped /\ LocalsTyped /\ NewTyped

\* Operand v of a cloned instruction is replaced or cloned itself, or is a
\* global: the clone uses nothing of the old function.
Resolved(v) == v \in DOMAIN bound \/ v \in Elems(body) \/ fn.kind[v] = "global"

\* After cloneFunction and the remapping, what the clones use and what the
\* exit block stores is in the new function.
CloneClosed ==
  pc = "cloned" =>
    /\ \A i \in DOMAIN body : \A n \in DOMAIN ops[body[i]] : Resolved(ops[body[i]][n])
    /\ stores \subseteq Elems(body)

\* The clone is closed if severSplitPHINodes left the region alone.
ClosedUnlessSevered == ~severed => CloneClosed

\* The incoming values of phi node v that are outputs, by position, in the
\* region as it was selected.
CarriedAt(v) == {i \in DOMAIN fn.ops[v] : fn.ops[v][i] \in Elems(outputs)}

\* Nothing but v takes what comes into phi node v from the region: it is no
\* input, and comes into no other phi node that is one.
CarriedAlone(v) ==
  \A i \in CarriedAt(v) :
    /\ fn.ops[v][i] \notin Elems(inputs)
    /\ \A w \in Elems(inputs) \ {v} : fn.kind[w] = "phi" => fn.ops[v][i] \notin Elems(fn.ops[w])

\* A phi node that gets an output of the region in the next iteration, alone
\* and not by way of an input, is read from the parameter of such an output,
\* whether or not the header is severed in between; and whatever is read from
\* the memory of a parameter when the clone is entered is stored there when it
\* is left, so that a loop of calls carries the value from one iteration to
\* the next.
CarriedThroughMemory ==
  pc = "cloned" =>
    /\ \A v \in Elems(inputs) :
         fn.kind[v] = "phi" /\ CarriedAt(v) # {} /\ v \notin Elems(outputs) /\ CarriedAlone(v)
         => bound[v].use # "local" /\ \E i \in CarriedAt(v) : bound[v].of = fn.ops[v][i]
    /\ \A v \in DOMAIN bound : bound[v].use = "cell" =>
         bound[v].of \in stores /\ bound[v].of \in Elems(outputs) \cap Elems(params)

\* In a build with assertions, the initial values recorded are those of the
\* variables recorded, one each, although cloneFunction pairs them by position.
\* Severing the header leaves both alone, but not what the values are used for.
InitsFollowAllocas ==
  asserts /\ ~severed =>
    /\ Len(inits) = Len(allocas)
    /\ \A i \in DOMAIN allocas : InitsOf(allocas[i]) = <<inits[i]>>

\* If the iterator is known, the clone gets exactly one iterator as an input,
\* and as its first parameter, unless an input that is no parameter of its
\* own was taken for the iterator by ReorderInputs.
OneIteratorFirst ==
  pc = "cloned" /\ fn.known =>
    /\ Cardinality({i \in 1 .. Len(params) - Len(outputs) : IsIterator(params[i])}) = 1
    /\ (\A v \in Elems(inputs) : IsIterator(v) => v \in PureInputs) => IsIterator(params[1])

-----------------------------------------------------------------------------
\* CodeExtractor.hpp: stores to the arguments are inserted for any scalar
\* outputs.
ScalarsStored ==
  pc = "cloned" => Elems(outputs) \ fn.ptrs \subseteq stores

\* The first assertion of findStackAllocatable: no input is both used in
\* conditions only and an induction variable of a loop around.
InputsOfOneRole ==
  pc = "stack" =>
    \A i \in 1 .. Len(inputs) : ~(OnlyInConditions(inputs[i]) /\ inputs[i] \in fn.outer)

\* cloneLoop declines a loop without an input iterator: the build does not get
\* into the undefined before, unless there is one and something else fails.
IteratorlessDeclined ==
  pc = "undefined" => \E i \in DOMAIN inputs : IsIterator(inputs[i])

\* findInputsOutputs: what is used in the region and defined outside is an
\* input; findGlobalInputsOutputs adds globals.  What the region defines itself
\* is cloned, and the caller cannot pass it.
InputsComeFromOutside ==
  ~severed => \A v \in Elems(inputs) : ~DefinedInRegion(v)

\* The new function passes verifyFunction.
CloneVerifies == CloneClosed
=============================================================================
