---------------------- MODULE ExtractorArguments_proofs ----------------------
(***************************************************************************)
(* For every region: initial values and local variables are recorded in    *)
(* step, a clone has one iterator among its inputs, as its first parameter *)
(* unless ReorderInputs found another one, and what the next iteration     *)
(* gets goes through the memory of parameters.                             *)
(***************************************************************************)
EXTENDS CodeExtractor_proofs, FiniteSetTheorems

-----------------------------------------------------------------------------
(* Initial values and local variables *)

Before == {"info", "scan", "geps", "map", "reorder"}

Recording ==
  /\ pc \in Before => allocas = <<>> /\ inits = <<>>
  /\ pc = "stack" => \A v \in Elems(allocas) : \E i \in DOMAIN inputs : i < k /\ inputs[i] = v

Stacking == Typed /\ Recording /\ InitsFollowAllocas

HasRole(v) == v \in fn.inner \cup fn.outer \/ OnlyInConditions(v)

\* An input of one role has one initial value.
LEMMA OneInit ==
  ASSUME fn \in Regions, NEW v, OneRole(v)
  PROVE  /\ HasRole(v) => \E x : InitsOf(v) = <<x>>
         /\ ~HasRole(v) => InitsOf(v) = <<>>
<1>1. fn.outer \cap fn.inner = {}
  BY RegionAssumption
<1>2. CASE v \in fn.inner
  <2>1. v \notin fn.outer /\ ~OnlyInConditions(v)
    BY <1>1, <1>2 DEF OneRole
  <2>2. InitsOf(v) = (<<"unset">> \o <<>>) \o <<>>
    BY <1>2, <2>1 DEF InitsOf
  <2>3. InitsOf(v) = <<"unset">>
    BY <2>2
  <2> QED
    BY <1>2, <2>3 DEF HasRole
<1>3. CASE v \in fn.outer
  <2>1. v \notin fn.inner /\ ~OnlyInConditions(v)
    BY <1>1, <1>3 DEF OneRole
  <2> DEFINE x == IF v \in fn.constStart THEN "start" ELSE "guess"
  <2>2. InitsOf(v) = (<<>> \o <<x>>) \o <<>>
    BY <1>3, <2>1 DEF InitsOf
  <2> HIDE DEF x
  <2>3. InitsOf(v) = <<x>>
    BY <2>2
  <2> QED
    BY <1>3, <2>3 DEF HasRole
<1>4. CASE v \notin fn.inner \cup fn.outer /\ OnlyInConditions(v)
  <2>1. InitsOf(v) = (<<>> \o <<>>) \o <<"bound">>
    BY <1>4 DEF InitsOf
  <2>2. InitsOf(v) = <<"bound">>
    BY <2>1
  <2> QED
    BY <1>4, <2>2 DEF HasRole
<1>5. CASE v \notin fn.inner \cup fn.outer /\ ~OnlyInConditions(v)
  <2>1. InitsOf(v) = (<<>> \o <<>>) \o <<>>
    BY <1>5 DEF InitsOf
  <2>2. InitsOf(v) = <<>>
    BY <2>1
  <2> QED
    BY <1>5, <2>2 DEF HasRole
<1> QED
  BY <1>2, <1>3, <1>4, <1>5

\* The initial values of an input depend on the region as it is.
LEMMA SameInits ==
  ASSUME fn' = fn, UNCHANGED code, NEW v
  PROVE  InitsOf(v)' = InitsOf(v)
<1>1. body' = body /\ ops' = ops
  BY Same
<1>2. Users(v)' = Users(v)
  BY <1>1 DEF Users, Elems
<1>3. OnlyInConditions(v)' <=> OnlyInConditions(v)
  BY <1>1, <1>2 DEF OnlyInConditions, DefinedInRegion, Elems
<1> QED
  BY <1>3 DEF InitsOf

LEMMA RecordedOnce ==
  ASSUME [Next]_vars, ~StackAllocate
  PROVE  /\ UNCHANGED locals /\ fn' = fn /\ asserts' = asserts
         /\ UNCHANGED code \/ severed'
         /\ pc' \in Before => pc \in Before
         /\ pc' = "stack" => pc \in Before \/ UNCHANGED <<found, k, pc>>
<1>1. CASE UNCHANGED vars
  BY <1>1 DEF vars
<1>2. CASE TakeIteratorInfo \/ ScanOperand \/ ScanUsers \/ EndScan \/ VisitGep \/ EndGeps
  BY <1>2 DEF TakeIteratorInfo, ScanOperand, ScanUsers, EndScan, VisitGep, EndGeps, Before
<1>3. CASE MapIncoming \/ MapNext \/ MapOutputs \/ ReorderInputs \/ ReorderNothing
  BY <1>3 DEF MapIncoming, MapNext, MapOutputs, ReorderInputs, ReorderNothing, Before
<1>4. CASE StackAbort \/ EndStack \/ Check \/ CloneNothing \/ KeepHeader
  BY <1>4 DEF StackAbort, EndStack, Check, CloneNothing, KeepHeader, Before
<1>5. ASSUME NEW n \in DOMAIN body, SeverHeader(n)
      PROVE  UNCHANGED locals /\ fn' = fn /\ asserts' = asserts /\ severed' /\ pc' = "inputs"
  BY <1>5 DEF SeverHeader
<1>6. CASE BindInput \/ BindOutputs \/ BindCells \/ BindLocals \/ StoreOutputs
  BY <1>6 DEF BindInput, BindOutputs, BindCells, BindLocals, StoreOutputs, Before
<1>7. ASSUME NEW n \in DOMAIN body, SeverHeader(n)
      PROVE  /\ UNCHANGED locals /\ fn' = fn /\ asserts' = asserts
             /\ UNCHANGED code \/ severed'
             /\ pc' \in Before => pc \in Before
             /\ pc' = "stack" => pc \in Before \/ UNCHANGED <<found, k, pc>>
  BY <1>7, <1>5 DEF Before
<1> QED
  BY <1>1, <1>2, <1>3, <1>4, <1>6, <1>7, Zenon DEF Next

LEMMA StackingStep ==
  ASSUME Stacking, [Next]_vars
  PROVE  Stacking'
<1>0. Typed'
  BY TypedStep DEF Stacking
<1>1. CASE ~StackAllocate
  <2>1. /\ allocas' = allocas /\ inits' = inits /\ fn' = fn /\ asserts' = asserts
        /\ UNCHANGED code \/ severed'
        /\ pc' \in Before => pc \in Before
        /\ pc' = "stack" => pc \in Before \/ UNCHANGED <<found, k, pc>>
    BY <1>1, RecordedOnce, Same
  <2>2. Recording'
    <3>1. pc' \in Before => allocas' = <<>> /\ inits' = <<>>
      BY <2>1 DEF Stacking, Recording
    <3>2. ASSUME pc' = "stack"
          PROVE  (\A v \in Elems(allocas) : \E i \in DOMAIN inputs : i < k /\ inputs[i] = v)'
      <4>1. CASE pc \in Before
        <5>1. allocas' = <<>>
          BY <2>1, <4>1 DEF Stacking, Recording
        <5> QED
          BY <5>1 DEF Elems
      <4>2. CASE UNCHANGED <<found, k, pc>>
        BY <2>1, <3>2, <4>2, Same DEF Stacking, Recording, Elems
      <4> QED
        BY <2>1, <3>2, <4>1, <4>2
    <3> QED
      BY <3>1, <3>2 DEF Recording
  <2>3. InitsFollowAllocas'
    <3> SUFFICES ASSUME asserts', ~severed'
                 PROVE  (/\ Len(inits) = Len(allocas)
                         /\ \A i \in DOMAIN allocas : InitsOf(allocas[i]) = <<inits[i]>>)'
      BY DEF InitsFollowAllocas
    <3>1. UNCHANGED code /\ ~severed /\ asserts
      BY <2>1, Same
    <3>2. \A v : InitsOf(v)' = InitsOf(v)
      BY <2>1, <3>1, SameInits
    <3> QED
      BY <2>1, <3>1, <3>2 DEF Stacking, InitsFollowAllocas
  <2> QED
    BY <1>0, <2>2, <2>3 DEF Stacking
<1>2. CASE StackAllocate
  <2> DEFINE v == inputs[k]
  <2>1. /\ pc = "stack" /\ pc' = pc /\ k <= Len(inputs) /\ k' = k + 1 /\ fn' = fn /\ asserts' = asserts
        /\ inits' = inits \o InitsOf(v)
        /\ allocas' = IF HasRole(v) THEN Insert(allocas, v) ELSE allocas
        /\ asserts => OneRole(v)
        /\ UNCHANGED <<found, code>>
    BY <1>2 DEF StackAllocate, HasRole
  <2>2. /\ inputs \in Seq(Values) /\ NoRepetition(inputs) /\ k \in Nat \ {0}
        /\ allocas \in Seq(Values) /\ inits \in Seq({"unset", "start", "guess", "bound"})
    BY DEF Stacking, Typed, TypeOK, FoundTyped, CodeTyped, LocalsTyped
  <2>3. k \in DOMAIN inputs /\ v \in Values
    BY <2>1, <2>2
  <2>4. v \notin Elems(allocas)
    BY <2>1, <2>2, <2>3 DEF Stacking, Recording, NoRepetition
  <2>5. Insert(allocas, v) = Append(allocas, v)
    BY <2>4 DEF Insert
  <2>6. Recording'
    <3>1. Elems(allocas') \subseteq Elems(allocas) \cup {v}
      BY <2>1, <2>2, <2>3, InsertElems
    <3>2. inputs' = inputs
      BY <2>1, Same
    <3>3. \A w \in Elems(allocas) : \E i \in DOMAIN inputs : i < k + 1 /\ inputs[i] = w
      BY <2>1, <2>2 DEF Stacking, Recording
    <3>4. \E i \in DOMAIN inputs : i < k + 1 /\ inputs[i] = v
      BY <2>2, <2>3
    <3>5. \A w \in Elems(allocas') : \E i \in DOMAIN inputs : i < k + 1 /\ inputs[i] = w
      BY <3>1, <3>3, <3>4
    <3> QED
      BY <2>1, <3>2, <3>5 DEF Recording, Before, Elems
  <2>7. InitsFollowAllocas'
    <3> SUFFICES ASSUME asserts', ~severed'
                 PROVE  (/\ Len(inits) = Len(allocas)
                         /\ \A i \in DOMAIN allocas : InitsOf(allocas[i]) = <<inits[i]>>)'
      BY DEF InitsFollowAllocas
    <3>1. ~severed /\ asserts /\ \A w : InitsOf(w)' = InitsOf(w)
      BY <2>1, SameInits, Same
    <3>2. Len(inits) = Len(allocas) /\ \A i \in DOMAIN allocas : InitsOf(allocas[i]) = <<inits[i]>>
      BY <3>1 DEF Stacking, InitsFollowAllocas
    <3>3. fn \in Regions
      BY DEF Stacking, Typed, Known
    <3> HIDE DEF v
    <3>4. CASE ~HasRole(v)
      <4>1. InitsOf(v) = <<>>
        BY <2>1, <3>1, <3>3, <3>4, OneInit
      <4>2. inits \o <<>> = inits
        BY <2>2
      <4>3. inits' = inits /\ allocas' = allocas
        BY <2>1, <3>4, <4>1, <4>2 DEF v
      <4> QED
        BY <3>1, <3>2, <4>3
    <3>5. CASE HasRole(v)
      <4>1. PICK x : InitsOf(v) = <<x>>
        BY <2>1, <3>1, <3>3, <3>5, OneInit
      <4>2. x \in {"unset", "start", "guess", "bound"}
        <5>1. <<x>> \in Seq({"unset", "start", "guess", "bound"})
          BY <4>1, InitsOfType
        <5> QED
          BY <5>1
      <4>3. inits' = inits \o <<x>> /\ allocas' = Append(allocas, v)
        BY <2>1, <2>5, <3>5, <4>1 DEF v
      <4>4. /\ Len(inits') = Len(inits) + 1 /\ inits'[Len(inits) + 1] = x
            /\ \A i \in 1 .. Len(inits) : inits'[i] = inits[i]
        BY <2>2, <4>2, <4>3
      <4>5. /\ Len(allocas') = Len(allocas) + 1 /\ allocas'[Len(allocas) + 1] = v
            /\ DOMAIN allocas' = 1 .. Len(allocas) + 1 /\ DOMAIN allocas = 1 .. Len(allocas)
            /\ \A i \in 1 .. Len(allocas) : allocas'[i] = allocas[i]
            /\ Len(allocas) \in Nat
        BY <2>2, <2>3, <4>3 DEF v
      <4>6. ASSUME NEW i \in DOMAIN allocas'
            PROVE  InitsOf(allocas'[i]) = <<inits'[i]>>
        <5>1. CASE i = Len(allocas) + 1
          BY <3>2, <4>1, <4>4, <4>5, <5>1
        <5>2. CASE i # Len(allocas) + 1
          <6>1. i \in 1 .. Len(allocas)
            BY <4>5, <5>2
          <6> QED
            BY <3>2, <4>4, <4>5, <6>1
        <5> QED
          BY <5>1, <5>2
      <4> QED
        BY <3>1, <3>2, <4>4, <4>5, <4>6
    <3> QED
      BY <3>4, <3>5
  <2> QED
    BY <1>0, <2>6, <2>7 DEF Stacking
<1> QED
  BY <1>1, <1>2

\* InitsFollowAllocas: although StackAllocas is a set and StackAllocaInits a
\* list, and cloneFunction pairs them by position, the assertions of
\* findStackAllocatable keep them in step.
THEOREM InitsStayInStep == Spec => []InitsFollowAllocas
<1>1. Init => Stacking
  BY InitTyped DEF Init, Stacking, Recording, InitsFollowAllocas, Before
<1>2. Stacking /\ [Next]_vars => Stacking'
  BY StackingStep
<1>3. Stacking => InitsFollowAllocas
  BY DEF Stacking
<1> QED
  BY <1>1, <1>2, <1>3, PTL DEF Spec

-----------------------------------------------------------------------------
(* The parameters of the clone *)

Reordered == {"stack", "check", "clone"} \cup Started

\* The parameters that stand for the first n - 1 inputs.
Own(s, n) ==
  /\ NoRepetition(s)
  /\ Elems(s) = {inputs[i] : i \in {m \in DOMAIN inputs : m < n /\ InputOnly(inputs[m])}}
  /\ n > 1 /\ inputs # <<>> /\ InputOnly(inputs[1]) => s # <<>> /\ s[1] = inputs[1]

Checked ==
  /\ pc \in Reordered /\ inputs # <<>> => IsIterator(inputs[1])
  /\ pc \in {"clone"} \cup Started /\ fn.known => Cardinality(IteratorInputs) = 1

Passing ==
  /\ pc \notin Started => params = <<>>
  /\ pc = "inputs" => Own(params, k)
  /\ pc \in Started \ {"inputs"} =>
       \E own \in Seq(Values) : params = own \o outputs /\ Own(own, Len(inputs) + 1)

Naming == Typed /\ Checked /\ Passing

\* What the check and the parameters depend on stays the same after the inputs
\* were reordered.
LEMMA SameInputs ==
  ASSUME fn' = fn, UNCHANGED <<found, related, locals>>
  PROVE  /\ Cardinality(IteratorInputs)' = Cardinality(IteratorInputs)
         /\ \A v : IsIterator(v)' <=> IsIterator(v)
         /\ \A s, n : Own(s, n)' <=> Own(s, n)
<1>1. inputs' = inputs /\ outputs' = outputs /\ oiMap' = oiMap /\ allocas' = allocas
  BY Same
<1>2. \A v : IsIterator(v)' <=> IsIterator(v)
  BY DEF IsIterator, IsInstruction
<1>3. \A v : InputOnly(v)' <=> InputOnly(v)
  BY <1>1 DEF InputOnly, Bidirectional, Elems
<1>4. PureInputs' = PureInputs
  BY <1>1, <1>3 DEF PureInputs, Elems
<1>5. IteratorInputs' = IteratorInputs
  BY <1>2, <1>4 DEF IteratorInputs
<1>6. \A s, n : Own(s, n)' <=> Own(s, n)
  BY <1>1, <1>3 DEF Own, NoRepetition, Elems
<1> QED
  BY <1>2, <1>5, <1>6

LEMMA CheckedStep ==
  ASSUME Typed, Checked, [Next]_vars
  PROVE  Checked'
<1>1. CASE UNCHANGED vars
  <2>1. fn' = fn /\ pc' = pc /\ UNCHANGED <<found, related, locals>>
    BY <1>1 DEF vars
  <2> QED
    BY <2>1, SameInputs, Same DEF Checked
<1>2. CASE TakeIteratorInfo \/ ScanOperand \/ ScanUsers \/ EndScan \/ VisitGep \/ EndGeps
  <2>1. pc' \notin Reordered
    BY <1>2 DEF TakeIteratorInfo, ScanOperand, ScanUsers, EndScan, VisitGep, EndGeps,
                Reordered, Started
  <2> QED
    BY <2>1 DEF Checked, Reordered
<1>3. CASE MapIncoming \/ MapNext \/ MapOutputs \/ ReorderNothing \/ StackAbort \/ CloneNothing
  <2>1. pc' \notin Reordered
    BY <1>3 DEF MapIncoming, MapNext, MapOutputs, ReorderNothing, StackAbort, CloneNothing,
                Reordered, Started
  <2> QED
    BY <2>1 DEF Checked, Reordered
<1>4. CASE ReorderInputs
  <2>1. pc' = "stack" /\ fn' = fn
    BY <1>4 DEF ReorderInputs
  <2>2. ASSUME inputs' # <<>>
        PROVE  IsIterator(inputs'[1])
    <3>1. PICK i \in DOMAIN inputs : IsIterator(inputs[i]) /\ inputs' = MovedToFront(i)
      BY <1>4, <2>2 DEF ReorderInputs
    <3>2. 1 \in DOMAIN inputs
      BY <3>1 DEF Typed, TypeOK, FoundTyped
    <3>3. inputs'[1] = inputs[i]
      BY <3>1, <3>2 DEF MovedToFront
    <3> QED
      BY <3>1, <3>3
  <2>3. inputs' # <<>> => IsIterator(inputs[1])'
    BY <2>1, <2>2 DEF IsIterator, IsInstruction
  <2> QED
    BY <2>1, <2>3 DEF Checked, Started
<1>5. CASE StackAllocate \/ EndStack
  <2>1. pc = "stack" /\ pc' \in {"stack", "check"} /\ fn' = fn /\ inputs' = inputs
    BY <1>5, Same DEF StackAllocate, EndStack
  <2>2. inputs' # <<>> => IsIterator(inputs[1])'
    BY <2>1 DEF Checked, Reordered, IsIterator, IsInstruction
  <2> QED
    BY <2>1, <2>2 DEF Checked, Started
<1>6. CASE Check
  <2>1. /\ pc = "check" /\ pc' \in {"declined", "clone"} /\ fn' = fn
        /\ pc' = "clone" /\ fn.known => Cardinality(IteratorInputs) = 1
        /\ UNCHANGED <<found, related, locals>>
    BY <1>6 DEF Check
  <2> QED
    BY <2>1, SameInputs, Same DEF Checked, Started, Reordered
<1>7. CASE KeepHeader \/ \E n \in DOMAIN body : SeverHeader(n)
  <2>1. pc = "clone" /\ pc' = "inputs" /\ fn' = fn /\ UNCHANGED <<found, related, locals>>
    BY <1>7 DEF KeepHeader, SeverHeader
  <2> QED
    BY <2>1, SameInputs, Same DEF Checked, Started, Reordered
<1>8. CASE BindInput \/ BindOutputs \/ BindCells \/ BindLocals \/ StoreOutputs
  <2>1. pc \in Started /\ pc' \in Started /\ fn' = fn /\ UNCHANGED <<found, related, locals>>
    BY <1>8 DEF BindInput, BindOutputs, BindCells, BindLocals, StoreOutputs, Started
  <2> QED
    BY <2>1, SameInputs, Same DEF Checked, Reordered
<1> QED
  BY <1>1, <1>2, <1>3, <1>4, <1>5, <1>6, <1>7, <1>8, Zenon DEF Next

LEMMA PassingStep ==
  ASSUME Typed, Passing, [Next]_vars
  PROVE  Passing'
<1>1. CASE UNCHANGED vars
  <2>1. /\ fn' = fn /\ pc' = pc /\ k' = k /\ params' = params
        /\ UNCHANGED <<found, related, locals>>
    BY <1>1, Same DEF vars
  <2> QED
    BY <2>1, SameInputs, Same DEF Passing
<1>2. CASE TakeIteratorInfo \/ ScanOperand \/ ScanUsers \/ EndScan \/ VisitGep \/ EndGeps
  <2>1. pc \notin Started /\ pc' \notin Started /\ params' = params
    BY <1>2, Same DEF TakeIteratorInfo, ScanOperand, ScanUsers, EndScan, VisitGep, EndGeps,
                Started
  <2> QED
    BY <2>1 DEF Passing, Started
<1>3. CASE \/ MapIncoming \/ MapNext \/ MapOutputs \/ ReorderInputs \/ ReorderNothing
           \/ StackAllocate \/ StackAbort \/ EndStack \/ Check \/ CloneNothing
  <2>1. pc \notin Started /\ pc' \notin Started /\ params' = params
    BY <1>3, Same DEF MapIncoming, MapNext, MapOutputs, ReorderInputs, ReorderNothing,
       StackAllocate, StackAbort, EndStack, Check, CloneNothing, Started
  <2> QED
    BY <2>1 DEF Passing, Started
<1>4. CASE KeepHeader \/ \E n \in DOMAIN body : SeverHeader(n)
  <2>1. pc = "clone" /\ pc' = "inputs" /\ k' = 1 /\ params' = params
    BY <1>4, Same DEF KeepHeader, SeverHeader
  <2>2. params' = <<>>
    BY <2>1 DEF Passing, Started
  <2>3. {m \in DOMAIN inputs' : m < 1} = {}
    BY TypedStep DEF Typed, TypeOK, FoundTyped
  <2>4. Own(params, k)'
    BY <2>1, <2>2, <2>3 DEF Own, NoRepetition, Elems
  <2> QED
    BY <2>1, <2>4 DEF Passing, Started
<1>5. CASE BindInput
  <2>1. /\ pc = "inputs" /\ pc' = pc /\ k <= Len(inputs) /\ k' = k + 1 /\ fn' = fn
        /\ params' = IF InputOnly(inputs[k]) THEN Append(params, inputs[k]) ELSE params
        /\ UNCHANGED <<found, related, locals>>
    BY <1>5 DEF BindInput
  <2>2. /\ inputs \in Seq(Values) /\ NoRepetition(inputs) /\ k \in Nat \ {0}
        /\ params \in Seq(Values)
    BY DEF Typed, TypeOK, FoundTyped, CodeTyped, NewTyped
  <2>3. k \in DOMAIN inputs /\ inputs[k] \in Values /\ DOMAIN inputs \subseteq Nat
    BY <2>1, <2>2
  <2> DEFINE Pure(n) == {inputs[i] : i \in {m \in DOMAIN inputs : m < n /\ InputOnly(inputs[m])}}
  <2>4. Elems(params) = Pure(k) /\ NoRepetition(params)
    BY <2>1 DEF Passing, Own
  <2>5. inputs[k] \notin Pure(k)
    BY <2>2, <2>3 DEF NoRepetition
  <2>6. Pure(k + 1) = Pure(k) \cup IF InputOnly(inputs[k]) THEN {inputs[k]} ELSE {}
    <3>1. \A m \in DOMAIN inputs : m < k + 1 <=> m < k \/ m = k
      BY <2>2, <2>3
    <3> QED
      BY <2>3, <3>1
  <2> HIDE DEF Pure
  <2>7. CASE InputOnly(inputs[k])
    <3> DEFINE t == Append(params, inputs[k])
    <3>1. params' = t /\ Insert(params, inputs[k]) = t
      BY <2>1, <2>4, <2>5, <2>7 DEF Insert
    <3>2. Elems(t) = Pure(k) \cup {inputs[k]} /\ NoRepetition(t)
      <4>0. PICK w \in Values : w = inputs[k]
        BY <2>3
      <4>1. /\ Elems(Insert(params, w)) = Elems(params) \cup {w}
            /\ NoRepetition(params) => NoRepetition(Insert(params, w))
        BY <2>2, InsertElems
      <4> HIDE DEF t
      <4> QED
        BY <2>4, <3>1, <4>0, <4>1
    <3>3. /\ t # <<>>
          /\ k = 1 => t[1] = inputs[1]
          /\ params # <<>> => t[1] = params[1]
      <4>1. params = <<>> => Pure(k) = {}
        BY <2>4 DEF Elems
      <4>2. k = 1 => Pure(k) = {}
        BY <2>2 DEF Pure
      <4>3. Pure(k) = {} => params = <<>>
        BY <2>2, <2>4 DEF Elems
      <4>4. PICK w \in Values : w = inputs[k]
        BY <2>3
      <4>5. /\ Append(params, w) # <<>>
            /\ params = <<>> => Append(params, w)[1] = w
            /\ params # <<>> => Append(params, w)[1] = params[1]
        BY <2>2
      <4>6. k = 1 => params = <<>>
        BY <4>2, <4>3
      <4> QED
        BY <4>4, <4>5, <4>6
    <3>4. k > 1 /\ InputOnly(inputs[1]) => params # <<>> /\ params[1] = inputs[1]
      BY <2>1, <2>3 DEF Passing, Own
    <3> HIDE DEF t
    <3>5. Own(t, k + 1)
      BY <2>2, <2>6, <2>7, <3>2, <3>3, <3>4 DEF Own, Pure
    <3>6. Own(params, k)'
      BY <2>1, <3>1, <3>5, SameInputs
    <3> QED
      BY <2>1, <3>6 DEF Passing, Started
  <2>8. CASE ~InputOnly(inputs[k])
    <3>1. params' = params
      BY <2>1, <2>8
    <3>2. k > 1 /\ InputOnly(inputs[1]) => params # <<>> /\ params[1] = inputs[1]
      BY <2>1, <2>3 DEF Passing, Own
    <3>3. Own(params, k + 1)
      BY <2>2, <2>4, <2>6, <2>8, <3>2 DEF Own, Pure
    <3>4. Own(params, k)'
      BY <2>1, <3>1, <3>3, SameInputs
    <3> QED
      BY <2>1, <3>4 DEF Passing, Started
  <2> QED
    BY <2>7, <2>8
<1>6. CASE BindOutputs
  <2>1. /\ pc = "inputs" /\ pc' = "cells" /\ k > Len(inputs) /\ params' = params \o outputs
        /\ fn' = fn /\ UNCHANGED <<found, related, locals>>
    BY <1>6 DEF BindOutputs
  <2>2. inputs \in Seq(Values) /\ params \in Seq(Values) /\ k \in Nat \ {0}
    BY DEF Typed, TypeOK, FoundTyped, NewTyped, CodeTyped
  <2>3. \A m \in DOMAIN inputs : m < k /\ m < Len(inputs) + 1
    BY <2>1, <2>2
  <2>4. inputs # <<>> => k > 1
    BY <2>1, <2>2
  <2>5. Own(params, Len(inputs) + 1)
    BY <2>1, <2>3, <2>4 DEF Passing, Own
  <2>6. inputs' = inputs /\ outputs' = outputs
    BY <2>1, Same
  <2>7. Own(params, Len(inputs) + 1)' <=> Own(params', Len(inputs) + 1)
    BY <2>1, <2>6, SameInputs
  <2>8. \A s : Own(s, Len(inputs) + 1)' <=> Own(s, Len(inputs) + 1)
    BY <2>1, <2>6, SameInputs
  <2> QED
    BY <2>1, <2>2, <2>5, <2>6, <2>8 DEF Passing, Started
<1>7. CASE BindCells \/ BindLocals \/ StoreOutputs
  <2>1. /\ pc \in Started \ {"inputs"} /\ pc' \in Started \ {"inputs"} /\ params' = params
        /\ fn' = fn /\ UNCHANGED <<found, related, locals>>
    BY <1>7 DEF BindCells, BindLocals, StoreOutputs, Started
  <2>2. inputs' = inputs /\ outputs' = outputs
    BY <2>1, Same
  <2> QED
    BY <2>1, <2>2, SameInputs DEF Passing
<1> QED
  BY <1>1, <1>2, <1>3, <1>4, <1>5, <1>6, <1>7, Zenon DEF Next

LEMMA OneIteratorInTheEnd ==
  ASSUME Naming
  PROVE  OneIteratorFirst
<1> SUFFICES ASSUME pc = "cloned", fn.known
             PROVE  /\ Cardinality({i \in 1 .. Len(params) - Len(outputs) : IsIterator(params[i])}) = 1
                    /\ (\A v \in Elems(inputs) : IsIterator(v) => v \in PureInputs)
                         => IsIterator(params[1])
  BY DEF OneIteratorFirst
<1>1. inputs \in Seq(Values) /\ outputs \in Seq(Values)
  BY DEF Naming, Typed, TypeOK, FoundTyped
<1>2. PICK own \in Seq(Values) : params = own \o outputs /\ Own(own, Len(inputs) + 1)
  BY DEF Naming, Passing, Started
<1>3. /\ Len(params) - Len(outputs) = Len(own) /\ Len(own) \in Nat
      /\ \A i \in 1 .. Len(own) : params[i] = own[i]
      /\ DOMAIN own = 1 .. Len(own)
  BY <1>1, <1>2
<1>4. Elems(own) = PureInputs
  <2>1. \A m \in DOMAIN inputs : m < Len(inputs) + 1
    BY <1>1
  <2>2. Elems(own) = {inputs[i] : i \in {m \in DOMAIN inputs : InputOnly(inputs[m])}}
    BY <1>2, <2>1 DEF Own
  <2> QED
    BY <2>2 DEF PureInputs, Elems
<1>5. PICK x : IteratorInputs = {x}
  <2>1. IsFiniteSet(IteratorInputs)
    <3>1. IsFiniteSet(1 .. Len(inputs))
      BY <1>1, FS_Interval
    <3>2. inputs \in Surjection(1 .. Len(inputs), Elems(inputs))
      BY <1>1 DEF Surjection, Elems
    <3>3. IsFiniteSet(Elems(inputs)) /\ IteratorInputs \subseteq Elems(inputs)
      BY <3>1, <3>2, FS_Surjection DEF IteratorInputs, PureInputs
    <3> QED
      BY <3>3, FS_Subset
  <2>2. Cardinality(IteratorInputs) = 1
    BY DEF Naming, Checked, Started
  <2> QED
    BY <2>1, <2>2, FS_Singleton
<1>6. PICK n \in 1 .. Len(own) : own[n] = x
  BY <1>3, <1>4, <1>5 DEF IteratorInputs, Elems
<1>7. {i \in 1 .. Len(own) : IsIterator(params[i])} = {n}
  <2>1. ASSUME NEW i \in 1 .. Len(own), IsIterator(params[i])
        PROVE  i = n
    <3>1. own[i] \in IteratorInputs
      BY <1>3, <1>4, <2>1 DEF IteratorInputs, Elems
    <3> QED
      BY <1>2, <1>3, <1>5, <1>6, <3>1 DEF Own, NoRepetition
  <2>2. IsIterator(params[n])
    BY <1>3, <1>5, <1>6 DEF IteratorInputs
  <2> QED
    BY <2>1, <2>2
<1>8. Cardinality({i \in 1 .. Len(own) : IsIterator(params[i])}) = 1
  BY <1>7, FS_Singleton
<1>9. ASSUME \A v \in Elems(inputs) : IsIterator(v) => v \in PureInputs
      PROVE  IsIterator(params[1])
  <2>1. inputs # <<>>
    BY <1>4, <1>5, <1>6, <1>3 DEF IteratorInputs, PureInputs, Elems
  <2>2. IsIterator(inputs[1]) /\ inputs[1] \in Elems(inputs) /\ Len(inputs) \in Nat /\ Len(inputs) > 0
    BY <1>1, <2>1 DEF Naming, Checked, Reordered, Started, Elems
  <2>3. InputOnly(inputs[1])
    BY <1>9, <2>2 DEF PureInputs
  <2>4. own # <<>> /\ own[1] = inputs[1]
    BY <1>2, <2>1, <2>2, <2>3 DEF Own
  <2>5. params[1] = own[1]
    BY <1>2, <1>3, <2>4
  <2> QED
    BY <2>2, <2>4, <2>5
<1> QED
  BY <1>3, <1>8, <1>9

\* OneIteratorFirst: what cloneLoop checks of the inputs holds of the
\* parameters cloneFunction makes of them, and the place ReorderInputs gives the
\* iterator is the place it has among them.
THEOREM IteratorComesFirst == Spec => []OneIteratorFirst
<1>1. Init => Naming
  BY InitTyped DEF Init, Naming, Checked, Passing, Reordered, Started
<1>2. Naming /\ [Next]_vars => Naming'
  BY TypedStep, CheckedStep, PassingStep DEF Naming
<1>3. Naming => OneIteratorFirst
  BY OneIteratorInTheEnd
<1> QED
  BY <1>1, <1>2, <1>3, PTL DEF Spec

-----------------------------------------------------------------------------
(* What the next iteration gets *)

\* The scan leaves the operand it visits at the first one.
Rewound ==
  /\ pc \in {"info", "geps"} => j = 1
  /\ pc = "scan" /\ k > Len(body) => j = 1

Phis == {v \in Elems(inputs) : fn.kind[v] = "phi"}

\* mapInputsOutputs has looked at operand i of input v.
Visited(v, i) ==
  /\ pc \notin {"info", "scan", "geps", "abort"}
  /\ pc = "map" => \E m \in DOMAIN inputs : inputs[m] = v /\ (m < k \/ (m = k /\ i < j))

\* v is related to itself or to one of the outputs it gets.
InputHeld(v) ==
  /\ v \in DOMAIN ioMap
  /\ v \in Elems(outputs) \/ \E n \in CarriedAt(v) : ioMap[v] = fn.ops[v][n]

\* x is related to itself or to a phi node that gets it.
OutputHeld(x) ==
  /\ x \in DOMAIN oiMap
  /\ x \in Elems(inputs) \/ \E w \in Phis : oiMap[x] = w /\ x \in Elems(fn.ops[w])

CarriedHeld ==
  \A v \in Phis : \A i \in CarriedAt(v) :
    Visited(v, i) => InputHeld(v) /\ OutputHeld(fn.ops[v][i])

\* A pure input is read from its own parameter, a bidirectional one from its
\* output's, and the outputs are passed and stored.
UsesHeld ==
  /\ pc \notin Started => DOMAIN bound = {}
  /\ pc \in {"inputs", "cells"} =>
       \A v \in DOMAIN bound : InputOnly(v) /\ bound[v].use = "parameter"
  /\ pc \in {"locals", "exit", "cloned"} =>
       /\ \A v \in Elems(inputs) : Bidirectional(v) =>
            v \in DOMAIN bound /\ bound[v] = BidirectionalUse(v)
       /\ \A v \in DOMAIN bound : bound[v].use = "cell" => Bidirectional(v)
  /\ pc \in {"cells", "locals", "exit", "cloned"} => Elems(outputs) \subseteq Elems(params)
  /\ pc = "cloned" =>
       stores = {ioMap[v] : v \in {x \in Elems(inputs) : Bidirectional(x)}} \ fn.ptrs

Carrying == Typed /\ Rewound /\ CarriedHeld /\ UsesHeld

\* What is appended is there.
LEMMA TailElems ==
  ASSUME NEW S, NEW s \in Seq(S), NEW t \in Seq(S)
  PROVE  Elems(t) \subseteq Elems(s \o t)
<1> DEFINE u == s \o t
<1>1. /\ u \in Seq(S) /\ Len(u) = Len(s) + Len(t)
      /\ \A i \in 1 .. Len(s) + Len(t) :
            u[i] = IF i <= Len(s) THEN s[i] ELSE t[i - Len(s)]
  BY ConcatProperties
<1>2. DOMAIN u = 1 .. Len(s) + Len(t) /\ Len(s) \in Nat /\ Len(t) \in Nat
      /\ DOMAIN t = 1 .. Len(t)
  BY <1>1
<1> HIDE DEF u
<1>3. ASSUME NEW n \in DOMAIN t
      PROVE  t[n] \in Elems(u)
  <2>1. n + Len(s) \in DOMAIN u /\ u[n + Len(s)] = t[n]
    BY <1>1, <1>2
  <2> QED
    BY <2>1 DEF Elems
<1> QED
  BY <1>3 DEF Elems, u

\* The fn and the relations stay the same, and the inputs may be reordered.
LEMMA SameCarried ==
  ASSUME fn' = fn, UNCHANGED related, outputs' = outputs, Elems(inputs') = Elems(inputs)
  PROVE  /\ Phis' = Phis
         /\ \A v : /\ CarriedAt(v)' = CarriedAt(v)
                   /\ InputHeld(v)' <=> InputHeld(v)
                   /\ OutputHeld(v)' <=> OutputHeld(v)
<1>1. ioMap' = ioMap /\ oiMap' = oiMap
  BY Same
<1>2. Elems(inputs)' = Elems(inputs) /\ Elems(outputs)' = Elems(outputs)
  BY DEF Elems
<1>3. Phis' = Phis
  BY <1>2 DEF Phis
<1>4. \A v : CarriedAt(v)' = CarriedAt(v)
  BY <1>2 DEF CarriedAt
<1>5. \A v : InputHeld(v)' <=> InputHeld(v)
  BY <1>1, <1>2, <1>4 DEF InputHeld
<1>6. \A v : OutputHeld(v)' <=> OutputHeld(v)
  BY <1>1, <1>2, <1>3 DEF OutputHeld, Elems
<1> QED
  BY <1>3, <1>4, <1>5, <1>6

LEMMA RewoundStep ==
  ASSUME Typed, Rewound, [Next]_vars
  PROVE  Rewound'
<1>1. CASE UNCHANGED vars
  BY <1>1 DEF vars, code, Rewound
<1>2. CASE TakeIteratorInfo \/ ScanOperand \/ ScanUsers \/ EndScan
  <2>1. body' = body /\ k \in Nat /\ Len(body) \in Nat
    BY <1>2 DEF TakeIteratorInfo, ScanOperand, ScanUsers, EndScan, code, Typed, TypeOK, CodeTyped
  <2>2. CASE TakeIteratorInfo
    BY <2>2 DEF TakeIteratorInfo, Rewound
  <2>3. CASE ScanOperand
    <3>1. pc' = "scan" /\ k' <= Len(body')
      BY <2>1, <2>3 DEF ScanOperand
    <3>2. ~(k' > Len(body'))
      BY <2>1, <2>3, <3>1 DEF ScanOperand
    <3> QED
      BY <3>1, <3>2 DEF Rewound
  <2>4. CASE ScanUsers
    BY <2>4 DEF ScanUsers, Rewound
  <2>5. CASE EndScan
    BY <2>5 DEF EndScan, Rewound
  <2> QED
    BY <1>2, <2>2, <2>3, <2>4, <2>5
<1>3. CASE VisitGep
  BY <1>3 DEF VisitGep, Rewound
<1>4. CASE ~(TakeIteratorInfo \/ ScanOperand \/ ScanUsers \/ EndScan \/ VisitGep) /\ Next
  <2>1. ASSUME NEW n \in DOMAIN body, SeverHeader(n)
        PROVE  pc' \notin {"info", "scan", "geps"}
    BY <2>1 DEF SeverHeader
  <2>2. pc' \notin {"info", "scan", "geps"}
    BY <1>4, <2>1 DEF Next, EndGeps, MapIncoming, MapNext, MapOutputs, ReorderInputs,
       ReorderNothing, StackAllocate, StackAbort, EndStack, Check, CloneNothing, KeepHeader,
       BindInput, BindOutputs, BindCells, BindLocals, StoreOutputs
  <2> QED
    BY <2>2 DEF Rewound
<1> QED
  BY <1>1, <1>2, <1>3, <1>4

\* Relating v and what comes into it keeps what is related.
LEMMA RelatedHeld ==
  ASSUME Typed, fn' = fn, UNCHANGED found, NEW v, v \in Phis,
         NEW n, n \in CarriedAt(v), NEW incoming, incoming = fn.ops[v][n],
         ioMap' = Override(ioMap, [x \in {v} |-> incoming]),
         oiMap' = Override(oiMap, [x \in {incoming} |-> v])
  PROVE  /\ \A w : InputHeld(w) => InputHeld(w)'
         /\ \A x : OutputHeld(x) => OutputHeld(x)'
         /\ InputHeld(v)' /\ OutputHeld(incoming)'
<1> DEFINE io == [x \in {v} |-> incoming]
           oi == [x \in {incoming} |-> v]
<1>1. DOMAIN io = {v} /\ io[v] = incoming /\ DOMAIN oi = {incoming} /\ oi[incoming] = v
  OBVIOUS
<1>2. inputs' = inputs /\ outputs' = outputs
  BY Same
<1>3. incoming \in Elems(fn.ops[v])
  BY DEF CarriedAt, Elems
<1>4. /\ Phis' = Phis /\ Elems(inputs)' = Elems(inputs) /\ Elems(outputs)' = Elems(outputs)
      /\ \A w : CarriedAt(w)' = CarriedAt(w) /\ Elems(fn.ops[w])' = Elems(fn.ops[w])
  BY <1>2 DEF Phis, Elems, CarriedAt
<1>5. ioMap' = Override(ioMap, io) /\ oiMap' = Override(oiMap, oi)
  OBVIOUS
<1> HIDE DEF io, oi
<1>6. /\ DOMAIN ioMap' = DOMAIN ioMap \cup {v} /\ ioMap'[v] = incoming
      /\ \A w \in DOMAIN ioMap \ {v} : ioMap'[w] = ioMap[w]
  BY <1>1, <1>5 DEF Override
<1>7. /\ DOMAIN oiMap' = DOMAIN oiMap \cup {incoming} /\ oiMap'[incoming] = v
      /\ \A x \in DOMAIN oiMap \ {incoming} : oiMap'[x] = oiMap[x]
  BY <1>1, <1>5 DEF Override
<1>8. InputHeld(v)'
  BY <1>4, <1>6 DEF InputHeld
<1>9. OutputHeld(incoming)'
  BY <1>3, <1>4, <1>7 DEF OutputHeld
<1>10. ASSUME NEW w, InputHeld(w)
       PROVE  InputHeld(w)'
  <2>1. CASE w = v
    BY <1>8, <2>1
  <2>2. CASE w # v
    BY <1>4, <1>6, <1>10, <2>2 DEF InputHeld
  <2> QED
    BY <2>1, <2>2
<1>11. ASSUME NEW x, OutputHeld(x)
       PROVE  OutputHeld(x)'
  <2>1. CASE x = incoming
    BY <1>9, <2>1
  <2>2. CASE x # incoming
    <3>1. x \in DOMAIN oiMap /\ x \in DOMAIN oiMap' /\ oiMap'[x] = oiMap[x]
      BY <1>7, <1>11, <2>2 DEF OutputHeld
    <3>2. CASE x \in Elems(inputs)
      BY <1>4, <3>1, <3>2 DEF OutputHeld
    <3>3. CASE x \notin Elems(inputs)
      <4>1. PICK w \in Phis : oiMap[x] = w /\ x \in Elems(fn.ops[w])
        BY <1>11, <3>3 DEF OutputHeld
      <4>2. w \in Phis' /\ oiMap'[x] = w /\ x \in Elems(fn'.ops[w])
        BY <1>4, <3>1, <4>1 DEF Elems
      <4> QED
        BY <3>1, <4>2 DEF OutputHeld, Elems
    <3> QED
      BY <3>2, <3>3
  <2> QED
    BY <2>1, <2>2
<1> QED
  BY <1>8, <1>9, <1>10, <1>11

LEMMA CarriedHeldStep ==
  ASSUME Typed, Rewound, CarriedHeld, [Next]_vars
  PROVE  CarriedHeld'
<1>1. /\ fn \in Regions /\ inputs \in Seq(Values) /\ k \in Nat \ {0} /\ j \in Nat \ {0}
      /\ DOMAIN inputs = 1 .. Len(inputs) /\ Len(inputs) \in Nat
  BY DEF Typed, Known, TypeOK, CodeTyped, FoundTyped
<1>2. pc = "map" => ops = fn.ops
  BY DEF Typed, Known, Started
<1>3. \A v \in Phis : \A i \in CarriedAt(v) : i \in 1 .. Len(fn.ops[v]) /\ Len(fn.ops[v]) \in Nat
  <2> SUFFICES ASSUME NEW v \in Phis, NEW i \in CarriedAt(v)
               PROVE  i \in 1 .. Len(fn.ops[v]) /\ Len(fn.ops[v]) \in Nat
    OBVIOUS
  <2>1. v \in Values
    BY <1>1, ElementType DEF Phis
  <2>2. fn.ops[v] \in Seq(Values)
    BY <1>1, <2>1, FnType
  <2> QED
    BY <2>2, ElementType DEF CarriedAt
\* Nothing is related anew, and no operand is visited.
<1>4. ASSUME fn' = fn, UNCHANGED related, outputs' = outputs, Elems(inputs') = Elems(inputs),
             \A v \in Phis : \A i \in CarriedAt(v) : Visited(v, i)' => Visited(v, i)
      PROVE  CarriedHeld'
  <2>1. Phis' = Phis /\ \A v : CarriedAt(v)' = CarriedAt(v)
    BY <1>4, SameCarried
  <2> SUFFICES ASSUME NEW v, v \in Phis, NEW i, i \in CarriedAt(v), Visited(v, i)'
               PROVE  (InputHeld(v) /\ OutputHeld(fn.ops[v][i]))'
    BY <2>1 DEF CarriedHeld
  <2>2. PICK x : x = fn.ops[v][i]
    OBVIOUS
  <2>3. InputHeld(v) /\ OutputHeld(x)
    BY <1>4, <2>2 DEF CarriedHeld
  <2>4. InputHeld(v)' /\ OutputHeld(x)'
    BY <1>4, <2>3, SameCarried
  <2> QED
    BY <1>4, <2>2, <2>4
<1>5. CASE UNCHANGED vars
  <2>1. fn' = fn /\ UNCHANGED related /\ inputs' = inputs /\ outputs' = outputs
    BY <1>5, Same DEF vars
  <2>2. \A v, i : Visited(v, i)' => Visited(v, i)
    BY <1>5, <2>1 DEF vars, Visited
  <2> QED
    BY <1>4, <2>1, <2>2
<1>6. CASE TakeIteratorInfo \/ ScanOperand \/ ScanUsers \/ EndScan \/ VisitGep
  <2>1. pc' \in {"info", "scan", "geps", "abort"}
    BY <1>6 DEF TakeIteratorInfo, ScanOperand, ScanUsers, EndScan, VisitGep
  <2> QED
    BY <2>1 DEF CarriedHeld, Visited
<1>7. CASE EndGeps
  <2>1. /\ pc = "geps" /\ pc' = "map" /\ k' = 1 /\ j' = 1 /\ inputs' = inputs
    BY <1>7, Same DEF EndGeps, Rewound
  <2>2. fn' = fn /\ UNCHANGED related /\ outputs' = outputs
    BY <1>7, Same DEF EndGeps
  <2>3. \A v \in Phis : \A i \in CarriedAt(v) : ~Visited(v, i)'
    BY <1>1, <1>3, <2>1 DEF Visited
  <2> QED
    BY <1>4, <2>1, <2>2, <2>3
<1>8. CASE MapIncoming
  <2>0. PICK v : v = inputs[k]
    OBVIOUS
  <2>1. /\ pc = "map" /\ pc' = "map" /\ fn' = fn /\ k' = k /\ j' = j + 1 /\ UNCHANGED found
        /\ k \in DOMAIN inputs /\ fn.kind[v] = "phi" /\ j <= Len(fn.ops[v])
    BY <1>1, <1>2, <1>8, <2>0 DEF MapIncoming
  <2>2. v \in Phis
    BY <2>0, <2>1 DEF Phis, Elems
  <2>3. inputs' = inputs /\ outputs' = outputs
    BY <2>1, Same
  <2>4. \A w \in Phis : \A i \in CarriedAt(w) :
          Visited(w, i)' => Visited(w, i) \/ (w = v /\ i = j)
    <3> SUFFICES ASSUME NEW w \in Phis, NEW i \in CarriedAt(w), Visited(w, i)'
                 PROVE  Visited(w, i) \/ (w = v /\ i = j)
      OBVIOUS
    <3>1. PICK m \in DOMAIN inputs : inputs[m] = w /\ (m < k \/ (m = k /\ i < j + 1))
      BY <2>1, <2>3 DEF Visited
    <3>2. i \in Nat
      BY <1>3
    <3>3. (m < k \/ (m = k /\ i < j)) \/ (m = k /\ i = j)
      BY <1>1, <3>1, <3>2
    <3>4. CASE m < k \/ (m = k /\ i < j)
      BY <2>1, <3>1, <3>4 DEF Visited
    <3> QED
      BY <2>0, <3>1, <3>3, <3>4
  <2>5. CASE j \in CarriedAt(v)
    <3>0. PICK c, n : c = fn.ops[v][j] /\ n = j
      OBVIOUS
    <3>1. c \in Elems(outputs) /\ ops = fn.ops
      BY <1>2, <2>1, <2>5, <3>0 DEF CarriedAt
    <3>2. /\ ioMap' = Override(ioMap, [x \in {v} |-> c])
          /\ oiMap' = Override(oiMap, [x \in {c} |-> v])
      BY <1>8, <2>0, <3>0, <3>1 DEF MapIncoming
    <3>3. /\ \A w : InputHeld(w) => InputHeld(w)'
          /\ \A x : OutputHeld(x) => OutputHeld(x)'
          /\ InputHeld(v)' /\ OutputHeld(c)'
      BY <2>1, <2>2, <2>5, <3>0, <3>2, RelatedHeld
    <3>4. Phis' = Phis /\ \A w : CarriedAt(w)' = CarriedAt(w)
      BY <2>1, <2>3 DEF Phis, CarriedAt, Elems
    <3> SUFFICES ASSUME NEW w, w \in Phis, NEW i, i \in CarriedAt(w), Visited(w, i)'
                 PROVE  (InputHeld(w) /\ OutputHeld(fn.ops[w][i]))'
      BY <3>4 DEF CarriedHeld
    <3>5. CASE Visited(w, i)
      <4>1. PICK x : x = fn.ops[w][i]
        OBVIOUS
      <4>2. InputHeld(w) /\ OutputHeld(x)
        BY <3>5, <4>1 DEF CarriedHeld
      <4>3. InputHeld(w)' /\ OutputHeld(x)'
        BY <3>3, <4>2
      <4> QED
        BY <2>1, <4>1, <4>3
    <3>6. CASE w = v /\ i = n
      BY <2>1, <3>0, <3>3, <3>6
    <3> QED
      BY <2>4, <3>0, <3>5, <3>6
  <2>6. CASE j \notin CarriedAt(v)
    <3>1. v \in Values
      BY <1>1, <2>2, ElementType DEF Phis
    <3>2. j \in DOMAIN fn.ops[v]
      BY <1>1, <2>0, <2>1, <3>1, FnType, ElementType
    <3>3. ops[v][j] \notin Elems(outputs)
      BY <1>2, <2>1, <2>6, <3>2 DEF CarriedAt
    <3>4. UNCHANGED related
      BY <1>8, <2>0, <3>3 DEF MapIncoming
    <3> QED
      BY <1>4, <2>1, <2>3, <2>4, <2>6, <3>4
  <2> QED
    BY <2>5, <2>6
<1>9. CASE MapNext
  <2>1. /\ pc = "map" /\ pc' = "map" /\ fn' = fn /\ k' = k + 1 /\ j' = 1
        /\ UNCHANGED found /\ UNCHANGED related
        /\ fn.kind[inputs[k]] # "phi" \/ j > Len(fn.ops[inputs[k]])
    BY <1>2, <1>9 DEF MapNext
  <2>2. inputs' = inputs /\ outputs' = outputs
    BY <2>1, Same
  <2>3. ASSUME NEW w \in Phis, NEW i \in CarriedAt(w), Visited(w, i)'
        PROVE  Visited(w, i)
    <3>1. PICK m \in DOMAIN inputs : inputs[m] = w /\ (m < k + 1 \/ (m = k + 1 /\ i < 1))
      BY <2>1, <2>2, <2>3 DEF Visited
    <3>2. i \in 1 .. Len(fn.ops[w]) /\ Len(fn.ops[w]) \in Nat /\ fn.kind[w] = "phi"
      BY <1>3 DEF Phis
    <3>3. m < k \/ m = k
      BY <1>1, <3>1, <3>2
    <3>4. m = k => i < j
      BY <1>1, <2>1, <3>1, <3>2
    <3> QED
      BY <2>1, <3>1, <3>3, <3>4 DEF Visited
  <2> QED
    BY <1>4, <2>1, <2>2, <2>3
<1>10. CASE MapOutputs
  <2> DEFINE both == Elems(inputs) \cap Elems(outputs)
             self == [x \in both |-> x]
  <2>1. /\ pc = "map" /\ fn' = fn /\ k > Len(inputs) /\ UNCHANGED found
        /\ ioMap' = Override(ioMap, self) /\ oiMap' = Override(oiMap, self)
    BY <1>10 DEF MapOutputs
  <2>2. inputs' = inputs /\ outputs' = outputs
    BY <2>1, Same
  <2>3. DOMAIN self = both /\ \A x \in both : self[x] = x
    OBVIOUS
  <2> HIDE DEF self
  <2>4. /\ DOMAIN ioMap' = DOMAIN ioMap \cup both
        /\ \A x \in DOMAIN ioMap \ both : ioMap'[x] = ioMap[x]
    BY <2>1, <2>3 DEF Override
  <2>5. /\ DOMAIN oiMap' = DOMAIN oiMap \cup both
        /\ \A x \in DOMAIN oiMap \ both : oiMap'[x] = oiMap[x]
    BY <2>1, <2>3 DEF Override
  <2>6. /\ Phis' = Phis /\ Elems(inputs)' = Elems(inputs) /\ Elems(outputs)' = Elems(outputs)
        /\ \A w : CarriedAt(w)' = CarriedAt(w) /\ Elems(fn.ops[w])' = Elems(fn.ops[w])
    BY <2>1, <2>2 DEF Phis, Elems, CarriedAt
  <2> SUFFICES ASSUME NEW w, w \in Phis, NEW i, i \in CarriedAt(w)
               PROVE  (InputHeld(w) /\ OutputHeld(fn.ops[w][i]))'
    BY <2>6 DEF CarriedHeld
  <2>7. PICK m \in DOMAIN inputs : inputs[m] = w
    BY DEF Phis, Elems
  <2>8. m < k
    BY <1>1, <2>1
  <2>9. InputHeld(w) /\ OutputHeld(fn.ops[w][i])
    BY <2>1, <2>7, <2>8 DEF CarriedHeld, Visited
  <2>10. InputHeld(w)'
    <3>1. CASE w \in Elems(outputs)
      BY <2>4, <2>6, <2>9, <3>1 DEF InputHeld
    <3>2. CASE w \notin Elems(outputs)
      <4>1. w \in DOMAIN ioMap /\ w \in DOMAIN ioMap' /\ ioMap'[w] = ioMap[w]
        BY <2>4, <2>9, <3>2 DEF InputHeld
      <4>2. PICK n \in CarriedAt(w) : ioMap[w] = fn.ops[w][n]
        BY <2>9, <3>2 DEF InputHeld
      <4> QED
        BY <2>1, <2>6, <4>1, <4>2 DEF InputHeld
    <3> QED
      BY <3>1, <3>2
  <2>11. OutputHeld(fn.ops[w][i])'
    <3>1. PICK x : x = fn.ops[w][i]
      OBVIOUS
    <3>2. OutputHeld(x)
      BY <2>9, <3>1
    <3>3. OutputHeld(x)'
      <4>1. CASE x \in Elems(inputs)
        BY <2>5, <2>6, <3>2, <4>1 DEF OutputHeld
      <4>2. CASE x \notin Elems(inputs)
        <5>1. x \in DOMAIN oiMap /\ x \in DOMAIN oiMap' /\ oiMap'[x] = oiMap[x]
          BY <2>5, <3>2, <4>2 DEF OutputHeld
        <5>2. PICK u \in Phis : oiMap[x] = u /\ x \in Elems(fn.ops[u])
          BY <3>2, <4>2 DEF OutputHeld
        <5>3. u \in Phis' /\ oiMap'[x] = u /\ x \in Elems(fn'.ops[u])
          BY <2>1, <2>6, <5>1, <5>2
        <5> QED
          BY <5>1, <5>3 DEF OutputHeld, Elems
      <4> QED
        BY <4>1, <4>2
    <3> QED
      BY <2>1, <3>1, <3>3
  <2> QED
    BY <2>10, <2>11
<1>11. CASE ReorderInputs
  <2>1. /\ pc = "reorder" /\ fn' = fn /\ UNCHANGED related /\ outputs' = outputs
        /\ inputs' = inputs \/ \E i \in DOMAIN inputs : inputs' = MovedToFront(i)
    BY <1>11 DEF ReorderInputs
  <2>2. Elems(inputs') = Elems(inputs)
    BY <1>1, <2>1, MovedToFrontElems
  <2>3. \A v, i : Visited(v, i)
    BY <2>1 DEF Visited
  <2> QED
    BY <1>4, <2>1, <2>2, <2>3
<1>12. ASSUME NEW n \in DOMAIN body, SeverHeader(n)
       PROVE  CarriedHeld'
  <2>1. /\ pc = "clone" /\ fn' = fn /\ UNCHANGED related /\ UNCHANGED found
    BY <1>12 DEF SeverHeader
  <2>2. inputs' = inputs /\ outputs' = outputs
    BY <2>1, Same
  <2>3. \A v, i : Visited(v, i)
    BY <2>1 DEF Visited
  <2> QED
    BY <1>4, <2>1, <2>2, <2>3
<1>13. CASE \/ ReorderNothing \/ StackAllocate \/ StackAbort \/ EndStack \/ Check \/ CloneNothing
            \/ KeepHeader \/ BindInput \/ BindOutputs \/ BindCells \/ BindLocals \/ StoreOutputs
  <2>1. /\ pc \notin {"info", "scan", "geps", "abort", "map"}
        /\ fn' = fn /\ UNCHANGED related /\ UNCHANGED found
    BY <1>13 DEF ReorderNothing, StackAllocate, StackAbort, EndStack, Check, CloneNothing, KeepHeader,
       BindInput, BindOutputs, BindCells, BindLocals, StoreOutputs
  <2>2. inputs' = inputs /\ outputs' = outputs
    BY <2>1, Same
  <2>3. \A v, i : Visited(v, i)
    BY <2>1 DEF Visited
  <2> QED
    BY <1>4, <2>1, <2>2, <2>3
<1> QED
  BY <1>5, <1>6, <1>7, <1>8, <1>9, <1>10, <1>11, <1>12, <1>13, Zenon DEF Next


\* Once the inputs are bound, what kind each of them is stays settled.
LEMMA UsesHeldStep ==
  ASSUME Typed, UsesHeld, [Next]_vars
  PROVE  UsesHeld'
<1>1. ASSUME UNCHANGED <<found, related, locals>>, fn' = fn
      PROVE  /\ \A v : /\ InputOnly(v)' <=> InputOnly(v)
                       /\ Bidirectional(v)' <=> Bidirectional(v)
                       /\ BidirectionalUse(v)' = BidirectionalUse(v)
             /\ inputs' = inputs /\ Elems(inputs)' = Elems(inputs)
             /\ Elems(outputs)' = Elems(outputs) /\ ioMap' = ioMap
  BY <1>1, Same DEF InputOnly, Bidirectional, BidirectionalUse, Elems
<1>2. CASE UNCHANGED vars
  <2>1. /\ fn' = fn /\ pc' = pc /\ bound' = bound /\ params' = params /\ stores' = stores
        /\ UNCHANGED <<found, related, locals>>
    BY <1>2, Same DEF vars
  <2> QED
    BY <2>1, <1>1 DEF UsesHeld, Elems
<1>3. CASE TakeIteratorInfo \/ ScanOperand \/ ScanUsers \/ EndScan \/ VisitGep \/ EndGeps
  <2>1. pc \notin Started /\ pc' \notin Started /\ bound' = bound
    BY <1>3, Same DEF TakeIteratorInfo, ScanOperand, ScanUsers, EndScan, VisitGep, EndGeps,
       Started
  <2> QED
    BY <2>1 DEF UsesHeld, Started
<1>4. CASE \/ MapIncoming \/ MapNext \/ MapOutputs \/ ReorderInputs \/ ReorderNothing
           \/ StackAllocate \/ StackAbort \/ EndStack \/ Check \/ CloneNothing
  <2>1. pc \notin Started /\ pc' \notin Started /\ bound' = bound
    BY <1>4, Same DEF MapIncoming, MapNext, MapOutputs, ReorderInputs, ReorderNothing,
       StackAllocate, StackAbort, EndStack, Check, CloneNothing, Started
  <2> QED
    BY <2>1 DEF UsesHeld, Started
<1>5. CASE KeepHeader \/ \E n \in DOMAIN body : SeverHeader(n)
  <2>1. pc = "clone" /\ pc' = "inputs" /\ bound' = bound
    <3>1. CASE KeepHeader
      BY <3>1, Same DEF KeepHeader
    <3>2. ASSUME NEW n \in DOMAIN body, SeverHeader(n)
          PROVE  pc = "clone" /\ pc' = "inputs" /\ UNCHANGED new
      BY <3>2 DEF SeverHeader
    <3> QED
      BY <1>5, <3>1, <3>2, Same
  <2>2. DOMAIN bound' = {}
    BY <2>1 DEF UsesHeld, Started
  <2> QED
    BY <2>1, <2>2 DEF UsesHeld, Started
<1>6. CASE BindInput
  <2>0. PICK v : v = inputs[k]
    OBVIOUS
  <2> DEFINE use == [x \in {v} |-> [use |-> "parameter", of |-> x]]
  <2>1. /\ pc = "inputs" /\ pc' = "inputs" /\ fn' = fn
        /\ bound' = IF InputOnly(v) THEN Override(bound, use) ELSE bound
        /\ UNCHANGED <<found, related, locals>>
    BY <1>6, <2>0 DEF BindInput
  <2>2. \A x \in DOMAIN bound : InputOnly(x) /\ bound[x].use = "parameter"
    BY <2>1 DEF UsesHeld
  <2>3. DOMAIN use = {v} /\ use[v].use = "parameter"
    OBVIOUS
  <2> HIDE DEF use
  <2>4. \A x \in DOMAIN bound' : InputOnly(x) /\ bound'[x].use = "parameter"
    <3>1. CASE InputOnly(v)
      <4>1. /\ DOMAIN bound' = DOMAIN bound \cup {v} /\ bound'[v] = use[v]
            /\ \A x \in DOMAIN bound \ {v} : bound'[x] = bound[x]
        BY <2>1, <2>3, <3>1 DEF Override
      <4> QED
        BY <2>2, <2>3, <3>1, <4>1
    <3>2. CASE ~InputOnly(v)
      BY <2>1, <2>2, <3>2
    <3> QED
      BY <3>1, <3>2
  <2>5. \A x \in DOMAIN bound' : InputOnly(x)' /\ bound'[x].use = "parameter"
    BY <2>1, <2>4, <1>1
  <2> QED
    BY <2>1, <2>5 DEF UsesHeld, Started
<1>7. CASE BindOutputs
  <2>1. /\ pc = "inputs" /\ pc' = "cells" /\ fn' = fn /\ bound' = bound
        /\ params' = params \o outputs /\ UNCHANGED <<found, related, locals>>
    BY <1>7 DEF BindOutputs
  <2>2. params \in Seq(Values) /\ outputs \in Seq(Values)
    BY DEF Typed, TypeOK, NewTyped, FoundTyped
  <2>3. Elems(outputs) \subseteq Elems(params \o outputs)
    BY <2>2, TailElems
  <2>4. Elems(outputs)' \subseteq Elems(params)'
    BY <2>1, <2>3, <1>1 DEF Elems
  <2>5. \A x \in DOMAIN bound' : InputOnly(x)' /\ bound'[x].use = "parameter"
    BY <2>1, <1>1 DEF UsesHeld
  <2> QED
    BY <2>1, <2>4, <2>5 DEF UsesHeld, Started
<1>8. CASE BindCells
  <2> DEFINE both == {x \in Elems(inputs) : Bidirectional(x)}
             cells == [v \in both |-> BidirectionalUse(v)]
  <2>1. /\ pc = "cells" /\ pc' = "locals" /\ fn' = fn /\ bound' = Override(cells, bound)
        /\ params' = params /\ UNCHANGED <<found, related, locals>>
    BY <1>8 DEF BindCells
  <2>2. \A x \in DOMAIN bound : ~Bidirectional(x) /\ bound[x].use = "parameter"
    BY <2>1 DEF UsesHeld, InputOnly
  <2>3. DOMAIN cells = both /\ \A v \in both : cells[v] = BidirectionalUse(v)
    OBVIOUS
  <2> HIDE DEF cells
  <2>4. /\ DOMAIN bound' = both \cup DOMAIN bound
        /\ \A x \in DOMAIN bound : bound'[x] = bound[x]
        /\ \A x \in both \ DOMAIN bound : bound'[x] = cells[x]
    BY <2>1, <2>3 DEF Override
  <2>5. \A v \in Elems(inputs) : Bidirectional(v) =>
          v \in DOMAIN bound' /\ bound'[v] = BidirectionalUse(v)
    BY <2>2, <2>3, <2>4
  <2>6. \A v \in DOMAIN bound' : bound'[v].use = "cell" => Bidirectional(v)
    BY <2>2, <2>4
  <2>7. Elems(outputs)' \subseteq Elems(params)'
    BY <2>1, <1>1 DEF UsesHeld, Elems
  <2>8. /\ \A v \in Elems(inputs)' : Bidirectional(v)' =>
             v \in DOMAIN bound' /\ bound'[v] = BidirectionalUse(v)'
        /\ \A v \in DOMAIN bound' : bound'[v].use = "cell" => Bidirectional(v)'
    BY <2>1, <2>5, <2>6, <1>1
  <2> QED
    BY <2>1, <2>7, <2>8 DEF UsesHeld, Started
<1>9. CASE BindLocals
  <2> DEFINE here == [v \in Elems(allocas) |-> [use |-> "local", of |-> v]]
  <2>1. /\ pc = "locals" /\ pc' = "exit" /\ fn' = fn /\ bound' = Override(here, bound)
        /\ params' = params /\ UNCHANGED <<found, related, locals>>
    BY <1>9 DEF BindLocals
  <2>2. DOMAIN here = Elems(allocas) /\ \A v \in Elems(allocas) : here[v].use # "cell"
    OBVIOUS
  <2> HIDE DEF here
  <2>3. /\ DOMAIN bound' = Elems(allocas) \cup DOMAIN bound
        /\ \A x \in DOMAIN bound : bound'[x] = bound[x]
        /\ \A x \in Elems(allocas) \ DOMAIN bound : bound'[x] = here[x]
    BY <2>1, <2>2 DEF Override
  <2>4. \A v \in Elems(inputs) : Bidirectional(v) =>
          v \in DOMAIN bound' /\ bound'[v] = BidirectionalUse(v)
    BY <2>1, <2>3 DEF UsesHeld
  <2>5. \A v \in DOMAIN bound' : bound'[v].use = "cell" => Bidirectional(v)
    BY <2>1, <2>2, <2>3 DEF UsesHeld
  <2>6. Elems(outputs)' \subseteq Elems(params)'
    BY <2>1, <1>1 DEF UsesHeld, Elems
  <2>7. /\ \A v \in Elems(inputs)' : Bidirectional(v)' =>
             v \in DOMAIN bound' /\ bound'[v] = BidirectionalUse(v)'
        /\ \A v \in DOMAIN bound' : bound'[v].use = "cell" => Bidirectional(v)'
    BY <2>1, <2>4, <2>5, <1>1
  <2> QED
    BY <2>1, <2>6, <2>7 DEF UsesHeld, Started
<1>10. CASE StoreOutputs
  <2>1. /\ pc = "exit" /\ pc' = "cloned" /\ fn' = fn /\ bound' = bound /\ params' = params
        /\ stores' = {ioMap[v] : v \in {x \in Elems(inputs) : Bidirectional(x)}} \ fn.ptrs
        /\ UNCHANGED <<found, related, locals>>
    BY <1>10 DEF StoreOutputs
  <2>2. stores' = {ioMap'[v] : v \in {x \in Elems(inputs)' : Bidirectional(x)'}} \ fn'.ptrs
    BY <2>1, <1>1
  <2>3. Elems(outputs)' \subseteq Elems(params)'
    BY <2>1, <1>1 DEF UsesHeld, Elems
  <2>4. /\ \A v \in Elems(inputs)' : Bidirectional(v)' =>
             v \in DOMAIN bound' /\ bound'[v] = BidirectionalUse(v)'
        /\ \A v \in DOMAIN bound' : bound'[v].use = "cell" => Bidirectional(v)'
    BY <2>1, <1>1 DEF UsesHeld
  <2> QED
    BY <2>1, <2>2, <2>3, <2>4 DEF UsesHeld, Started
<1> QED
  BY <1>2, <1>3, <1>4, <1>5, <1>6, <1>7, <1>8, <1>9, <1>10, Zenon DEF Next

\* What is related in the end is what is used and stored.
LEMMA CarriedInTheEnd ==
  ASSUME Carrying
  PROVE  CarriedThroughMemory
<1> SUFFICES ASSUME pc = "cloned"
             PROVE  /\ \A v \in Elems(inputs) :
                         /\ fn.kind[v] = "phi" /\ CarriedAt(v) # {} /\ v \notin Elems(outputs)
                         /\ CarriedAlone(v)
                         => /\ bound[v].use # "local"
                            /\ \E i \in CarriedAt(v) : bound[v].of = fn.ops[v][i]
                    /\ \A v \in DOMAIN bound : bound[v].use = "cell" =>
                         bound[v].of \in stores /\ bound[v].of \in Elems(outputs) \cap Elems(params)
  BY DEF CarriedThroughMemory
<1>1. \A v \in Elems(inputs) : Bidirectional(v) =>
        /\ v \in DOMAIN bound /\ bound[v] = BidirectionalUse(v)
        /\ bound[v].of = ioMap[v] /\ bound[v].use # "local"
        /\ bound[v].use = "cell" => ioMap[v] \notin fn.ptrs
  BY DEF Carrying, UsesHeld, BidirectionalUse
<1>2. ASSUME NEW v \in Elems(inputs), fn.kind[v] = "phi", CarriedAt(v) # {},
             v \notin Elems(outputs), CarriedAlone(v)
      PROVE  bound[v].use # "local" /\ \E i \in CarriedAt(v) : bound[v].of = fn.ops[v][i]
  <2>1. v \in Phis
    BY <1>2 DEF Phis
  <2>2. PICK i \in CarriedAt(v) : TRUE
    BY <1>2
  <2>3. InputHeld(v) /\ OutputHeld(fn.ops[v][i])
    BY <2>1, <2>2 DEF Carrying, CarriedHeld, Visited
  <2>4. oiMap[fn.ops[v][i]] = v /\ fn.ops[v][i] \in DOMAIN oiMap
    <3>1. fn.ops[v][i] \notin Elems(inputs)
      BY <1>2, <2>2 DEF CarriedAlone
    <3>2. PICK w \in Phis : oiMap[fn.ops[v][i]] = w /\ fn.ops[v][i] \in Elems(fn.ops[w])
      BY <2>3, <3>1 DEF OutputHeld
    <3>3. w = v
      BY <1>2, <2>2, <3>2 DEF CarriedAlone, Phis
    <3> QED
      BY <2>3, <3>2, <3>3 DEF OutputHeld
  <2>5. Bidirectional(v)
    BY <2>4 DEF Bidirectional
  <2>6. \E n \in CarriedAt(v) : ioMap[v] = fn.ops[v][n]
    BY <1>2, <2>3 DEF InputHeld
  <2> QED
    BY <1>1, <2>5, <2>6
<1>3. ASSUME NEW v \in DOMAIN bound, bound[v].use = "cell"
      PROVE  bound[v].of \in stores /\ bound[v].of \in Elems(outputs) \cap Elems(params)
  <2>1. Bidirectional(v) /\ v \in Elems(inputs)
    BY <1>3 DEF Carrying, UsesHeld, Typed, TypeOK, NewTyped
  <2>2. bound[v].of = ioMap[v] /\ ioMap[v] \notin fn.ptrs
    BY <1>1, <1>3, <2>1
  <2>3. bound[v].of \in stores
    BY <2>1, <2>2 DEF Carrying, UsesHeld
  <2>4. v \in DOMAIN ioMap
    BY <2>1, BidirectionalIsMapped DEF Carrying, Typed
  <2>5. ioMap[v] \in Elems(outputs) /\ Elems(outputs) \subseteq Elems(params)
    BY <2>4 DEF Carrying, UsesHeld, Typed, TypeOK, RelatedTyped
  <2> QED
    BY <2>2, <2>3, <2>5
<1> QED
  BY <1>2, <1>3

\* CarriedThroughMemory: what mapInputsOutputs relates is what cloneFunction
\* reads and stores, for any region, severed or not.
THEOREM CarriedByTheClone == Spec => []CarriedThroughMemory
<1>1. ASSUME Init
      PROVE  Carrying
  <2>1. Typed
    BY <1>1, InitTyped
  <2>2. Rewound /\ CarriedHeld /\ UsesHeld
    BY <1>1 DEF Init, Rewound, CarriedHeld, Visited, UsesHeld, Started
  <2> QED
    BY <2>1, <2>2 DEF Carrying
<1>2. Carrying /\ [Next]_vars => Carrying'
  BY TypedStep, RewoundStep, CarriedHeldStep, UsesHeldStep DEF Carrying
<1>3. Carrying => CarriedThroughMemory
  BY CarriedInTheEnd
<1> QED
  BY <1>1, <1>2, <1>3, PTL DEF Spec
=============================================================================
