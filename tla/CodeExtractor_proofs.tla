------------------------ MODULE CodeExtractor_proofs ------------------------
(***************************************************************************)
(* Proofs about the code extractor, for every region: types, and that the  *)
(* cloned instructions use nothing of the old function unless the first    *)
(* block of the region was severed.                                        *)
(***************************************************************************)
EXTENDS CodeExtractor, SequenceTheorems, TLAPS

-----------------------------------------------------------------------------
(* Sequences and their elements *)

LEMMA ElementType ==
  ASSUME NEW S, NEW s \in Seq(S)
  PROVE  /\ DOMAIN s = 1 .. Len(s) /\ Len(s) \in Nat
         /\ \A i \in DOMAIN s : s[i] \in S /\ s[i] \in Elems(s)
         /\ Elems(s) \subseteq S
BY DEF Elems

LEMMA AppendElems ==
  ASSUME NEW S, NEW s \in Seq(S), NEW v \in S
  PROVE  /\ Append(s, v) \in Seq(S)
         /\ Elems(Append(s, v)) = Elems(s) \cup {v}
<1> DEFINE t == Append(s, v)
<1>1. /\ t \in Seq(S) /\ Len(t) = Len(s) + 1
      /\ \A i \in 1 .. Len(s) : t[i] = s[i]
      /\ t[Len(s) + 1] = v
  BY AppendProperties
<1>2. DOMAIN t = 1 .. Len(s) + 1 /\ DOMAIN s = 1 .. Len(s) /\ Len(s) \in Nat
  BY <1>1
<1> HIDE DEF t
<1>3. Elems(t) \subseteq Elems(s) \cup {v}
  <2> SUFFICES ASSUME NEW i \in 1 .. Len(s) + 1, i # Len(s) + 1
               PROVE  t[i] \in Elems(s)
    BY <1>1, <1>2 DEF Elems
  <2>1. i \in 1 .. Len(s)
    BY <1>2
  <2> QED
    BY <2>1, <1>1, <1>2 DEF Elems
<1>4. v \in Elems(t)
  BY <1>1, <1>2 DEF Elems
<1>5. Elems(s) \subseteq Elems(t)
  <2> SUFFICES ASSUME NEW i \in 1 .. Len(s)
               PROVE  s[i] \in Elems(t)
    BY <1>2 DEF Elems
  <2>1. i \in 1 .. Len(s) + 1
    BY <1>2
  <2> QED
    BY <2>1, <1>1, <1>2 DEF Elems
<1> QED
  BY <1>1, <1>3, <1>4, <1>5 DEF t

LEMMA InsertElems ==
  ASSUME NEW S, NEW s \in Seq(S), NEW v \in S
  PROVE  /\ Insert(s, v) \in Seq(S)
         /\ Elems(Insert(s, v)) = Elems(s) \cup {v}
         /\ NoRepetition(s) => NoRepetition(Insert(s, v))
<1>1. CASE v \in Elems(s)
  BY <1>1 DEF Insert
<1>2. CASE v \notin Elems(s)
  <2> DEFINE t == Append(s, v)
  <2>1. Insert(s, v) = t
    BY <1>2 DEF Insert
  <2>2. /\ t \in Seq(S) /\ Len(t) = Len(s) + 1
        /\ \A i \in 1 .. Len(s) : t[i] = s[i]
        /\ t[Len(s) + 1] = v
    BY AppendProperties
  <2>3. DOMAIN t = 1 .. Len(s) + 1 /\ DOMAIN s = 1 .. Len(s) /\ Len(s) \in Nat
    BY <2>2
  <2>4. ASSUME NoRepetition(s), NEW i \in DOMAIN t, NEW n \in DOMAIN t, t[i] = t[n]
        PROVE  i = n
    <3> HIDE DEF t
    <3>1. \A m \in 1 .. Len(s) : s[m] # v
      BY <1>2, <2>3 DEF Elems
    <3> QED
      BY <2>2, <2>3, <2>4, <3>1 DEF NoRepetition
  <2> QED
    BY <2>1, <2>4, AppendElems DEF NoRepetition
<1> QED
  BY <1>1, <1>2

LEMMA ConcatElems ==
  ASSUME NEW S, NEW s \in Seq(S), NEW t \in Seq(S)
  PROVE  /\ s \o t \in Seq(S)
         /\ Elems(s \o t) \subseteq Elems(s) \cup Elems(t)
<1> DEFINE u == s \o t
<1>1. /\ u \in Seq(S) /\ Len(u) = Len(s) + Len(t)
      /\ \A i \in 1 .. Len(s) + Len(t) :
            u[i] = IF i <= Len(s) THEN s[i] ELSE t[i - Len(s)]
  BY ConcatProperties
<1>2. DOMAIN u = 1 .. Len(s) + Len(t) /\ Len(s) \in Nat /\ Len(t) \in Nat
      /\ DOMAIN s = 1 .. Len(s) /\ DOMAIN t = 1 .. Len(t)
  BY <1>1
<1> HIDE DEF u
<1>3. ASSUME NEW i \in DOMAIN u
      PROVE  u[i] \in Elems(s) \cup Elems(t)
  <2>1. CASE i <= Len(s)
    BY <2>1, <1>1, <1>2 DEF Elems
  <2>2. CASE i > Len(s)
    <3>1. i - Len(s) \in 1 .. Len(t) /\ u[i] = t[i - Len(s)]
      BY <2>2, <1>1, <1>2
    <3> QED
      BY <3>1, <1>2 DEF Elems
  <2> QED
    BY <2>1, <2>2, <1>2
<1> QED
  BY <1>1, <1>3 DEF Elems, u

\* A tail or a middle of a sequence.
LEMMA SubSeqElems ==
  ASSUME NEW S, NEW s \in Seq(S), NEW m \in Nat \ {0}, NEW n \in Int, n <= Len(s)
  PROVE  /\ SubSeq(s, m, n) \in Seq(S)
         /\ Elems(SubSeq(s, m, n)) \subseteq Elems(s)
<1>1. DOMAIN s = 1 .. Len(s) /\ Len(s) \in Nat
  OBVIOUS
<1>2. \A i \in m .. n : s[i] \in Elems(s) /\ s[i] \in S
  BY <1>1 DEF Elems
<1> DEFINE u == SubSeq(s, m, n)
<1>3. u \in Seq(Elems(s)) /\ u \in Seq(S)
  BY <1>2, SubSeqProperties
<1> HIDE DEF u
<1>4. \A i \in DOMAIN u : u[i] \in Elems(s)
  BY <1>3
<1> QED
  BY <1>3, <1>4 DEF Elems, u

\* Moving one input to the front keeps the inputs.
LEMMA MovedToFrontElems ==
  ASSUME inputs \in Seq(Values), NEW i \in DOMAIN inputs
  PROVE  /\ MovedToFront(i) \in Seq(Values)
         /\ Elems(MovedToFront(i)) = Elems(inputs)
         /\ NoRepetition(inputs) => NoRepetition(MovedToFront(i))
<1> DEFINE t == MovedToFront(i)
<1>1. DOMAIN inputs = 1 .. Len(inputs) /\ Len(inputs) \in Nat /\ i \in 1 .. Len(inputs)
  OBVIOUS
<1>2. /\ DOMAIN t = 1 .. Len(inputs)
      /\ \A n \in 1 .. Len(inputs) :
           t[n] = IF n = 1 THEN inputs[i] ELSE IF n <= i THEN inputs[n - 1] ELSE inputs[n]
  BY <1>1 DEF MovedToFront
<1>3. \A n \in 1 .. Len(inputs) : t[n] \in Values
  <2> SUFFICES ASSUME NEW n \in 1 .. Len(inputs)
               PROVE  t[n] \in Values
    OBVIOUS
  <2>1. n # 1 => n - 1 \in 1 .. Len(inputs)
    BY <1>1
  <2> QED
    BY <1>1, <1>2, <2>1
<1>4. t \in Seq(Values)
  <2>1. t = [n \in 1 .. Len(inputs) |-> t[n]]
    BY <1>1 DEF MovedToFront
  <2> QED
    BY <2>1, <1>1, <1>3
<1> HIDE DEF t
<1>5. ASSUME NEW n \in 1 .. Len(inputs)
      PROVE  t[n] \in Elems(inputs)
  <2>1. n # 1 => n - 1 \in 1 .. Len(inputs)
    BY <1>1
  <2> QED
    BY <1>1, <1>2, <2>1 DEF Elems
<1>6. ASSUME NEW n \in 1 .. Len(inputs)
      PROVE  inputs[n] \in Elems(t)
  <2>1. CASE n = i
    <3>1. 1 \in 1 .. Len(inputs) /\ t[1] = inputs[i]
      BY <1>1, <1>2
    <3> QED
      BY <2>1, <3>1, <1>2 DEF Elems
  <2>2. CASE n < i
    <3>1. n + 1 \in 1 .. Len(inputs) /\ t[n + 1] = inputs[n]
      BY <2>2, <1>1, <1>2
    <3> QED
      BY <3>1, <1>2 DEF Elems
  <2>3. CASE n > i
    <3>1. t[n] = inputs[n]
      BY <2>3, <1>1, <1>2
    <3> QED
      BY <3>1, <1>2 DEF Elems
  <2> QED
    BY <2>1, <2>2, <2>3, <1>1
<1>7. Elems(t) = Elems(inputs)
  BY <1>1, <1>2, <1>5, <1>6 DEF Elems
<1>8. ASSUME NoRepetition(inputs)
      PROVE  NoRepetition(t)
  <2> SUFFICES ASSUME NEW n \in 1 .. Len(inputs), NEW m \in 1 .. Len(inputs), t[n] = t[m]
               PROVE  n = m
    BY <1>2 DEF NoRepetition
  <2> DEFINE Old(x) == IF x = 1 THEN i ELSE IF x <= i THEN x - 1 ELSE x
  <2>1. Old(n) \in 1 .. Len(inputs) /\ Old(m) \in 1 .. Len(inputs)
    BY <1>1
  <2>2. t[n] = inputs[Old(n)] /\ t[m] = inputs[Old(m)]
    BY <1>2
  <2>3. Old(n) = Old(m)
    BY <1>1, <1>8, <2>1, <2>2 DEF NoRepetition
  <2> QED
    BY <1>1, <2>3
<1> QED
  BY <1>4, <1>7, <1>8 DEF t

-----------------------------------------------------------------------------
(* Types *)

Started == {"inputs", "cells", "locals", "exit", "cloned"}

Known ==
  /\ fn \in Regions
  /\ ~severed => ops = fn.ops /\ body = IF fn.eligible THEN fn.body ELSE <<>>
  /\ severed => pc \in Started
  /\ \A g \in Elems(geps) \cup Elems(kept) : fn.kind[g] = "gep"

\* Before cloneFunction looks an input up in InputToOutputMap: every input of
\* OutputToInputMap is there.
Related ==
  /\ \A x \in DOMAIN oiMap : oiMap[x] \in DOMAIN ioMap
  /\ pc \notin {"info", "scan", "geps", "map", "abort"} =>
       DOMAIN oiMap \cap Elems(inputs) \subseteq DOMAIN ioMap

Typed == TypeOK /\ Known /\ Related

LEMMA FnType ==
  ASSUME fn \in Regions
  PROVE  /\ fn \in RegionRecords
         /\ fn.body \in Seq(Values) /\ fn.ops \in [Values -> Seq(Values)]
         /\ fn.kind \in [Values -> Kinds] /\ fn.ptrs \subseteq Values
         /\ fn.outPreds \in Nat
         /\ \A v \in Values : fn.kind[v] = "gep" => fn.ops[v] # <<>> /\ fn.ops[v][1] \in fn.ptrs
BY RegionAssumption DEF RegionRecords

\* An input that OutputToInputMap names can be looked up in InputToOutputMap.
LEMMA BidirectionalIsMapped ==
  ASSUME Related, pc \notin {"info", "scan", "geps", "map", "abort"},
         NEW v \in Elems(inputs), Bidirectional(v)
  PROVE  v \in DOMAIN ioMap
BY DEF Related, Bidirectional

\* The base of a getelementptr is a value, of pointer type.
LEMMA BaseType ==
  ASSUME TypeOK, Known, ~severed, NEW g \in Values, fn.kind[g] = "gep"
  PROVE  ops[g][1] \in fn.ptrs /\ ops[g][1] \in Values
BY FnType DEF Known, TypeOK, CodeTyped

LEMMA OperandType ==
  ASSUME TypeOK, NEW i \in Nat, 1 <= i, i <= Len(body),
         NEW n \in Nat, 1 <= n, n <= Len(ops[body[i]])
  PROVE  body[i] \in Values /\ ops[body[i]][n] \in Values
<1>1. body[i] \in Values
  BY ElementType DEF TypeOK, CodeTyped
<1> QED
  BY <1>1, ElementType DEF TypeOK, CodeTyped

\* The unchanged variables, one by one.
LEMMA Same ==
  /\ UNCHANGED found => inputs' = inputs /\ outputs' = outputs
  /\ UNCHANGED addresses => geps' = geps /\ kept' = kept
  /\ UNCHANGED related => ioMap' = ioMap /\ oiMap' = oiMap
  /\ UNCHANGED locals => allocas' = allocas /\ inits' = inits
  /\ UNCHANGED code => body' = body /\ ops' = ops /\ severed' = severed
  /\ UNCHANGED new => params' = params /\ bound' = bound /\ stores' = stores
BY DEF found, addresses, related, locals, code, new

\* A part of the type invariant whose variables do not change.
LEMMA SameTypes ==
  ASSUME TypeOK
  PROVE  /\ UNCHANGED <<found, addresses>> => FoundTyped'
         /\ UNCHANGED <<found, related>> => RelatedTyped'
         /\ UNCHANGED <<found, locals>> => LocalsTyped'
         /\ UNCHANGED <<found, new>> => NewTyped'
<1>1. ASSUME UNCHANGED <<found, addresses>>
      PROVE  FoundTyped'
  BY <1>1, Same DEF TypeOK, FoundTyped, NoRepetition
<1>2. ASSUME UNCHANGED <<found, related>>
      PROVE  RelatedTyped'
  BY <1>2, Same DEF TypeOK, RelatedTyped, Elems
<1>3. ASSUME UNCHANGED <<found, locals>>
      PROVE  LocalsTyped'
  BY <1>3, Same DEF TypeOK, LocalsTyped, Elems
<1>4. ASSUME UNCHANGED <<found, new>>
      PROVE  NewTyped'
  BY <1>4, Same DEF TypeOK, NewTyped, Elems
<1> QED
  BY <1>1, <1>2, <1>3, <1>4

\* The parts that stay right when inputs or outputs are added.
LEMMA GrowingFound ==
  ASSUME TypeOK, Elems(inputs) \subseteq Elems(inputs'), Elems(outputs) \subseteq Elems(outputs')
  PROVE  /\ UNCHANGED related => RelatedTyped'
         /\ UNCHANGED locals => LocalsTyped'
         /\ UNCHANGED new => NewTyped'
<1>1. ASSUME UNCHANGED related
      PROVE  RelatedTyped'
  BY <1>1, Same DEF TypeOK, RelatedTyped
<1>2. ASSUME UNCHANGED locals
      PROVE  LocalsTyped'
  BY <1>2, Same DEF TypeOK, LocalsTyped, Elems
<1>3. ASSUME UNCHANGED new
      PROVE  NewTyped'
  BY <1>3, Same DEF TypeOK, NewTyped
<1> QED
  BY <1>1, <1>2, <1>3

LEMMA InitTyped == Init => Typed
<1> SUFFICES ASSUME Init
             PROVE  Typed
  OBVIOUS
<1> USE FnType DEF Init
<1>1. body \in Seq(Values) /\ ops \in [Values -> Seq(Values)]
  OBVIOUS
<1>2. /\ inputs \in Seq(Values) /\ outputs \in Seq(Values) /\ geps \in Seq(Values)
      /\ kept \in Seq(Values) /\ allocas \in Seq(Values) /\ params \in Seq(Values)
      /\ inits \in Seq({"unset", "start", "guess", "bound"})
  OBVIOUS
<1>3. NoRepetition(inputs) /\ NoRepetition(outputs)
  BY DEF NoRepetition
<1>4. /\ ioMap \in [DOMAIN ioMap -> Elems(outputs)] /\ DOMAIN ioMap \subseteq Elems(inputs)
      /\ oiMap \in [DOMAIN oiMap -> Elems(inputs)] /\ DOMAIN oiMap \subseteq Elems(outputs)
      /\ bound \in [DOMAIN bound -> Uses] /\ DOMAIN bound \subseteq Elems(inputs)
      /\ stores \subseteq Elems(outputs)
  OBVIOUS
<1>5. Elems(allocas) \subseteq Elems(inputs)
  BY DEF Elems
<1>6. TypeOK
  <2>1. CodeTyped
    <3>1. asserts \in BOOLEAN /\ severed \in BOOLEAN /\ pc = "info"
      OBVIOUS
    <3>2. k \in Nat \ {0} /\ j \in Nat \ {0}
      OBVIOUS
    <3> QED
      BY <1>1, <3>1, <3>2, Zenon DEF CodeTyped
  <2>2. FoundTyped
    BY <1>2, <1>3 DEF FoundTyped
  <2>3. RelatedTyped /\ LocalsTyped /\ NewTyped
    BY <1>2, <1>4, <1>5 DEF RelatedTyped, LocalsTyped, NewTyped
  <2> QED
    BY <2>1, <2>2, <2>3 DEF TypeOK
<1>7. Known /\ Related
  BY DEF Known, Related, Elems
<1> QED
  BY <1>6, <1>7 DEF Typed

LEMMA InitsOfType ==
  ASSUME NEW v
  PROVE  InitsOf(v) \in Seq({"unset", "start", "guess", "bound"})
<1> DEFINE S == {"unset", "start", "guess", "bound"}
<1>1. PICK a \in Seq(S), b \in Seq(S), c \in Seq(S) : InitsOf(v) = a \o b \o c
  <2> DEFINE a == IF v \in fn.inner THEN <<"unset">> ELSE <<>>
             b == IF v \in fn.outer
                  THEN <<IF v \in fn.constStart THEN "start" ELSE "guess">> ELSE <<>>
             c == IF OnlyInConditions(v) THEN <<"bound">> ELSE <<>>
  <2>1. "unset" \in S /\ "start" \in S /\ "guess" \in S /\ "bound" \in S
    OBVIOUS
  <2>2. (IF v \in fn.constStart THEN "start" ELSE "guess") \in S
    OBVIOUS
  <2> HIDE DEF S
  <2>3. a \in Seq(S)
    BY <2>1
  <2>4. b \in Seq(S)
    BY <2>2
  <2>5. c \in Seq(S)
    BY <2>1
  <2>6. a \in Seq(S) /\ b \in Seq(S) /\ c \in Seq(S)
    BY <2>3, <2>4, <2>5
  <2>7. InitsOf(v) = a \o b \o c
    BY DEF InitsOf
  <2> QED
    BY <2>6, <2>7
<1> HIDE DEF S
<1>2. a \o b \in Seq(S)
  BY ConcatProperties
<1>3. a \o b \o c \in Seq(S)
  BY <1>2, ConcatProperties
<1> QED
  BY <1>1, <1>3 DEF S

\* The first block of the region after severSplitPHINodes.
LEMMA SeveredTypes ==
  ASSUME fn \in Regions, body \in Seq(Values), ops \in [Values -> Seq(Values)],
         body = fn.body, ops = fn.ops,
         NEW n \in DOMAIN body, SeverHeader(n)
  PROVE  body' \in Seq(Values) /\ ops' \in [Values -> Seq(Values)]
<1> DEFINE phis == {body[i] : i \in 1 .. n}
           twins == \E v \in phis : Len(ops[v]) > fn.outPreds
           Of(v) == IF twins /\ v \in phis THEN Severed(v) ELSE v
           Renamed(s) == [i \in DOMAIN s |-> Of(s[i])]
           FromOutside(v) == SubSeq(ops[v], 1, fn.outPreds)
           FromInside(v) == SubSeq(ops[v], fn.outPreds + 1, Len(ops[v]))
           Operands(v) ==
             IF ~twins THEN ops[v]
             ELSE IF v \in phis THEN Renamed(FromOutside(v))
             ELSE IF \E p \in phis : v = Severed(p)
                  THEN LET p == CHOOSE p \in phis : v = Severed(p)
                       IN  <<p>> \o Renamed(FromInside(p))
             ELSE Renamed(ops[v])
           first == IF twins THEN [i \in 1 .. n |-> Severed(body[i])] ELSE <<>>
           last == SubSeq(body, n + 1, Len(body))
<1>1. body' = first \o last /\ ops' = [v \in Values |-> Operands(v)]
  BY DEF SeverHeader
<1>2. n \in Nat \ {0} /\ n <= Len(body) /\ Len(body) \in Nat /\ fn.outPreds \in Nat
  BY FnType
<1>3. \A i \in 1 .. Len(body) : body[i] \in Values
  OBVIOUS
<1>4. phis \subseteq Values
  BY <1>2, <1>3
<1>5. \A v \in Values : Of(v) \in Values
  BY RegionAssumption
<1>6. first \in Seq(Values)
  <2>1. \A i \in 1 .. n : Severed(body[i]) \in Values
    BY <1>2, <1>3, RegionAssumption
  <2> DEFINE f == [i \in 1 .. n |-> Severed(body[i])]
  <2>2. f \in Seq(Values)
    <3>1. \A i \in 1 .. n : f[i] \in Values
      BY <2>1
    <3>2. f = [i \in 1 .. n |-> f[i]]
      OBVIOUS
    <3> HIDE DEF f
    <3> QED
      BY <1>2, <3>1, <3>2
  <2> HIDE DEF twins
  <2>3. CASE twins
    BY <2>2, <2>3
  <2>4. CASE ~twins
    BY <2>4
  <2> QED
    BY <2>3, <2>4
<1>7. last \in Seq(Values)
  BY <1>2, SubSeqElems
<1>8. ASSUME NEW s \in Seq(Values)
      PROVE  Renamed(s) \in Seq(Values)
  <2>1. DOMAIN s = 1 .. Len(s) /\ Len(s) \in Nat /\ \A i \in 1 .. Len(s) : s[i] \in Values
    OBVIOUS
  <2>2. \A i \in 1 .. Len(s) : Of(s[i]) \in Values
    BY <1>5, <2>1
  <2> HIDE DEF Of
  <2> QED
    BY <2>1, <2>2
<1>9. ASSUME NEW v \in phis
      PROVE  FromOutside(v) \in Seq(Values) /\ FromInside(v) \in Seq(Values)
  <2>1. ops[v] \in Seq(Values)
    BY <1>4
  <2>2. PICK i \in 1 .. n : v = body[i]
    OBVIOUS
  <2>3. AreHeaderPhis(n)
    BY DEF SeverHeader
  <2> HIDE DEF phis, twins, first, last
  <2>4. /\ i \in DOMAIN fn.body
        /\ \A m \in 1 .. i : fn.kind[fn.body[m]] = "phi"
    BY <1>2, <2>3 DEF AreHeaderPhis
  <2>5. fn.outPreds <= Len(ops[v])
    BY <2>2, <2>4, RegionAssumption
  <2>6. /\ 1 \in Nat \ {0} /\ fn.outPreds \in Int
        /\ fn.outPreds + 1 \in Nat \ {0} /\ Len(ops[v]) \in Int
    BY <2>1, <1>2
  <2>7. FromOutside(v) \in Seq(Values)
    BY <2>1, <2>5, <2>6, SubSeqElems
  <2>8. FromInside(v) \in Seq(Values)
    BY <2>1, <2>5, <2>6, SubSeqElems
  <2> QED
    BY <2>7, <2>8
<1> HIDE DEF Renamed, FromOutside, FromInside, phis, first, last
<1>10. ASSUME NEW v \in Values
       PROVE  Operands(v) \in Seq(Values)
  <2>1. CASE ~twins
    BY <2>1
  <2>2. CASE twins /\ v \in phis
    BY <2>2, <1>8, <1>9
  <2>3. CASE twins /\ v \notin phis /\ \E p \in phis : v = Severed(p)
    <3> DEFINE p == CHOOSE p \in phis : v = Severed(p)
    <3>1. p \in phis
      BY <2>3
    <3> HIDE DEF p
    <3>2. p \in Values /\ Renamed(FromInside(p)) \in Seq(Values)
      BY <3>1, <1>4, <1>8, <1>9
    <3>3. <<p>> \o Renamed(FromInside(p)) \in Seq(Values)
      BY <3>2, ConcatElems
    <3> QED
      BY <2>3, <3>3 DEF p
  <2>4. CASE twins /\ v \notin phis /\ ~\E p \in phis : v = Severed(p)
    BY <2>4, <1>8
  <2> QED
    BY <2>1, <2>2, <2>3, <2>4
<1> HIDE DEF Operands
<1>11. ops' \in [Values -> Seq(Values)]
  BY <1>1, <1>10
<1>12. body' \in Seq(Values)
  BY <1>1, <1>6, <1>7, ConcatElems
<1> QED
  BY <1>11, <1>12

LEMMA TypedStep ==
  ASSUME Typed, [Next]_vars
  PROVE  Typed'
<1> USE DEF Typed
<1>1. CASE UNCHANGED vars
  <2>1. /\ fn' = fn /\ asserts' = asserts /\ k' = k /\ j' = j /\ pc' = pc
        /\ UNCHANGED <<found, addresses, related, locals, code, new>>
    BY <1>1 DEF vars
  <2>2. TypeOK'
    <3>1. CodeTyped'
      BY <2>1, Same DEF TypeOK, CodeTyped
    <3> QED
      BY <2>1, <3>1, SameTypes DEF TypeOK
  <2>3. Known' /\ Related'
    BY <2>1, Same DEF Known, Related, Elems
  <2> QED
    BY <2>2, <2>3
<1>2. CASE \/ TakeIteratorInfo \/ EndGeps \/ ReorderNothing \/ StackAbort \/ EndStack
           \/ Check \/ CloneNothing \/ KeepHeader
  <2>1. /\ fn' = fn /\ asserts' = asserts /\ j' = j /\ k' \in {k, 1}
        /\ UNCHANGED <<found, addresses, related, locals, code, new>>
        /\ pc' \in {"scan", "abort", "map", "undefined", "check", "declined", "clone", "inputs"}
        /\ pc \notin {"inputs", "cells", "locals", "exit", "cloned"}
        /\ pc \in {"info", "scan", "geps", "map", "abort"} =>
              pc' \in {"info", "scan", "geps", "map", "abort"}
    BY <1>2 DEF TakeIteratorInfo, EndGeps, ReorderNothing, StackAbort, EndStack, Check,
                CloneNothing, KeepHeader
  <2>2. TypeOK'
    <3>1. CodeTyped'
      BY <2>1, Same DEF TypeOK, CodeTyped
    <3> QED
      BY <2>1, <3>1, SameTypes DEF TypeOK
  <2>3. Known'
    BY <2>1, Same DEF Known, Started
  <2>4. Related'
    BY <2>1, Same DEF Related, Elems
  <2> QED
    BY <2>2, <2>3, <2>4
<1>3. CASE ScanOperand
  <2> DEFINE v == ops[body[k]][j]
  <2>1. /\ fn' = fn /\ asserts' = asserts /\ k' = k /\ j' = j + 1 /\ pc' = pc /\ pc = "scan"
        /\ outputs' = outputs
        /\ inputs' = (IF DefinedInCaller(v) THEN Insert(inputs, v) ELSE inputs)
        /\ UNCHANGED <<addresses, related, locals, code, new>>
    BY <1>3 DEF ScanOperand
  <2>2. v \in Values
    BY <1>3, OperandType DEF ScanOperand, TypeOK, CodeTyped
  <2>3. inputs \in Seq(Values) /\ NoRepetition(inputs)
    BY DEF TypeOK, FoundTyped
  <2>4. /\ inputs' \in Seq(Values) /\ NoRepetition(inputs')
        /\ Elems(inputs) \subseteq Elems(inputs')
    BY <2>1, <2>2, <2>3, InsertElems
  <2>5. TypeOK'
    BY <2>1, <2>4, Same, GrowingFound DEF TypeOK, CodeTyped, FoundTyped
  <2>6. Known' /\ Related'
    BY <2>1, Same DEF Known, Related
  <2> QED
    BY <2>5, <2>6
<1>4. CASE ScanUsers
  <2> DEFINE v == body[k]
  <2>1. /\ fn' = fn /\ asserts' = asserts /\ k' = k + 1 /\ j' = 1 /\ pc' = pc /\ pc = "scan"
        /\ inputs' = inputs
        /\ outputs' = (IF \E u \in Users(v) : ~DefinedInRegion(u) THEN Insert(outputs, v) ELSE outputs)
        /\ geps' = (IF fn.kind[v] = "gep" THEN Append(geps, v) ELSE geps)
        /\ kept' = (IF IsGlobalGep(v) THEN Append(kept, v) ELSE kept)
        /\ UNCHANGED <<related, locals, code, new>>
    BY <1>4 DEF ScanUsers
  <2>2. v \in Values
    BY <1>4, ElementType DEF ScanUsers, TypeOK, CodeTyped
  <2>3. /\ outputs \in Seq(Values) /\ NoRepetition(outputs)
        /\ geps \in Seq(Values) /\ kept \in Seq(Values)
    BY DEF TypeOK, FoundTyped
  <2>4. /\ outputs' \in Seq(Values) /\ NoRepetition(outputs')
        /\ Elems(outputs) \subseteq Elems(outputs')
    BY <2>1, <2>2, <2>3, InsertElems
  <2>5. /\ geps' \in Seq(Values) /\ kept' \in Seq(Values)
        /\ \A g \in Elems(geps') \cup Elems(kept') : fn.kind[g] = "gep"
    BY <2>1, <2>2, <2>3, AppendElems DEF Known, IsGlobalGep
  <2>6. TypeOK'
    BY <2>1, <2>4, <2>5, Same, GrowingFound DEF TypeOK, CodeTyped, FoundTyped
  <2>7. Known' /\ Related'
    BY <2>1, <2>5, Same DEF Known, Related
  <2> QED
    BY <2>6, <2>7
<1>5. CASE EndScan
  <2> DEFINE rest == SubSeq(geps, Len(kept) + 2, Len(geps))
  <2>1. /\ fn' = fn /\ asserts' = asserts /\ k' = 1 /\ j' = j /\ pc' = "geps" /\ pc = "scan"
        /\ geps' = kept \o rest /\ kept' = kept
        /\ UNCHANGED <<found, related, locals, code, new>>
    BY <1>5 DEF EndScan
  <2>2. /\ geps \in Seq(Values) /\ kept \in Seq(Values)
        /\ Len(kept) + 2 \in Nat \ {0} /\ Len(geps) \in Int
    BY DEF TypeOK, FoundTyped
  <2>3. rest \in Seq(Values) /\ Elems(rest) \subseteq Elems(geps)
    BY <2>2, SubSeqElems
  <2>4. geps' \in Seq(Values) /\ Elems(geps') \subseteq Elems(kept) \cup Elems(geps)
    <3> HIDE DEF rest
    <3>1. kept \o rest \in Seq(Values) /\ Elems(kept \o rest) \subseteq Elems(kept) \cup Elems(rest)
      BY <2>2, <2>3, ConcatElems
    <3> QED
      BY <2>1, <2>3, <3>1
  <2>5. FoundTyped'
    BY <2>1, <2>2, <2>4, Same DEF TypeOK, FoundTyped, NoRepetition
  <2>6. CodeTyped'
    BY <2>1, Same DEF TypeOK, CodeTyped
  <2>7. TypeOK'
    BY <2>1, <2>5, <2>6, SameTypes DEF TypeOK
  <2>8. \A g \in Elems(geps') \cup Elems(kept') : fn.kind[g] = "gep"
    BY <2>1, <2>4 DEF Known
  <2>9. Known'
    BY <2>1, <2>8, Same DEF Known, Started
  <2>10. Related'
    BY <2>1, Same DEF Related
  <2> QED
    BY <2>7, <2>9, <2>10
<1>6. CASE VisitGep
  <2> DEFINE base == ops[geps[k]][1]
  <2>1. /\ fn' = fn /\ asserts' = asserts /\ k' = k + 1 /\ j' = j /\ pc' = pc /\ pc = "geps"
        /\ outputs' \in {outputs, Insert(outputs, base)}
        /\ inputs' \in {inputs, Insert(inputs, base)}
        /\ UNCHANGED <<addresses, related, locals, code, new>>
    BY <1>6 DEF VisitGep
  <2>2. geps[k] \in Values /\ fn.kind[geps[k]] = "gep"
    BY <1>6, ElementType DEF VisitGep, Known, TypeOK, FoundTyped, CodeTyped
  <2>3. base \in Values
    BY <2>1, <2>2, BaseType DEF Known, Started
  <2>4. /\ outputs \in Seq(Values) /\ NoRepetition(outputs)
        /\ inputs \in Seq(Values) /\ NoRepetition(inputs)
    BY DEF TypeOK, FoundTyped
  <2>5. /\ outputs' \in Seq(Values) /\ NoRepetition(outputs')
        /\ Elems(outputs) \subseteq Elems(outputs')
        /\ inputs' \in Seq(Values) /\ NoRepetition(inputs')
        /\ Elems(inputs) \subseteq Elems(inputs')
    BY <2>1, <2>3, <2>4, InsertElems
  <2>6. TypeOK'
    BY <2>1, <2>5, Same, GrowingFound DEF TypeOK, CodeTyped, FoundTyped
  <2>7. Known' /\ Related'
    BY <2>1, Same DEF Known, Related
  <2> QED
    BY <2>6, <2>7
<1>7. CASE MapIncoming
  <2> DEFINE v == inputs[k]
             incoming == ops[v][j]
  <2>1. /\ fn' = fn /\ asserts' = asserts /\ k' = k /\ j' = j + 1 /\ pc' = pc /\ pc = "map"
        /\ UNCHANGED <<found, addresses, locals, code, new>>
    BY <1>7 DEF MapIncoming
  <2>2. v \in Elems(inputs)
    BY <1>7, ElementType DEF MapIncoming, TypeOK, FoundTyped, CodeTyped
  <2>3. CodeTyped'
    BY <2>1, Same DEF TypeOK, CodeTyped
  <2>4. CASE incoming \in Elems(outputs)
    <3> DEFINE io == [x \in {v} |-> incoming]
               oi == [x \in {incoming} |-> v]
    <3>1. /\ ioMap' = Override(ioMap, io)
          /\ oiMap' = Override(oiMap, oi)
      BY <1>7, <2>4 DEF MapIncoming
    <3>2. /\ io \in [DOMAIN io -> Elems(outputs)] /\ DOMAIN io = {v} /\ io[v] = incoming
          /\ oi \in [DOMAIN oi -> Elems(inputs)] /\ DOMAIN oi = {incoming} /\ oi[incoming] = v
      BY <2>2, <2>4
    <3>3. /\ ioMap \in [DOMAIN ioMap -> Elems(outputs)] /\ DOMAIN ioMap \subseteq Elems(inputs)
          /\ oiMap \in [DOMAIN oiMap -> Elems(inputs)] /\ DOMAIN oiMap \subseteq Elems(outputs)
      BY DEF TypeOK, RelatedTyped
    <3> HIDE DEF io, oi
    <3>4. /\ ioMap' \in [DOMAIN ioMap' -> Elems(outputs)]
          /\ DOMAIN ioMap' = DOMAIN ioMap \cup {v}
      BY <3>1, <3>2, <3>3 DEF Override
    <3>5. /\ oiMap' \in [DOMAIN oiMap' -> Elems(inputs)]
          /\ DOMAIN oiMap' = DOMAIN oiMap \cup {incoming}
          /\ oiMap'[incoming] = v
          /\ \A x \in DOMAIN oiMap \ {incoming} : oiMap'[x] = oiMap[x]
      BY <3>1, <3>2, <3>3 DEF Override
    <3>6. RelatedTyped'
      BY <2>1, <2>2, <2>4, <3>3, <3>4, <3>5, Same DEF RelatedTyped, Elems
    <3>7. Related'
      BY <2>1, <3>4, <3>5 DEF Related
    <3> QED
      BY <2>1, <2>3, <3>6, <3>7, SameTypes, Same DEF TypeOK, Known
  <2>5. CASE incoming \notin Elems(outputs)
    <3>1. UNCHANGED related
      BY <1>7, <2>5 DEF MapIncoming
    <3>2. Known' /\ Related'
      BY <2>1, <3>1, Same DEF Known, Related
    <3> QED
      BY <2>1, <2>3, <3>1, <3>2, SameTypes DEF TypeOK
  <2> QED
    BY <2>4, <2>5
<1>8. CASE MapNext
  <2>1. /\ fn' = fn /\ asserts' = asserts /\ k' = k + 1 /\ j' = 1 /\ pc' = pc /\ pc = "map"
        /\ UNCHANGED <<found, addresses, related, locals, code, new>>
    BY <1>8 DEF MapNext
  <2>2. CodeTyped'
    BY <2>1, Same DEF TypeOK, CodeTyped
  <2>3. Known' /\ Related'
    BY <2>1, Same DEF Known, Related
  <2> QED
    BY <2>1, <2>2, <2>3, SameTypes DEF TypeOK
<1>9. CASE MapOutputs
  <2> DEFINE both == Elems(inputs) \cap Elems(outputs)
             self == [x \in both |-> x]
  <2>1. /\ fn' = fn /\ asserts' = asserts /\ k' = k /\ j' = j /\ pc' = "reorder" /\ pc = "map"
        /\ ioMap' = Override(ioMap, self) /\ oiMap' = Override(oiMap, self)
        /\ UNCHANGED <<found, addresses, locals, code, new>>
    BY <1>9 DEF MapOutputs
  <2>2. /\ ioMap \in [DOMAIN ioMap -> Elems(outputs)] /\ DOMAIN ioMap \subseteq Elems(inputs)
        /\ oiMap \in [DOMAIN oiMap -> Elems(inputs)] /\ DOMAIN oiMap \subseteq Elems(outputs)
    BY DEF TypeOK, RelatedTyped
  <2>3. /\ self \in [DOMAIN self -> Elems(outputs)] /\ self \in [DOMAIN self -> Elems(inputs)]
        /\ DOMAIN self = both /\ \A x \in both : self[x] = x
    OBVIOUS
  <2> HIDE DEF self
  <2>4. /\ ioMap' \in [DOMAIN ioMap' -> Elems(outputs)]
        /\ DOMAIN ioMap' = DOMAIN ioMap \cup both
    BY <2>1, <2>2, <2>3 DEF Override
  <2>5. /\ oiMap' \in [DOMAIN oiMap' -> Elems(inputs)]
        /\ DOMAIN oiMap' = DOMAIN oiMap \cup both
        /\ \A x \in both : oiMap'[x] = x
        /\ \A x \in DOMAIN oiMap \ both : oiMap'[x] = oiMap[x]
    BY <2>1, <2>2, <2>3 DEF Override
  <2>6. RelatedTyped'
    BY <2>1, <2>2, <2>4, <2>5, Same DEF RelatedTyped, Elems
  <2>7. CodeTyped'
    BY <2>1, Same DEF TypeOK, CodeTyped
  <2>8. Related'
    BY <2>1, <2>2, <2>4, <2>5, Same DEF Related, Elems
  <2>9. Known'
    BY <2>1, Same DEF Known, Started
  <2> QED
    BY <2>1, <2>6, <2>7, <2>8, <2>9, SameTypes DEF TypeOK
<1>10. CASE ReorderInputs
  <2>1. /\ fn' = fn /\ asserts' = asserts /\ k' = 1 /\ j' = j /\ pc' = "stack" /\ pc = "reorder"
        /\ inputs' = inputs \/ \E i \in DOMAIN inputs : inputs' = MovedToFront(i)
        /\ outputs' = outputs
        /\ UNCHANGED <<addresses, related, locals, code, new>>
    BY <1>10 DEF ReorderInputs
  <2>2. inputs \in Seq(Values) /\ NoRepetition(inputs)
    BY DEF TypeOK, FoundTyped
  <2>3. inputs' \in Seq(Values) /\ Elems(inputs') = Elems(inputs) /\ NoRepetition(inputs')
    BY <2>1, <2>2, MovedToFrontElems
  <2>4. CodeTyped'
    BY <2>1, Same DEF TypeOK, CodeTyped
  <2>5. FoundTyped'
    BY <2>1, <2>3, Same DEF TypeOK, FoundTyped
  <2>6. TypeOK'
    BY <2>1, <2>3, <2>4, <2>5, Same, GrowingFound DEF TypeOK
  <2>7. Known'
    BY <2>1, Same DEF Known, Started
  <2>8. Related'
    BY <2>1, <2>3, Same DEF Related
  <2> QED
    BY <2>6, <2>7, <2>8
<1>11. CASE StackAllocate
  <2> DEFINE v == inputs[k]
  <2>1. /\ fn' = fn /\ asserts' = asserts /\ k' = k + 1 /\ j' = j /\ pc' = pc /\ pc = "stack"
        /\ inits' = inits \o InitsOf(v)
        /\ allocas' \in {allocas, Insert(allocas, v)}
        /\ UNCHANGED <<found, addresses, related, code, new>>
    BY <1>11 DEF StackAllocate
  <2>2. v \in Values /\ v \in Elems(inputs)
    BY <1>11, ElementType DEF StackAllocate, TypeOK, FoundTyped, CodeTyped
  <2>3. inits' \in Seq({"unset", "start", "guess", "bound"})
    <3> DEFINE S == {"unset", "start", "guess", "bound"}
    <3>1. inits \in Seq(S)
      BY DEF TypeOK, LocalsTyped
    <3>2. InitsOf(v) \in Seq(S)
      BY InitsOfType
    <3> HIDE DEF S
    <3>3. inits \o InitsOf(v) \in Seq(S)
      BY <3>1, <3>2, ConcatProperties
    <3> QED
      BY <2>1, <3>3 DEF S
  <2>4. allocas \in Seq(Values) /\ Elems(allocas) \subseteq Elems(inputs)
    BY DEF TypeOK, LocalsTyped
  <2>5. allocas' \in Seq(Values) /\ Elems(allocas') \subseteq Elems(inputs)
    BY <2>1, <2>2, <2>4, InsertElems
  <2>6. LocalsTyped'
    BY <2>1, <2>3, <2>5, Same DEF LocalsTyped, Elems
  <2>7. CodeTyped'
    BY <2>1, Same DEF TypeOK, CodeTyped
  <2>8. Known' /\ Related'
    BY <2>1, Same DEF Known, Related, Elems
  <2> QED
    BY <2>1, <2>6, <2>7, <2>8, SameTypes DEF TypeOK
<1>12. ASSUME NEW n \in DOMAIN body, SeverHeader(n)
       PROVE  Typed'
  <2>1. /\ fn' = fn /\ asserts' = asserts /\ k' = 1 /\ j' = j /\ pc' = "inputs" /\ pc = "clone"
        /\ severed' = TRUE
        /\ UNCHANGED <<found, addresses, related, locals, new>>
    BY <1>12 DEF SeverHeader
  <2>2. body' \in Seq(Values) /\ ops' \in [Values -> Seq(Values)]
    <3>1. body = fn.body /\ ops = fn.ops /\ fn \in Regions
      BY <1>12, <2>1 DEF SeverHeader, Known, Started
    <3> QED
      BY <1>12, <3>1, SeveredTypes DEF TypeOK, CodeTyped
  <2>3. CodeTyped'
    <3>1. asserts' \in BOOLEAN /\ severed' \in BOOLEAN
      BY <2>1, Zenon DEF TypeOK, CodeTyped
    <3>2. k' \in Nat \ {0} /\ j' \in Nat \ {0}
      BY <2>1 DEF TypeOK, CodeTyped
    <3> QED
      BY <2>1, <2>2, <3>1, <3>2, Zenon DEF CodeTyped
  <2>4. Known'
    BY <2>1, Same DEF Known, Started
  <2>5. Related'
    BY <2>1, Same DEF Related, Elems
  <2> QED
    BY <2>1, <2>3, <2>4, <2>5, SameTypes DEF TypeOK
<1>13. CASE BindInput
  <2> DEFINE v == inputs[k]
             use == [x \in {v} |-> [use |-> "parameter", of |-> x]]
  <2>1. /\ fn' = fn /\ asserts' = asserts /\ k' = k + 1 /\ j' = j /\ pc' = pc /\ pc = "inputs"
        /\ \/ params' = params /\ bound' = bound
           \/ params' = Append(params, v) /\ bound' = Override(bound, use)
        /\ stores' = stores
        /\ UNCHANGED <<found, addresses, related, locals, code>>
    BY <1>13 DEF BindInput
  <2>2. v \in Values /\ v \in Elems(inputs)
    BY <1>13, ElementType DEF BindInput, TypeOK, FoundTyped, CodeTyped
  <2>3. /\ params \in Seq(Values) /\ bound \in [DOMAIN bound -> Uses]
        /\ DOMAIN bound \subseteq Elems(inputs) /\ stores \subseteq Elems(outputs)
    BY DEF TypeOK, NewTyped
  <2>4. use \in [DOMAIN use -> Uses] /\ DOMAIN use = {v}
    BY <2>2 DEF Uses
  <2> HIDE DEF use
  <2>5. bound' \in [DOMAIN bound' -> Uses] /\ DOMAIN bound' \subseteq Elems(inputs)
    BY <2>1, <2>2, <2>3, <2>4 DEF Override
  <2>6. params' \in Seq(Values)
    BY <2>1, <2>2, <2>3, AppendElems
  <2>7. NewTyped'
    BY <2>1, <2>3, <2>5, <2>6, Same DEF NewTyped, Elems
  <2>8. CodeTyped'
    BY <2>1, Same DEF TypeOK, CodeTyped
  <2>9. Known' /\ Related'
    BY <2>1, Same DEF Known, Related, Elems
  <2> QED
    BY <2>1, <2>7, <2>8, <2>9, SameTypes DEF TypeOK
<1>14. CASE BindOutputs
  <2>1. /\ fn' = fn /\ asserts' = asserts /\ k' = k /\ j' = j /\ pc' = "cells" /\ pc = "inputs"
        /\ params' = params \o outputs /\ bound' = bound /\ stores' = stores
        /\ UNCHANGED <<found, addresses, related, locals, code>>
    BY <1>14 DEF BindOutputs
  <2>2. params' \in Seq(Values)
    BY <2>1, ConcatElems DEF TypeOK, NewTyped, FoundTyped
  <2>3. NewTyped'
    BY <2>1, <2>2, Same DEF TypeOK, NewTyped, Elems
  <2>4. CodeTyped'
    BY <2>1, Same DEF TypeOK, CodeTyped
  <2>5. Known'
    BY <2>1, Same DEF Known, Started
  <2>6. Related'
    BY <2>1, Same DEF Related, Elems
  <2> QED
    BY <2>1, <2>3, <2>4, <2>5, <2>6, SameTypes DEF TypeOK
<1>15. CASE BindCells
  <2> DEFINE both == {x \in Elems(inputs) : Bidirectional(x)}
             cells == [v \in both |-> BidirectionalUse(v)]
  <2>1. /\ fn' = fn /\ asserts' = asserts /\ k' = k /\ j' = j /\ pc' = "locals" /\ pc = "cells"
        /\ bound' = Override(cells, bound) /\ params' = params /\ stores' = stores
        /\ UNCHANGED <<found, addresses, related, locals, code>>
    BY <1>15 DEF BindCells
  <2>2. \A v \in both : BidirectionalUse(v) \in Uses
    <3> SUFFICES ASSUME NEW v \in both
                 PROVE  BidirectionalUse(v) \in Uses
      OBVIOUS
    <3>1. v \in DOMAIN ioMap
      BY <2>1, BidirectionalIsMapped
    <3>2. ioMap[v] \in Values
      BY <3>1, ElementType DEF TypeOK, RelatedTyped, FoundTyped
    <3> QED
      BY <3>2 DEF BidirectionalUse, Uses
  <2>3. cells \in [DOMAIN cells -> Uses] /\ DOMAIN cells \subseteq Elems(inputs)
    BY <2>2
  <2>4. /\ params \in Seq(Values) /\ bound \in [DOMAIN bound -> Uses]
        /\ DOMAIN bound \subseteq Elems(inputs) /\ stores \subseteq Elems(outputs)
    BY DEF TypeOK, NewTyped
  <2> HIDE DEF cells
  <2>5. bound' \in [DOMAIN bound' -> Uses] /\ DOMAIN bound' \subseteq Elems(inputs)
    BY <2>1, <2>3, <2>4 DEF Override
  <2>6. NewTyped'
    BY <2>1, <2>4, <2>5, Same DEF NewTyped, Elems
  <2>7. CodeTyped'
    BY <2>1, Same DEF TypeOK, CodeTyped
  <2>8. Known'
    BY <2>1, Same DEF Known, Started
  <2>9. Related'
    BY <2>1, Same DEF Related, Elems
  <2> QED
    BY <2>1, <2>6, <2>7, <2>8, <2>9, SameTypes DEF TypeOK
<1>16. CASE BindLocals
  <2> DEFINE use == [v \in Elems(allocas) |-> [use |-> "local", of |-> v]]
  <2>1. /\ fn' = fn /\ asserts' = asserts /\ k' = k /\ j' = j /\ pc' = "exit" /\ pc = "locals"
        /\ bound' = Override(use, bound) /\ params' = params /\ stores' = stores
        /\ UNCHANGED <<found, addresses, related, locals, code>>
    BY <1>16 DEF BindLocals
  <2>2. Elems(allocas) \subseteq Elems(inputs) /\ Elems(allocas) \subseteq Values
    BY ElementType DEF TypeOK, LocalsTyped
  <2>3. use \in [DOMAIN use -> Uses] /\ DOMAIN use = Elems(allocas)
    BY <2>2 DEF Uses
  <2>4. /\ params \in Seq(Values) /\ bound \in [DOMAIN bound -> Uses]
        /\ DOMAIN bound \subseteq Elems(inputs) /\ stores \subseteq Elems(outputs)
    BY DEF TypeOK, NewTyped
  <2> HIDE DEF use
  <2>5. bound' \in [DOMAIN bound' -> Uses] /\ DOMAIN bound' \subseteq Elems(inputs)
    BY <2>1, <2>2, <2>3, <2>4 DEF Override
  <2>6. NewTyped'
    BY <2>1, <2>4, <2>5, Same DEF NewTyped, Elems
  <2>7. CodeTyped'
    BY <2>1, Same DEF TypeOK, CodeTyped
  <2>8. Known'
    BY <2>1, Same DEF Known, Started
  <2>9. Related'
    BY <2>1, Same DEF Related, Elems
  <2> QED
    BY <2>1, <2>6, <2>7, <2>8, <2>9, SameTypes DEF TypeOK
<1>17. CASE StoreOutputs
  <2>1. /\ fn' = fn /\ asserts' = asserts /\ k' = k /\ j' = j /\ pc' = "cloned" /\ pc = "exit"
        /\ stores' = {ioMap[v] : v \in {x \in Elems(inputs) : Bidirectional(x)}} \ fn.ptrs
        /\ bound' = bound /\ params' = params
        /\ UNCHANGED <<found, addresses, related, locals, code>>
    BY <1>17 DEF StoreOutputs
  <2>2. \A v \in {x \in Elems(inputs) : Bidirectional(x)} : ioMap[v] \in Elems(outputs)
    BY <2>1, BidirectionalIsMapped DEF TypeOK, RelatedTyped
  <2>3. stores' \subseteq Elems(outputs)
    BY <2>1, <2>2
  <2>4. NewTyped'
    BY <2>1, <2>3, Same DEF TypeOK, NewTyped, Elems
  <2>5. CodeTyped'
    BY <2>1, Same DEF TypeOK, CodeTyped
  <2>6. Known'
    BY <2>1, Same DEF Known, Started
  <2>7. Related'
    BY <2>1, Same DEF Related, Elems
  <2> QED
    BY <2>1, <2>4, <2>5, <2>6, <2>7, SameTypes DEF TypeOK
<1> QED
  BY <1>1, <1>2, <1>3, <1>4, <1>5, <1>6, <1>7, <1>8, <1>9, <1>10, <1>11, <1>12, <1>13, <1>14,
     <1>15, <1>16, <1>17, Zenon DEF Next

\* Every variable always has its type.
THEOREM ExtractorTypeCorrect == Spec => []TypeOK
<1>1. Init => Typed
  BY InitTyped
<1>2. Typed /\ [Next]_vars => Typed'
  BY TypedStep
<1>3. Typed => TypeOK
  BY DEF Typed
<1> QED
  BY <1>1, <1>2, <1>3, PTL DEF Spec

-----------------------------------------------------------------------------
(* The clone is closed *)

\* The operands that were scanned and come from the caller are inputs.
Scanned ==
  ~severed /\ pc \notin {"info", "abort"} =>
    \A i \in DOMAIN body : \A n \in DOMAIN ops[body[i]] :
      /\ pc = "scan" => i < k \/ (i = k /\ n < j)
      /\ DefinedInCaller(ops[body[i]][n])
      => ops[body[i]][n] \in Elems(inputs)

ScanStarts == pc = "info" => k = 1 /\ j = 1

\* An output is an instruction of the region or a pointer.
OutputsHeld == ~severed => Elems(outputs) \subseteq Elems(body) \cup fn.ptrs

\* The three kinds of inputs are replaced one after the other.
BoundSoFar ==
  /\ pc = "inputs" => \A i \in DOMAIN inputs :
       i < k /\ InputOnly(inputs[i]) => inputs[i] \in DOMAIN bound
  /\ pc \in {"cells", "locals", "exit", "cloned"} => PureInputs \subseteq DOMAIN bound
  /\ pc \in {"locals", "exit", "cloned"} =>
       \A v \in Elems(inputs) : Bidirectional(v) => v \in DOMAIN bound
  /\ pc \in {"exit", "cloned"} => Elems(allocas) \subseteq DOMAIN bound
  /\ pc = "cloned" => stores \cap fn.ptrs = {}

Closing == Typed /\ Scanned /\ ScanStarts /\ OutputsHeld /\ BoundSoFar

\* Inputs are added and moved, never removed, and before cloning nothing but
\* the scan looks at the instructions.
LEMMA InputsGrow ==
  ASSUME Typed, [Next]_vars
  PROVE  Elems(inputs) \subseteq Elems(inputs')
<1>1. inputs \in Seq(Values) /\ NoRepetition(inputs)
  BY DEF Typed, TypeOK, FoundTyped
<1>2. CASE ScanOperand
  <2> DEFINE v == ops[body[k]][j]
  <2>1. inputs' = (IF DefinedInCaller(v) THEN Insert(inputs, v) ELSE inputs)
    BY <1>2 DEF ScanOperand
  <2>2. v \in Values
    BY <1>2, OperandType DEF ScanOperand, Typed, TypeOK, CodeTyped
  <2> QED
    BY <1>1, <2>1, <2>2, InsertElems
<1>3. CASE VisitGep
  <2> DEFINE base == ops[geps[k]][1]
  <2>1. inputs' \in {inputs, Insert(inputs, base)} /\ pc = "geps"
    BY <1>3 DEF VisitGep
  <2>2. geps[k] \in Values /\ fn.kind[geps[k]] = "gep"
    BY <1>3, ElementType DEF VisitGep, Typed, Known, TypeOK, FoundTyped, CodeTyped
  <2>3. base \in Values
    BY <2>1, <2>2, BaseType DEF Typed, Known, Started
  <2> QED
    BY <1>1, <2>1, <2>3, InsertElems
<1>4. CASE ReorderInputs
  <2>1. inputs' = inputs \/ \E i \in DOMAIN inputs : inputs' = MovedToFront(i)
    BY <1>4 DEF ReorderInputs
  <2> QED
    BY <1>1, <2>1, MovedToFrontElems
<1>5. CASE ~(ScanOperand \/ VisitGep \/ ReorderInputs)
  <2>1. inputs' = inputs
    BY <1>5, Same DEF Next, vars, TakeIteratorInfo, ScanUsers, EndScan, EndGeps, MapIncoming,
       MapNext, MapOutputs, ReorderNothing, StackAllocate, StackAbort, EndStack, Check,
       CloneNothing, KeepHeader, SeverHeader, BindInput, BindOutputs, BindCells, BindLocals,
       StoreOutputs
  <2> QED
    BY <2>1
<1> QED
  BY <1>2, <1>3, <1>4, <1>5

\* What a step other than the scan's leaves alone.
LEMMA ScanIsOver ==
  ASSUME [Next]_vars, ~(TakeIteratorInfo \/ ScanOperand \/ ScanUsers \/ EndScan),
         ~UNCHANGED vars
  PROVE  /\ pc \notin {"info", "scan", "abort"} /\ pc' \notin {"info", "scan"}
         /\ fn' = fn
         /\ UNCHANGED code \/ severed'
<1>1. ASSUME NEW n \in DOMAIN body, SeverHeader(n)
      PROVE  /\ pc \notin {"info", "scan", "abort"} /\ pc' \notin {"info", "scan"}
             /\ fn' = fn
             /\ UNCHANGED code \/ severed'
  BY <1>1 DEF SeverHeader
<1>2. CASE \/ EndGeps \/ VisitGep \/ MapIncoming \/ MapNext \/ MapOutputs \/ ReorderInputs
           \/ ReorderNothing \/ StackAllocate \/ StackAbort \/ EndStack \/ Check
           \/ CloneNothing \/ KeepHeader
  BY <1>2 DEF EndGeps, VisitGep, MapIncoming, MapNext, MapOutputs, ReorderInputs, ReorderNothing,
     StackAllocate, StackAbort, EndStack, Check, CloneNothing, KeepHeader
<1>3. CASE BindInput \/ BindOutputs \/ BindCells \/ BindLocals \/ StoreOutputs
  BY <1>3 DEF BindInput, BindOutputs, BindCells, BindLocals, StoreOutputs
<1> QED
  BY <1>1, <1>2, <1>3, Zenon DEF Next

LEMMA ScannedStep ==
  ASSUME Typed, Scanned, ScanStarts, [Next]_vars
  PROVE  Scanned' /\ ScanStarts'
<1>1. Elems(inputs) \subseteq Elems(inputs')
  BY InputsGrow
<1>2. CASE UNCHANGED vars
  <2>1. /\ fn' = fn /\ inputs' = inputs /\ body' = body /\ ops' = ops /\ severed' = severed
        /\ k' = k /\ j' = j /\ pc' = pc
    BY <1>2 DEF vars, code, found
  <2> QED
    BY <2>1 DEF Scanned, ScanStarts, DefinedInCaller, IsInstruction, Elems
<1>3. CASE TakeIteratorInfo
  <2>1. /\ pc = "info" /\ pc' \in {"scan", "abort"} /\ k' = k /\ j' = j
        /\ body' = body /\ ops' = ops
    BY <1>3, Same DEF TakeIteratorInfo
  <2>2. k' = 1 /\ j' = 1
    BY <2>1 DEF ScanStarts
  <2>3. body \in Seq(Values) /\ \A i \in DOMAIN body : ops[body[i]] \in Seq(Values)
    BY ElementType DEF Typed, TypeOK, CodeTyped
  <2>4. \A i \in DOMAIN body : \A n \in DOMAIN ops[body[i]] :
          ~(i < 1 \/ (i = 1 /\ n < 1))
    BY <2>3
  <2> QED
    BY <2>1, <2>2, <2>4 DEF Scanned, ScanStarts
<1>4. CASE ScanOperand
  <2> DEFINE v == ops[body[k]][j]
  <2>1. /\ pc = "scan" /\ pc' = pc /\ fn' = fn /\ k' = k /\ j' = j + 1 /\ severed' = severed
        /\ body' = body /\ ops' = ops
        /\ inputs' = IF DefinedInCaller(v) THEN Insert(inputs, v) ELSE inputs
    BY <1>4, Same DEF ScanOperand
  <2>2. v \in Values
    BY <1>4, OperandType DEF ScanOperand, Typed, TypeOK, CodeTyped
  <2>3. DefinedInCaller(v) => v \in Elems(inputs')
    BY <2>1, <2>2, InsertElems DEF Typed, TypeOK, FoundTyped
  <2>4. body \in Seq(Values) /\ \A i \in DOMAIN body : ops[body[i]] \in Seq(Values)
    BY ElementType DEF Typed, TypeOK, CodeTyped
  <2>5. ASSUME ~severed, NEW i \in DOMAIN body, NEW n \in DOMAIN ops[body[i]],
               i < k \/ (i = k /\ n < j + 1), DefinedInCaller(ops[body[i]][n])
        PROVE  ops[body[i]][n] \in Elems(inputs')
    <3>1. CASE i = k /\ n = j
      BY <2>3, <2>5, <3>1
    <3>2. CASE ~(i = k /\ n = j)
      <4>1. n \in Int /\ j \in Int
        BY <2>4 DEF Typed, TypeOK, CodeTyped
      <4>2. i < k \/ (i = k /\ n < j)
        BY <4>1, <2>5, <3>2
      <4> QED
        BY <1>1, <2>1, <2>5, <4>2 DEF Scanned
    <3> QED
      BY <3>1, <3>2
  <2> QED
    BY <2>1, <2>5 DEF Scanned, ScanStarts, DefinedInCaller, IsInstruction
<1>5. CASE ScanUsers
  <2>1. /\ pc = "scan" /\ pc' = pc /\ fn' = fn /\ k' = k + 1 /\ j' = 1 /\ severed' = severed
        /\ body' = body /\ ops' = ops /\ inputs' = inputs
        /\ j > Len(ops[body[k]]) /\ k <= Len(body)
    BY <1>5, Same DEF ScanUsers
  <2>2. /\ body \in Seq(Values) /\ \A i \in DOMAIN body : ops[body[i]] \in Seq(Values)
        /\ k \in Nat /\ j \in Nat
    BY ElementType DEF Typed, TypeOK, CodeTyped
  <2>3. ASSUME NEW i \in DOMAIN body, NEW n \in DOMAIN ops[body[i]],
               i < k + 1 \/ (i = k + 1 /\ n < 1)
        PROVE  i < k \/ (i = k /\ n < j)
    BY <2>1, <2>2, <2>3
  <2> QED
    BY <2>1, <2>3 DEF Scanned, ScanStarts, DefinedInCaller, IsInstruction, Elems
<1>6. CASE EndScan
  <2>1. /\ pc = "scan" /\ pc' = "geps" /\ fn' = fn /\ severed' = severed
        /\ body' = body /\ ops' = ops /\ inputs' = inputs
        /\ k > Len(body)
    BY <1>6, Same DEF EndScan
  <2>2. body \in Seq(Values) /\ k \in Nat
    BY DEF Typed, TypeOK, CodeTyped
  <2>3. \A i \in DOMAIN body : i < k
    BY <2>1, <2>2
  <2> QED
    BY <2>1, <2>3 DEF Scanned, ScanStarts, DefinedInCaller, IsInstruction, Elems
<1>7. CASE ~(TakeIteratorInfo \/ ScanOperand \/ ScanUsers \/ EndScan) /\ ~UNCHANGED vars
  <2>1. /\ pc \notin {"info", "scan", "abort"} /\ pc' \notin {"info", "scan"} /\ fn' = fn
        /\ UNCHANGED code \/ severed'
    BY <1>7, ScanIsOver
  <2>2. CASE severed'
    BY <2>1, <2>2 DEF Scanned, ScanStarts
  <2>3. CASE UNCHANGED code
    BY <1>1, <2>1, <2>3, Same DEF Scanned, ScanStarts, DefinedInCaller, IsInstruction
  <2> QED
    BY <2>1, <2>2, <2>3
<1> QED
  BY <1>2, <1>3, <1>4, <1>5, <1>6, <1>7

LEMMA OutputsHeldStep ==
  ASSUME Typed, OutputsHeld, [Next]_vars
  PROVE  OutputsHeld'
<1>1. outputs \in Seq(Values)
  BY DEF Typed, TypeOK, FoundTyped
<1>2. CASE ScanUsers
  <2> DEFINE v == body[k]
  <2>1. /\ fn' = fn /\ body' = body /\ severed' = severed
        /\ outputs' \in {outputs, Insert(outputs, v)}
    BY <1>2, Same DEF ScanUsers
  <2>2. v \in Values /\ v \in Elems(body)
    BY <1>2, ElementType DEF ScanUsers, Typed, TypeOK, CodeTyped
  <2>3. Elems(outputs') \subseteq Elems(outputs) \cup {v}
    BY <1>1, <2>1, <2>2, InsertElems
  <2> QED
    BY <2>1, <2>2, <2>3 DEF OutputsHeld
<1>3. CASE VisitGep
  <2> DEFINE base == ops[geps[k]][1]
  <2>1. /\ fn' = fn /\ body' = body /\ severed' = severed /\ pc = "geps"
        /\ outputs' \in {outputs, Insert(outputs, base)}
    BY <1>3, Same DEF VisitGep
  <2>2. geps[k] \in Values /\ fn.kind[geps[k]] = "gep"
    BY <1>3, ElementType DEF VisitGep, Typed, Known, TypeOK, FoundTyped, CodeTyped
  <2>3. base \in Values /\ base \in fn.ptrs
    BY <2>1, <2>2, BaseType DEF Typed, Known, Started
  <2>4. Elems(outputs') \subseteq Elems(outputs) \cup {base}
    BY <1>1, <2>1, <2>3, InsertElems
  <2> QED
    BY <2>1, <2>3, <2>4 DEF OutputsHeld
<1>4. CASE ~(ScanUsers \/ VisitGep) /\ Next
  <2>1. /\ outputs' = outputs
        /\ severed' \/ (fn' = fn /\ body' = body /\ severed' = severed)
    BY <1>4, Same DEF Next, TakeIteratorInfo, ScanOperand, EndScan, EndGeps, MapIncoming,
       MapNext, MapOutputs, ReorderInputs, ReorderNothing, StackAllocate, StackAbort, EndStack,
       Check, CloneNothing, KeepHeader, SeverHeader, BindInput, BindOutputs, BindCells,
       BindLocals, StoreOutputs
  <2> QED
    BY <2>1 DEF OutputsHeld, Elems
<1>5. CASE UNCHANGED vars
  BY <1>5 DEF vars, found, code, OutputsHeld, Elems
<1> QED
  BY <1>2, <1>3, <1>4, <1>5

\* Replacing inputs never undoes a replacement, and which inputs are of which
\* kind is settled.
LEMMA BoundSoFarStep ==
  ASSUME Typed, BoundSoFar, [Next]_vars
  PROVE  BoundSoFar'
<1> DEFINE late == {"inputs", "cells", "locals", "exit", "cloned"}
<1>1. CASE UNCHANGED vars
  BY <1>1, Same DEF vars, BoundSoFar, PureInputs, InputOnly, Bidirectional, Elems
<1>2. CASE pc' \notin late
  BY <1>2 DEF BoundSoFar
<1>3. ASSUME UNCHANGED <<found, related, locals>>, fn' = fn
      PROVE  /\ \A v : InputOnly(v)' = InputOnly(v) /\ Bidirectional(v)' = Bidirectional(v)
             /\ inputs' = inputs /\ Elems(inputs)' = Elems(inputs) /\ PureInputs' = PureInputs
             /\ Elems(allocas)' = Elems(allocas)
  BY <1>3, Same DEF PureInputs, InputOnly, Bidirectional, Elems
<1>4. bound \in [DOMAIN bound -> Uses] /\ inputs \in Seq(Values) /\ k \in Nat \ {0}
  BY DEF Typed, TypeOK, NewTyped, FoundTyped, CodeTyped
<1>5. CASE KeepHeader \/ \E n \in DOMAIN body : SeverHeader(n)
  <2>1. pc' = "inputs" /\ k' = 1 /\ UNCHANGED <<found, related, locals>> /\ fn' = fn
    BY <1>5 DEF KeepHeader, SeverHeader
  <2>2. \A i \in DOMAIN inputs : ~(i < 1)
    BY <1>4
  <2> QED
    BY <2>1, <2>2, <1>3 DEF BoundSoFar
<1>6. CASE BindInput
  <2> DEFINE v == inputs[k]
             use == [x \in {v} |-> [use |-> "parameter", of |-> x]]
  <2>1. /\ pc = "inputs" /\ pc' = "inputs" /\ k' = k + 1
        /\ bound' = IF InputOnly(v) THEN Override(bound, use) ELSE bound
        /\ UNCHANGED <<found, related, locals>> /\ fn' = fn
    BY <1>6 DEF BindInput
  <2>2. DOMAIN bound \subseteq DOMAIN bound' /\ (InputOnly(v) => v \in DOMAIN bound')
    BY <2>1 DEF Override
  <2>3. ASSUME NEW i \in DOMAIN inputs, i < k + 1, InputOnly(inputs[i])
        PROVE  inputs[i] \in DOMAIN bound'
    <3>1. CASE i = k
      BY <2>2, <2>3, <3>1
    <3>2. CASE i # k
      <4>1. i < k
        BY <1>4, <2>3, <3>2
      <4> QED
        BY <2>1, <2>2, <2>3, <4>1 DEF BoundSoFar
    <3> QED
      BY <3>1, <3>2
  <2> QED
    BY <2>1, <2>3, <1>3 DEF BoundSoFar
<1>7. CASE BindOutputs
  <2>1. /\ pc = "inputs" /\ pc' = "cells" /\ k > Len(inputs) /\ bound' = bound
        /\ UNCHANGED <<found, related, locals>> /\ fn' = fn
    BY <1>7 DEF BindOutputs
  <2>2. \A i \in DOMAIN inputs : i < k
    BY <1>4, <2>1
  <2>3. PureInputs \subseteq DOMAIN bound
    BY <2>1, <2>2 DEF BoundSoFar, PureInputs, Elems
  <2> QED
    BY <2>1, <2>3, <1>3 DEF BoundSoFar
<1>8. CASE BindCells
  <2> DEFINE both == {x \in Elems(inputs) : Bidirectional(x)}
             cells == [v \in both |-> BidirectionalUse(v)]
  <2>1. /\ pc = "cells" /\ pc' = "locals" /\ bound' = Override(cells, bound)
        /\ UNCHANGED <<found, related, locals>> /\ fn' = fn
    BY <1>8 DEF BindCells
  <2>2. DOMAIN bound' = both \cup DOMAIN bound
    BY <2>1 DEF Override
  <2>3. PureInputs \subseteq DOMAIN bound' /\ \A x \in Elems(inputs) : Bidirectional(x) => x \in DOMAIN bound'
    BY <2>1, <2>2 DEF BoundSoFar
  <2> QED
    BY <2>1, <2>3, <1>3 DEF BoundSoFar
<1>9. CASE BindLocals
  <2> DEFINE use == [v \in Elems(allocas) |-> [use |-> "local", of |-> v]]
  <2>1. /\ pc = "locals" /\ pc' = "exit" /\ bound' = Override(use, bound)
        /\ UNCHANGED <<found, related, locals>> /\ fn' = fn
    BY <1>9 DEF BindLocals
  <2>2. DOMAIN bound' = Elems(allocas) \cup DOMAIN bound
    BY <2>1 DEF Override
  <2>3. /\ PureInputs \subseteq DOMAIN bound'
        /\ \A x \in Elems(inputs) : Bidirectional(x) => x \in DOMAIN bound'
        /\ Elems(allocas) \subseteq DOMAIN bound'
    BY <2>1, <2>2 DEF BoundSoFar
  <2> QED
    BY <2>1, <2>3, <1>3 DEF BoundSoFar
<1>10. CASE StoreOutputs
  <2>1. /\ pc = "exit" /\ pc' = "cloned" /\ bound' = bound
        /\ stores' \cap fn.ptrs = {}
        /\ UNCHANGED <<found, related, locals>> /\ fn' = fn
    BY <1>10 DEF StoreOutputs
  <2>2. /\ PureInputs \subseteq DOMAIN bound
        /\ \A x \in Elems(inputs) : Bidirectional(x) => x \in DOMAIN bound
        /\ Elems(allocas) \subseteq DOMAIN bound
    BY <2>1 DEF BoundSoFar
  <2> QED
    BY <2>1, <2>2, <1>3 DEF BoundSoFar
<1>11. CASE \/ TakeIteratorInfo \/ ScanOperand \/ ScanUsers \/ EndScan \/ VisitGep \/ EndGeps
            \/ MapIncoming \/ MapNext \/ MapOutputs \/ ReorderInputs \/ ReorderNothing
            \/ StackAllocate \/ StackAbort \/ EndStack \/ Check \/ CloneNothing
  <2>1. pc' \notin late
    BY <1>11 DEF TakeIteratorInfo, ScanOperand, ScanUsers, EndScan, VisitGep, EndGeps,
       MapIncoming, MapNext, MapOutputs, ReorderInputs, ReorderNothing, StackAllocate,
       StackAbort, EndStack, Check, CloneNothing
  <2> QED
    BY <2>1, <1>2
<1> QED
  BY <1>1, <1>5, <1>6, <1>7, <1>8, <1>9, <1>10, <1>11, Zenon DEF Next

\* Every input is of one of the three kinds, so all are replaced in the end.
LEMMA ClosedInTheEnd ==
  ASSUME Closing
  PROVE  ClosedUnlessSevered
<1> SUFFICES ASSUME ~severed, pc = "cloned"
             PROVE  /\ \A i \in DOMAIN body : \A n \in DOMAIN ops[body[i]] :
                          Resolved(ops[body[i]][n])
                    /\ stores \subseteq Elems(body)
  BY DEF ClosedUnlessSevered, CloneClosed
<1>1. \A v \in Elems(inputs) : v \in DOMAIN bound
  BY DEF Closing, BoundSoFar, PureInputs, InputOnly
<1>2. ASSUME NEW i \in DOMAIN body, NEW n \in DOMAIN ops[body[i]]
      PROVE  Resolved(ops[body[i]][n])
  <2>1. CASE DefinedInCaller(ops[body[i]][n])
    BY <1>1, <2>1 DEF Closing, Scanned, Resolved
  <2>2. CASE ~DefinedInCaller(ops[body[i]][n])
    BY <2>2 DEF DefinedInCaller, IsInstruction, Resolved
  <2> QED
    BY <2>1, <2>2
<1>3. stores \subseteq Elems(body)
  BY DEF Closing, Typed, TypeOK, NewTyped, OutputsHeld, BoundSoFar
<1> QED
  BY <1>2, <1>3

\* Unless the first block was severed, the cloned instructions use nothing of
\* the old function, and only clones are stored.
THEOREM StaysClosed == Spec => []ClosedUnlessSevered
<1>1. ASSUME Init
      PROVE  Closing
  <2>1. Typed
    BY <1>1, InitTyped
  <2>2. Scanned /\ ScanStarts /\ OutputsHeld /\ BoundSoFar
    BY <1>1 DEF Init, Scanned, ScanStarts, OutputsHeld, BoundSoFar, Elems
  <2> QED
    BY <2>1, <2>2 DEF Closing
<1>2. ASSUME Closing, [Next]_vars
      PROVE  Closing'
  <2>1. Typed'
    BY <1>2, TypedStep DEF Closing
  <2>2. Scanned' /\ ScanStarts'
    BY <1>2, ScannedStep DEF Closing
  <2>3. OutputsHeld'
    BY <1>2, OutputsHeldStep DEF Closing
  <2>4. BoundSoFar'
    BY <1>2, BoundSoFarStep DEF Closing
  <2> QED
    BY <2>1, <2>2, <2>3, <2>4 DEF Closing
<1>3. Closing => ClosedUnlessSevered
  BY ClosedInTheEnd
<1> QED
  BY <1>1, <1>2, <1>3, PTL DEF Spec
=============================================================================
