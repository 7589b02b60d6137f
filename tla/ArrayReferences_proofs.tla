----------------------- MODULE ArrayReferences_proofs -----------------------
(***************************************************************************)
(* References to arrays of several dimensions, for every function and list *)
(* of accesses: decomposed ones are typed, and flattened ones address the  *)
(* element they addressed before, however many dimensions there are and    *)
(* whatever wraps.                                                         *)
(***************************************************************************)
EXTENDS ArrayReferences, DataLemmas, SequenceTheorems, TLAPS

Types ==
  /\ fn \in Functions
  /\ DOMAIN form = Geps
  /\ k \in Nat \ {0}
  /\ chain \in Seq(Instructions)
  /\ mode \in {"flatten", "decompose"}
  /\ changed \in BOOLEAN

\* The first instructions of a chain for g, and what the last one leaves.
PartOf(c, g) ==
  /\ Len(c) <= Len(g.idx)
  /\ \A i \in DOMAIN c : c[i].index = g.idx[i] /\ c[i].on = c[i].type

Chaining ==
  pc = "chain" =>
    /\ mode = "decompose" /\ k <= Len(fn.accesses)
    /\ Current # NoGep /\ IsOriginal(Current) /\ Decomposable(fn.geps[Current])
    /\ PartOf(chain, fn.geps[Current])
    /\ last = IF Len(chain) < Len(fn.geps[Current].idx)
              THEN NewType(fn.geps[Current], Len(chain) + 1) ELSE 1

Typed(g) ==
  /\ g \in Used /\ Decomposable(fn.geps[g])
  /\ form[g].type = 1
  /\ Len(form[g].chain) = Len(fn.geps[g].idx)
  /\ PartOf(form[g].chain, fn.geps[g])

Rewritten == mode = "decompose" => \A g \in Geps : IsOriginal(g) \/ Typed(g)

Reported == mode = "decompose" => (changed <=> \E g \in Geps : ~IsOriginal(g))

Decomposing == Types /\ Chaining /\ Rewritten /\ Reported

LEMMA Accessed ==
  ASSUME fn \in Functions, k \in Nat \ {0}, k <= Len(fn.accesses), Current # NoGep
  PROVE  Current \in Geps /\ Current \in Used
<1> DEFINE Recorded == [kind : AccessKinds, ptr : Geps \cup {NoGep}]
           s == fn.accesses
<1>0. s \in Seq(Recorded)
  BY FunctionAssumption
<1> HIDE DEF Recorded, s
<1>1. k \in DOMAIN s /\ s[k] \in Recorded
  <2>1. k \in 1 .. Len(s)
    BY <1>0 DEF s
  <2> QED
    BY <1>0, <2>1
<1>2. fn.accesses[k].ptr \in Geps \cup {NoGep} /\ k \in DOMAIN fn.accesses
  BY <1>1 DEF Recorded, s
<1> QED
  BY <1>1, <1>2 DEF Current, Through, PointerOperand, Used

LEMMA ElementType ==
  ASSUME NEW S, NEW s \in Seq(S), NEW i \in 1 .. Len(s)
  PROVE  s[i] \in S
  OBVIOUS

LEMMA GepType ==
  ASSUME fn \in Functions, NEW g \in Geps
  PROVE  /\ fn.geps[g] \in GepRecords
         /\ fn.geps[g].dims \in Seq(Nat) /\ fn.geps[g].idx \in Seq(0 .. Word - 1)
         /\ Len(fn.geps[g].idx) \in Nat /\ Len(fn.geps[g].dims) \in Nat
<1>1. fn.geps[g] \in GepRecords
  BY FunctionAssumption
<1> QED
  BY <1>1 DEF GepRecords

LEMMA InitDecomposing == Init => Decomposing
<1> SUFFICES ASSUME Init PROVE Decomposing
  OBVIOUS
<1>1. DOMAIN fn.geps = Geps
  BY FunctionAssumption DEF Init
<1>2. form = fn.geps /\ chain \in Seq(Instructions) /\ k \in Nat \ {0} /\ fn \in Functions
  BY DEF Init
<1>3. mode \in {"flatten", "decompose"} /\ changed \in BOOLEAN
  BY DEF Init
<1>4. Types
  BY <1>1, <1>2, <1>3 DEF Types
<1> QED
  BY <1>4 DEF Init, Decomposing, Chaining, Rewritten, Reported, IsOriginal

LEMMA Same ==
  ASSUME Decomposing, UNCHANGED <<fn, mode, form, changed>>
  PROVE  (\A g \in Geps : (IsOriginal(g) <=> IsOriginal(g)') /\ (Typed(g) <=> Typed(g)'))
         /\ Rewritten' /\ Reported'
<1>1. \A g : (IsOriginal(g) <=> IsOriginal(g)') /\ (Typed(g) <=> Typed(g)')
  BY DEF IsOriginal, Typed, Used, Through
<1> QED
  BY <1>1 DEF Decomposing, Rewritten, Reported

LEMMA ChainKept ==
  ASSUME Decomposing, UNCHANGED vars
  PROVE  Decomposing'
<1>1. UNCHANGED <<fn, mode, form, changed, k, chain, last, pc>>
  BY DEF vars
<1>2. Chaining' <=> Chaining
  BY <1>1 DEF Chaining, Current, Through, IsOriginal
<1> QED
  BY <1>1, <1>2, Same DEF Decomposing, Types

LEMMA DecomposingStep ==
  ASSUME Decomposing, [Next]_vars
  PROVE  Decomposing'
<1> USE DEF Decomposing
<1>1. CASE UNCHANGED vars
  BY <1>1, ChainKept
<1>2. CASE Skip \/ Begin \/ PassOver \/ FlattenOutside \/ FlattenUnfit \/ DecomposeNothing
           \/ DecomposeField \/ Finish
  <2>1. UNCHANGED <<fn, mode, form, changed, chain>>
    BY <1>2 DEF Skip, Begin, PassOver, FlattenOutside, FlattenUnfit, DecomposeNothing,
                DecomposeField, Finish
  <2>2. k' \in {k, k + 1} /\ pc' # "chain"
    BY <1>2 DEF Skip, Begin, PassOver, FlattenOutside, FlattenUnfit, DecomposeNothing,
                DecomposeField, Finish, Visiting
  <2>3. Types'
    BY <2>1, <2>2 DEF Types
  <2> QED
    BY <2>1, <2>2, <2>3, Same DEF Chaining
<1>3. CASE Flatten
  <2>1. mode' = "flatten" /\ pc' # "chain" /\ k' = k + 1 /\ UNCHANGED <<fn, mode, chain>>
    BY <1>3 DEF Flatten, Visiting
  <2>2. DOMAIN form' = Geps /\ changed' \in BOOLEAN
    BY <1>3 DEF Flatten, Types
  <2> QED
    BY <2>1, <2>2 DEF Types, Chaining, Rewritten, Reported
<1>4. CASE StartChain
  <2>1. UNCHANGED <<fn, mode, form, changed, k>> /\ chain' = <<>> /\ mode = "decompose"
    BY <1>4 DEF StartChain
  <2>2. /\ Visiting /\ Current # NoGep /\ IsOriginal(Current) /\ Decomposable(fn.geps[Current])
        /\ last' = NewType(fn.geps[Current], 1)
    BY <1>4 DEF StartChain, IsOriginal
  <2>3. Current' = Current /\ (IsOriginal(Current) <=> IsOriginal(Current)')
    BY <2>1 DEF Current, Through, IsOriginal
  <2>4. Chaining'
    <3>1. Len(fn.geps[Current].idx) >= 2
      BY <2>2 DEF Decomposable
    <3>2. PartOf(<<>>, fn.geps[Current])
      BY <3>1 DEF PartOf
    <3>3. Len(<<>>) = 0
      OBVIOUS
    <3> DEFINE g == fn.geps[Current]
    <3>4. last' = IF Len(<<>>) < Len(g.idx) THEN NewType(g, Len(<<>>) + 1) ELSE 1
      BY <2>2, <3>1, <3>3
    <3> QED
      BY <2>1, <2>2, <2>3, <3>2, <3>4 DEF Chaining, Visiting
  <2>5. Types'
    BY <2>1 DEF Types
  <2> QED
    BY <2>1, <2>4, <2>5, Same
<1>5. CASE ExtendChain
  <2> DEFINE g == fn.geps[Current]
             i == Len(chain) + 1
             new == [index |-> g.idx[i], type |-> NewType(g, i), on |-> last]
  <2>1. pc = "chain" /\ UNCHANGED <<fn, mode, form, changed, k, pc>> /\ i <= Len(form[Current].idx)
    BY <1>5 DEF ExtendChain, Types
  <2>2. IsOriginal(Current) /\ form[Current] = g /\ Current \in Geps
    BY <2>1, Accessed DEF Chaining, IsOriginal, Types
  <2>3. /\ chain' = Append(chain, new)
        /\ last' = IF i < Len(g.idx) THEN NewType(g, i) - 1 ELSE NewType(g, i)
        /\ i <= Len(g.idx)
    BY <1>5, <2>1, <2>2 DEF ExtendChain
  <2>4. Len(g.idx) = Len(g.dims) + 1 /\ Len(g.dims) \in Nat /\ g.idx \in Seq(0 .. Word - 1)
    BY <2>1, <2>2, GepType DEF Chaining, Decomposable, Types
  <2>5. last = NewType(g, i) /\ NewType(g, i) \in Nat \ {0}
    BY <2>1, <2>3, <2>4 DEF Chaining, NewType, Types
  <2>6. new \in Instructions
    <3>1. g.idx[i] \in 0 .. Word - 1
      <4> DEFINE s == g.idx
      <4>1. s \in Seq(0 .. Word - 1) /\ i \in 1 .. Len(s)
        BY <2>3, <2>4 DEF Types
      <4> HIDE DEF s, g, i
      <4>2. s[i] \in 0 .. Word - 1
        BY <4>1, ElementType
      <4> QED
        BY <4>2 DEF s
    <3> QED
      BY <2>5, <3>1 DEF Instructions
  <2> HIDE DEF g
  <2>7. chain' \in Seq(Instructions) /\ Len(chain') = i /\ chain'[i] = new
        /\ \A n \in DOMAIN chain' : n # i => n \in DOMAIN chain /\ chain'[n] = chain[n]
    BY <2>3, <2>6 DEF Types
  <2>8. PartOf(chain', g)
    BY <2>1, <2>3, <2>5, <2>7 DEF PartOf, Chaining, g
  <2>9. last' = IF Len(chain') < Len(g.idx) THEN NewType(g, Len(chain') + 1) ELSE 1
    BY <2>3, <2>4, <2>7 DEF NewType, Types
  <2>10. Current' = Current /\ fn.geps[Current]' = g /\ (IsOriginal(Current) <=> IsOriginal(Current)')
    BY <2>1 DEF Current, Through, IsOriginal, g
  <2>11. Chaining'
    BY <2>1, <2>2, <2>8, <2>9, <2>10 DEF Chaining, g
  <2>12. Types'
    BY <2>1, <2>7 DEF Types
  <2> QED
    BY <2>1, <2>11, <2>12, Same
<1>6. CASE EndChain
  <2> DEFINE g == fn.geps[Current]
             made == [chain |-> chain, type |-> last]
  <2>1. /\ pc = "chain" /\ pc' = "walk" /\ k' = k + 1 /\ UNCHANGED <<fn, mode, chain>>
        /\ changed' = TRUE /\ form' = [form EXCEPT ![Current] = made]
        /\ Len(chain) = Len(form[Current].idx)
    BY <1>6 DEF EndChain
  <2>2. IsOriginal(Current) /\ form[Current] = g /\ Current \in Geps /\ Current \in Used
        /\ Decomposable(g)
    BY <2>1, Accessed DEF Chaining, IsOriginal, Types
  <2>3. form'[Current] = made /\ \A h \in Geps \ {Current} : form'[h] = form[h]
    BY <2>1, <2>2 DEF Types
  <2>4. made # g
    <3>1. g \in GepRecords
      BY <2>2, GepType DEF Types
    <3>2. "leaf" \in DOMAIN g /\ "leaf" \notin DOMAIN made
      BY <3>1 DEF GepRecords
    <3> QED
      BY <3>2
  <2>5. \A h : h = Current => ~(IsOriginal(h)')
    BY <2>1, <2>3, <2>4 DEF IsOriginal
  <2>6. Reported'
    BY <2>1, <2>2, <2>5 DEF Reported
  <2>7. PartOf(chain, g) /\ last = 1 /\ mode = "decompose"
    BY <2>1, <2>2 DEF Chaining
  <2> HIDE DEF made
  <2>8. ASSUME NEW h \in Geps
        PROVE  IsOriginal(h)' \/ Typed(h)'
    <3>1. (h \in Used) <=> (h \in Used')
      BY <2>1 DEF Used, Through
    <3>2. CASE h = Current
      BY <2>1, <2>2, <2>3, <2>7, <3>1, <3>2 DEF Typed, made
    <3>3. CASE h # Current
      BY <2>1, <2>3, <2>7, <3>1, <3>3 DEF Typed, Rewritten, IsOriginal
    <3> QED
      BY <3>2, <3>3
  <2>9. Rewritten'
    BY <2>8 DEF Rewritten
  <2>10. Types'
    BY <2>1 DEF Types
  <2> QED
    BY <2>1, <2>6, <2>9, <2>10 DEF Chaining
<1> QED
  BY <1>1, <1>2, <1>3, <1>4, <1>5, <1>6 DEF Next

LEMMA DecomposingImplies == Decomposing => DecomposedTyped
  BY DEF Decomposing, DecomposedTyped, Rewritten, Reported, Typed, PartOf

\* DecomposedTyped, for every function and list of accesses: the chains that
\* DecomposeMultiDimArrayRefs makes use the indices of what they replace in
\* order, each on a pointer of the right type, and end in a pointer to an
\* element; accesses that share a getelementptr decompose it once.
THEOREM ChainsAreTyped == Spec => []DecomposedTyped
<1>1. Decomposing /\ [Next]_vars => Decomposing'
  BY DecomposingStep
<1> QED
  BY <1>1, InitDecomposing, DecomposingImplies, PTL DEF Spec

-----------------------------------------------------------------------------
(* Remainders *)

LEMMA Remainder ==
  ASSUME NEW W \in Nat \ {0}, NEW a \in Int
  PROVE  a % W \in 0 .. W - 1 /\ \E q \in Int : a = W * q + (a % W)
<1>1. a % W \in 0 .. W - 1
  OBVIOUS
<1>2. a = W * (a \div W) + (a % W) /\ a \div W \in Int
  OBVIOUS
<1> QED
  BY <1>1, <1>2

Divides(W, a, q, r) == r = a % W /\ a = W * q + r

LEMMA Divided ==
  ASSUME NEW W \in Nat \ {0}, NEW a \in Int
  PROVE  \E r \in Nat, q \in Int : Divides(W, a, q, r)
<1>1. PICK r \in 0 .. W - 1 : r = a % W
  BY Remainder
<1>2. PICK q \in Int : a = W * q + r
  BY <1>1, Remainder
<1>3. Divides(W, a, q, r)
  BY <1>1, <1>2 DEF Divides
<1>4. r \in Nat
  OBVIOUS
<1> QED
  BY ONLY <1>3, <1>4

LEMMA SameRemainder ==
  ASSUME NEW W \in Nat \ {0}, NEW a \in Int, NEW b \in Int, NEW q \in Int, a = W * q + b
  PROVE  a % W = b % W
<1>1. PICK p \in Int : b = W * p + (b % W)
  BY Remainder
<1>2. PICK r \in 0 .. W - 1 : r = b % W
  BY Remainder
<1>3. a = W * (q + p) + r
  BY <1>1, <1>2
<1>4. PICK s \in Int : s = q + p
  OBVIOUS
<1>5. (W * s + r) % W = r
  OBVIOUS
<1> QED
  BY <1>2, <1>3, <1>4, <1>5

-----------------------------------------------------------------------------
(* What the recursive definitions of the sizes and indices compute *)

Words == 0 .. Word - 1

Wrapped(x) == x % Word

LEMMA WordsOf == /\ Words \subseteq Nat /\ 0 \in Words
                 /\ \A y \in Nat : Wrapped(y) \in Words
                 /\ \A y \in Words : Wrapped(y) = y
<1>1. Words \subseteq Nat /\ 0 \in Words
  BY WordAssumption DEF Words
<1>2. ASSUME NEW y \in Nat PROVE Wrapped(y) \in Words
  BY WordAssumption, Remainder DEF Words, Wrapped
<1>3. ASSUME NEW y \in Words PROVE Wrapped(y) = y
  BY WordAssumption DEF Words, Wrapped
<1> QED
  BY <1>1, <1>2, <1>3

LEMMA WrappedIs ==
  ASSUME NEW y \in Int, NEW r, r = Wrapped(y)
  PROVE  \E q \in Int : y = Word * q + r
<1>1. PICK W \in Nat \ {0} : W = Word
  BY WordAssumption
<1>2. PICK t \in Nat, q \in Int : Divides(W, y, q, t)
  BY Divided
<1> QED
  BY <1>1, <1>2 DEF Divides, Wrapped

LEMMA SameWrapped ==
  ASSUME NEW u \in Int, NEW v \in Int, NEW q \in Int, u = Word * q + v
  PROVE  Wrapped(u) = Wrapped(v)
<1>1. PICK W \in Nat \ {0} : W = Word
  BY WordAssumption
<1>2. u % W = v % W
  BY <1>1, SameRemainder
<1> QED
  BY <1>1, <1>2 DEF Wrapped

\* Recursion that begins with one.
Follows(D, b, W, N, f) ==
  f \in [1 .. N -> D] /\ f[1] = b /\ \A n \in 2 .. N : f[n] = W[<<n, f[n - 1]>>]

LEMMA FromOne ==
  ASSUME NEW D, NEW b \in D, NEW W \in [Nat \X D -> D], NEW N \in Nat \ {0}
  PROVE  \E f : Follows(D, b, W, N, f)
<1>1. PICK V : V = [x \in Nat \X D |-> W[<<x[1] + 1, x[2]>>]]
  OBVIOUS
<1>2. V \in [Nat \X D -> D]
  BY <1>1
<1>3. N - 1 \in Nat
  OBVIOUS
<1>4. PICK M \in Nat : M = N - 1
  BY <1>3
<1>5. PICK g : Steps(b, V, M, g)
  BY <1>2, <1>4, StepsExist
<1>6. Keeps(V, M, D)
  BY <1>2, <1>4 DEF Keeps
<1>7. /\ g[0] = b /\ \A n \in 0 .. M : g[n] \in D
      /\ \A n \in 1 .. M : g[n] = V[<<n, g[n - 1]>>]
  BY <1>4, <1>5, <1>6, StepsKeep
<1>8. PICK f : f = [n \in 1 .. N |-> g[n - 1]]
  OBVIOUS
<1>9. \A n \in 1 .. N : n - 1 \in 0 .. M
  BY <1>4
<1>10. f \in [1 .. N -> D] /\ f[1] = b
  <2>1. \A n \in 1 .. N : g[n - 1] \in D
    BY <1>7, <1>9
  <2>2. 1 \in 1 .. N /\ 1 - 1 = 0
    OBVIOUS
  <2> QED
    BY <1>7, <1>8, <2>1, <2>2
<1>11. ASSUME NEW n \in 2 .. N PROVE f[n] = W[<<n, f[n - 1]>>]
  <2>1. n - 1 \in 1 .. M /\ n - 1 \in 1 .. N /\ (n - 1) + 1 = n /\ (n - 1) - 1 \in 0 .. M
    BY <1>4
  <2>2. f[n] = g[n - 1] /\ f[n - 1] = g[(n - 1) - 1]
    BY <1>8, <2>1
  <2>3. g[n - 1] = V[<<n - 1, g[(n - 1) - 1]>>]
    BY <1>7, <2>1
  <2>4. V[<<n - 1, g[(n - 1) - 1]>>] = W[<<n, g[(n - 1) - 1]>>]
    BY <1>1, <1>7, <2>1
  <2> QED
    BY <2>2, <2>3, <2>4
<1> QED
  BY <1>10, <1>11 DEF Follows

Passes(D, W, N, f) == \A n \in 2 .. N : f[n - 1] \in D => f[n] = W[<<n, f[n - 1]>>]

LEMMA StaysIn ==
  ASSUME NEW D, NEW b \in D, NEW W \in [Nat \X D -> D], NEW N \in Nat \ {0}, NEW f, f[1] = b,
         Passes(D, W, N, f)
  PROVE  \A n \in 1 .. N : f[n] \in D
<1> DEFINE T == {n \in Nat : n + 1 \in 1 .. N => f[n + 1] \in D}
<1>1. 0 \in T
  OBVIOUS
<1>2. ASSUME NEW n \in T PROVE n + 1 \in T
  <2> SUFFICES ASSUME (n + 1) + 1 \in 1 .. N PROVE f[(n + 1) + 1] \in D
    OBVIOUS
  <2>1. n + 1 \in 1 .. N /\ ((n + 1) + 1) - 1 = n + 1 /\ (n + 1) + 1 \in 2 .. N
    OBVIOUS
  <2>2. f[n + 1] \in D
    BY <2>1
  <2>3. f[(n + 1) + 1] = W[<<(n + 1) + 1, f[n + 1]>>]
    BY <2>1, <2>2 DEF Passes
  <2> QED
    BY <2>1, <2>2, <2>3
<1> HIDE DEF T
<1>3. T = Nat
  <2>1. T \in SUBSET Nat
    BY DEF T
  <2> QED
    BY <1>1, <1>2, <2>1, UpTo
<1>4. ASSUME NEW n \in 1 .. N PROVE f[n] \in D
  <2>1. PICK m \in Nat : m + 1 = n
    <3>1. n - 1 \in Nat /\ (n - 1) + 1 = n
      OBVIOUS
    <3> QED
      BY <3>1
  <2>2. m + 1 \in 1 .. N => f[m + 1] \in D
    <3>1. m \in T
      BY <1>3
    <3> QED
      BY <3>1 DEF T
  <2> QED
    BY <2>1, <2>2
<1> QED
  BY <1>4

LEMMA ReversedIs ==
  ASSUME NEW S, NEW s \in Seq(S)
  PROVE  Reversed(s) \in Seq(S) /\ Len(Reversed(s)) = Len(s)
         /\ \A i \in 1 .. Len(s) : Reversed(s)[i] = s[Len(s) + 1 - i]
<1>1. PICK n \in Nat : n = Len(s) /\ DOMAIN s = 1 .. n
  OBVIOUS
<1>2. \A i \in 1 .. n : n + 1 - i \in 1 .. n /\ s[n + 1 - i] \in S
  BY <1>1
<1> QED
  BY <1>1, <1>2 DEF Reversed

IsProducts(s, p) ==
  p = [i \in DOMAIN s |-> IF i = 1 THEN 1 ELSE Wrapped(p[i - 1] * s[i - 1])]

LEMMA ProductsIs ==
  ASSUME NEW s \in Seq(Nat), s # <<>>
  PROVE  /\ Products(s) \in [1 .. Len(s) -> Nat] /\ Products(s)[1] = 1
         /\ \A i \in 2 .. Len(s) : Products(s)[i] = Wrapped(Products(s)[i - 1] * s[i - 1])
<1>1. PICK n \in Nat \ {0} : n = Len(s) /\ DOMAIN s = 1 .. n
  OBVIOUS
<1>2. \A i \in 1 .. n : s[i] \in Nat
  BY <1>1
<1>3. PICK W : W = [x \in Nat \X Nat |-> IF x[1] \in 2 .. n THEN Wrapped(x[2] * s[x[1] - 1]) ELSE 0]
  OBVIOUS
<1>4. ASSUME NEW i \in 2 .. n, NEW x \in Nat
      PROVE  W[<<i, x>>] = Wrapped(x * s[i - 1]) /\ Wrapped(x * s[i - 1]) \in Nat
  <2>1. i - 1 \in 1 .. n /\ i \in Nat
    OBVIOUS
  <2>2. PICK y \in Nat : y = x * s[i - 1]
    BY <1>2, <2>1
  <2>3. Wrapped(y) \in Nat
    BY WordsOf
  <2>4. W[<<i, x>>] = Wrapped(y)
    <3>1. <<i, x>> \in Nat \X Nat /\ <<i, x>>[1] = i /\ <<i, x>>[2] = x
      BY <2>1
    <3> QED
      BY <1>3, <2>2, <3>1
  <2> QED
    BY <2>2, <2>3, <2>4
<1>5. W \in [Nat \X Nat -> Nat]
  <2>1. ASSUME NEW i \in Nat, NEW x \in Nat PROVE W[<<i, x>>] \in Nat
    BY <1>3, <1>4
  <2>2. DOMAIN W = Nat \X Nat
    BY <1>3
  <2>3. \A y \in Nat \X Nat : y = <<y[1], y[2]>> /\ y[1] \in Nat /\ y[2] \in Nat
    OBVIOUS
  <2> QED
    BY <1>3, <2>1, <2>2, <2>3
<1>6. PICK f \in [1 .. n -> Nat] : f[1] = 1 /\ \A i \in 2 .. n : f[i] = W[<<i, f[i - 1]>>]
  <2>1. PICK f : Follows(Nat, 1, W, n, f)
    BY <1>5, FromOne
  <2> QED
    BY <2>1 DEF Follows
<1>7. IsProducts(s, f)
  <2>1. ASSUME NEW i \in 1 .. n PROVE f[i] = IF i = 1 THEN 1 ELSE Wrapped(f[i - 1] * s[i - 1])
    <3>1. CASE i = 1
      BY <1>6, <3>1
    <3>2. CASE i # 1
      <4>1. i \in 2 .. n /\ f[i - 1] \in Nat
        BY <1>6, <3>2
      <4> QED
        BY <1>4, <1>6, <3>2, <4>1
    <3> QED
      BY <3>1, <3>2
  <2> QED
    BY <1>1, <1>6, <2>1 DEF IsProducts
<1>8. Products(s) = CHOOSE p : IsProducts(s, p)
  BY DEF Products, IsProducts, Wrapped
<1>9. PICK p : p = Products(s)
  OBVIOUS
<1>10. IsProducts(s, p)
  BY <1>7, <1>8, <1>9
<1>11. /\ DOMAIN p = 1 .. n
       /\ \A i \in 1 .. n : p[i] = IF i = 1 THEN 1 ELSE Wrapped(p[i - 1] * s[i - 1])
  BY <1>1, <1>10 DEF IsProducts
<1>12. \A i \in 1 .. n : p[i] \in Nat
  <2>1. Passes(Nat, W, n, p)
    <3> SUFFICES ASSUME NEW i \in 2 .. n, p[i - 1] \in Nat PROVE p[i] = W[<<i, p[i - 1]>>]
      BY DEF Passes
    <3>1. i \in 1 .. n /\ i # 1
      OBVIOUS
    <3> QED
      BY <1>4, <1>11, <3>1
  <2>2. p[1] = 1
    BY <1>11
  <2>3. PICK D : D = Nat
    OBVIOUS
  <2>4. \A i \in 1 .. n : p[i] \in D
    BY <1>5, <2>1, <2>2, <2>3, StaysIn
  <2> QED
    BY <2>3, <2>4
<1>13. p \in [1 .. n -> Nat]
  <2>1. p = [i \in 1 .. n |-> p[i]]
    BY <1>1, <1>10 DEF IsProducts
  <2> QED
    BY <1>12, <2>1
<1> QED
  BY <1>1, <1>9, <1>11, <1>13

IsSum(indices, products, f) ==
  f = [i \in DOMAIN products |->
         Wrapped(indices[i] * products[i] + (IF i = 1 THEN 0 ELSE f[i - 1]))]

Numbers(n, x) == \A i \in 1 .. n : x[i] \in Nat

Summed(n, x, p, sum) ==
  /\ \A i \in 1 .. n : sum[i] \in Words
  /\ sum[1] = Wrapped(x[1] * p[1])
  /\ \A i \in 2 .. n : sum[i] = Wrapped(x[i] * p[i] + sum[i - 1])

LEMMA SumIs ==
  ASSUME NEW n \in Nat \ {0}, NEW x, NEW p \in [1 .. n -> Nat], Numbers(n, x),
         NEW sum, sum = CHOOSE f : IsSum(x, p, f)
  PROVE  Summed(n, x, p, sum)
<1>1. PICK t : t = [i \in 1 .. n |-> x[i] * p[i]]
  OBVIOUS
<1>2. \A i \in 1 .. n : t[i] \in Nat /\ t[i] = x[i] * p[i]
  BY <1>1 DEF Numbers
<1>3. PICK W : W = [y \in Nat \X Words |-> IF y[1] \in 2 .. n THEN Wrapped(t[y[1]] + y[2]) ELSE 0]
  OBVIOUS
<1>4. ASSUME NEW i \in 2 .. n, NEW y \in Words
      PROVE  W[<<i, y>>] = Wrapped(t[i] + y) /\ Wrapped(t[i] + y) \in Words
  <2>1. <<i, y>> \in Nat \X Words /\ <<i, y>>[1] = i /\ <<i, y>>[2] = y
    OBVIOUS
  <2>2. PICK z \in Nat : z = t[i] + y
    BY <1>2, WordsOf
  <2> QED
    BY <1>3, <2>1, <2>2, WordsOf
<1>5. W \in [Nat \X Words -> Words]
  <2>1. ASSUME NEW i \in Nat, NEW y \in Words PROVE W[<<i, y>>] \in Words
    BY <1>3, <1>4, WordsOf
  <2>2. \A z \in Nat \X Words : z = <<z[1], z[2]>> /\ z[1] \in Nat /\ z[2] \in Words
    OBVIOUS
  <2> QED
    BY <1>3, <2>1, <2>2
<1>6. PICK b \in Words : b = Wrapped(t[1])
  <2>1. t[1] \in Nat
    BY <1>2
  <2> QED
    BY <2>1, WordsOf
<1>7. PICK f \in [1 .. n -> Words] : f[1] = b /\ \A i \in 2 .. n : f[i] = W[<<i, f[i - 1]>>]
  <2>1. PICK f : Follows(Words, b, W, n, f)
    BY <1>5, FromOne
  <2> QED
    BY <2>1 DEF Follows
<1>8. IsSum(x, p, f)
  <2>1. ASSUME NEW i \in 1 .. n
        PROVE  f[i] = Wrapped(x[i] * p[i] + (IF i = 1 THEN 0 ELSE f[i - 1]))
    <3>0. t[i] = x[i] * p[i] /\ t[i] \in Nat
      BY <1>2
    <3>1. CASE i = 1
      <4>1. t[i] + 0 = t[i]
        BY <3>0
      <4> QED
        BY <1>6, <1>7, <3>0, <3>1, <4>1
    <3>2. CASE i # 1
      <4>1. i \in 2 .. n /\ f[i - 1] \in Words
        BY <1>7, <3>2
      <4>2. f[i] = Wrapped(t[i] + f[i - 1])
        BY <1>4, <1>7, <4>1
      <4> QED
        BY <3>0, <3>2, <4>2
    <3> QED
      BY <3>1, <3>2
  <2> QED
    BY <1>7, <2>1 DEF IsSum
<1>9. IsSum(x, p, sum)
  BY <1>8
<1>10. \A i \in 1 .. n : sum[i] = Wrapped(x[i] * p[i] + (IF i = 1 THEN 0 ELSE sum[i - 1]))
  BY <1>9 DEF IsSum
<1>11. sum[1] = Wrapped(x[1] * p[1])
  <2>1. 1 \in 1 .. n /\ x[1] * p[1] + 0 = x[1] * p[1]
    BY <1>2
  <2> QED
    BY <1>10, <2>1
<1>12. \A i \in 2 .. n : sum[i] = Wrapped(x[i] * p[i] + sum[i - 1])
  BY <1>10
<1>13. \A i \in 1 .. n : sum[i] \in Words
  <2>1. Passes(Words, W, n, sum)
    <3> SUFFICES ASSUME NEW i \in 2 .. n, sum[i - 1] \in Words PROVE sum[i] = W[<<i, sum[i - 1]>>]
      BY DEF Passes
    <3>1. t[i] = x[i] * p[i]
      BY <1>2
    <3> QED
      BY <1>4, <1>12, <3>1
  <2>2. sum[1] = b
    BY <1>2, <1>6, <1>11
  <2> QED
    BY <1>5, <2>1, <2>2, StaysIn
<1> QED
  BY <1>11, <1>12, <1>13 DEF Summed

IsAt(x, d, N, at) ==
  at = [i \in 1 .. N |-> Wrapped(x[i] + (IF i = 1 THEN 0 ELSE at[i - 1] * d[i - 1]))]

InWords(n, x) == \A i \in 1 .. n : x[i] \in Words

Addressed(N, x, d, at) ==
  /\ \A i \in 1 .. N : at[i] \in Words
  /\ at[1] = x[1]
  /\ \A i \in 2 .. N : at[i] = Wrapped(x[i] + at[i - 1] * d[i - 1])

LEMMA AtIs ==
  ASSUME NEW N \in Nat \ {0}, NEW x, InWords(N, x), NEW d, Numbers(N - 1, d),
         NEW at, at = CHOOSE f : IsAt(x, d, N, f)
  PROVE  Addressed(N, x, d, at)
<1>0. (\A i \in 1 .. N : x[i] \in Words) /\ (\A i \in 2 .. N : d[i - 1] \in Nat)
  <2>1. \A i \in 2 .. N : i - 1 \in 1 .. N - 1
    OBVIOUS
  <2> QED
    BY <2>1 DEF InWords, Numbers
<1>1. PICK W : W = [y \in Nat \X Words |->
                     IF y[1] \in 2 .. N THEN Wrapped(x[y[1]] + y[2] * d[y[1] - 1]) ELSE 0]
  OBVIOUS
<1>2. ASSUME NEW i \in 2 .. N, NEW y \in Words
      PROVE  /\ W[<<i, y>>] = Wrapped(x[i] + y * d[i - 1])
             /\ Wrapped(x[i] + y * d[i - 1]) \in Words
  <2>1. <<i, y>> \in Nat \X Words /\ <<i, y>>[1] = i /\ <<i, y>>[2] = y
    OBVIOUS
  <2>2. PICK z \in Nat : z = x[i] + y * d[i - 1]
    <3>1. x[i] \in Words /\ d[i - 1] \in Nat
      BY <1>0
    <3>2. x[i] \in Nat /\ y \in Nat
      BY <3>1, WordsOf
    <3> QED
      BY <3>1, <3>2
  <2> QED
    BY <1>1, <2>1, <2>2, WordsOf
<1>3. W \in [Nat \X Words -> Words]
  <2>1. ASSUME NEW i \in Nat, NEW y \in Words PROVE W[<<i, y>>] \in Words
    BY <1>1, <1>2, WordsOf
  <2>2. \A z \in Nat \X Words : z = <<z[1], z[2]>> /\ z[1] \in Nat /\ z[2] \in Words
    OBVIOUS
  <2> QED
    BY <1>1, <2>1, <2>2
<1>4. PICK b \in Words : b = x[1] /\ Wrapped(b) = b /\ b + 0 = b
  <2>1. PICK b \in Words : b = x[1]
    BY <1>0
  <2>2. Wrapped(b) = b /\ b \in Nat
    BY WordsOf
  <2> QED
    BY <2>1, <2>2
<1>5. PICK f \in [1 .. N -> Words] : f[1] = b /\ \A i \in 2 .. N : f[i] = W[<<i, f[i - 1]>>]
  <2>1. PICK f : Follows(Words, b, W, N, f)
    BY <1>3, FromOne
  <2> QED
    BY <2>1 DEF Follows
<1>6. IsAt(x, d, N, f)
  <2>1. ASSUME NEW i \in 1 .. N
        PROVE  f[i] = Wrapped(x[i] + (IF i = 1 THEN 0 ELSE f[i - 1] * d[i - 1]))
    <3>1. CASE i = 1
      BY <1>4, <1>5, <3>1
    <3>2. CASE i # 1
      <4>1. i \in 2 .. N /\ f[i - 1] \in Words
        BY <1>5, <3>2
      <4> QED
        BY <1>2, <1>5, <3>2, <4>1
    <3> QED
      BY <3>1, <3>2
  <2> QED
    BY <1>5, <2>1 DEF IsAt
<1>7. IsAt(x, d, N, at)
  BY <1>6
<1>8. \A i \in 1 .. N : at[i] = Wrapped(x[i] + (IF i = 1 THEN 0 ELSE at[i - 1] * d[i - 1]))
  BY <1>7 DEF IsAt
<1>9. at[1] = b
  <2>1. 1 \in 1 .. N
    OBVIOUS
  <2> QED
    BY <1>4, <1>8, <2>1
<1>10. \A i \in 2 .. N : at[i] = Wrapped(x[i] + at[i - 1] * d[i - 1])
  BY <1>8
<1>11. \A i \in 1 .. N : at[i] \in Words
  <2>1. Passes(Words, W, N, at)
    BY <1>2, <1>10 DEF Passes
  <2> QED
    BY <1>3, <1>9, <2>1, StaysIn
<1> QED
  BY <1>4, <1>9, <1>10, <1>11 DEF Addressed

\* Taking one more index into an address from its end: index j, of a dimension
\* whose steps are worth p, after an address a of e blocks before.
Taken(j, a, e, p, s, x, r, t) == x = Wrapped(j + a * e) /\ r = Wrapped(p) /\ t = Wrapped(j * r + s)

Equal(x, p, s, a, e, r, t) == Wrapped(x * p + s) = Wrapped(a * (e * r) + t)

LEMMA NextIndex ==
  ASSUME NEW j \in Nat, NEW a \in Nat, NEW e \in Nat, NEW p \in Nat, NEW s \in Nat,
         NEW x \in Nat, NEW r \in Nat, NEW t \in Nat, Taken(j, a, e, p, s, x, r, t)
  PROVE  Equal(x, p, s, a, e, r, t)
<1>1. PICK y \in Nat, w \in Nat : y = j + a * e /\ w = j * r + s
  OBVIOUS
<1>2. r = Wrapped(p) /\ x = Wrapped(y) /\ t = Wrapped(w)
  BY <1>1 DEF Taken
<1>3. PICK q \in Int : p = Word * q + r
  BY <1>2, WrappedIs
<1>4. PICK m \in Int : y = Word * m + x
  BY <1>2, WrappedIs
<1>5. PICK n \in Int : w = Word * n + t
  BY <1>2, WrappedIs
<1>6. PICK left \in Int, right \in Int, o \in Int :
         left = x * p + s /\ right = a * (e * r) + t /\ o = (y * q - m * p) + n
  OBVIOUS
<1>7. left = Word * o + right
  <2>0. PICK W \in Nat : W = Word
    BY WordAssumption
  <2>1. x * p = y * p - W * (m * p)
    BY <1>4, <2>0
  <2>2. y * p = W * (y * q) + y * r
    BY <1>3, <2>0
  <2>3. y * r = j * r + a * (e * r)
    BY <1>1
  <2>4. W * o = (W * (y * q) - W * (m * p)) + W * n
    BY <1>6
  <2>5. PICK f \in Int, g \in Int, h \in Int, c \in Int, d \in Int, u \in Int :
           f = W * (y * q) /\ g = W * (m * p) /\ h = W * n /\ c = a * (e * r) /\ d = y * r
           /\ u = j * r
    OBVIOUS
  <2>6. /\ left = x * p + s /\ x * p = y * p - g /\ y * p = f + d /\ d = u + c /\ w = u + s
        /\ w = h + t /\ W * o = (f - g) + h /\ right = c + t
    BY <1>1, <1>5, <1>6, <2>0, <2>1, <2>2, <2>3, <2>4, <2>5
  <2> QED
    BY <2>0, <2>6
<1>8. Wrapped(left) = Wrapped(right)
  BY <1>7, SameWrapped
<1> QED
  BY <1>6, <1>8 DEF Equal

\* The element from its first index on, and the sum of the scaled indices from
\* the last on, for n dimensions d and n + 1 indices x.
Scaled(n, d, p) ==
  Numbers(n, p) /\ p[1] = 1 /\ \A i \in 2 .. n : p[i] = Wrapped(p[i - 1] * d[n + 2 - i])

Mirrored(n, r, x) == \A i \in 1 .. n : r[i] = x[n + 2 - i]

LEMMA SameElement ==
  ASSUME NEW n \in Nat \ {0}, NEW d, Numbers(n, d), NEW x, InWords(n + 1, x), x[1] = 0,
         NEW p, Scaled(n, d, p), NEW rev, Mirrored(n, rev, x), NEW sum, Summed(n, rev, p, sum),
         NEW at, Addressed(n + 1, x, d, at)
  PROVE  sum[n] = at[n + 1]
<1>0. /\ \A i \in 1 .. n : d[i] \in Nat
      /\ \A i \in 1 .. n + 1 : x[i] \in Words
      /\ \A i \in 1 .. n : p[i] \in Nat
      /\ p[1] = 1 /\ \A i \in 2 .. n : p[i] = Wrapped(p[i - 1] * d[n + 2 - i])
      /\ \A i \in 1 .. n : sum[i] \in Words
      /\ sum[1] = Wrapped(x[n + 1] * p[1])
      /\ \A i \in 2 .. n : sum[i] = Wrapped(x[n + 2 - i] * p[i] + sum[i - 1])
      /\ \A i \in 1 .. n + 1 : at[i] \in Words
      /\ at[1] = 0 /\ \A i \in 2 .. n + 1 : at[i] = Wrapped(x[i] + at[i - 1] * d[i - 1])
  <2>1. (\A i \in 1 .. n : d[i] \in Nat) /\ \A i \in 1 .. n + 1 : x[i] \in Words
    BY DEF Numbers, InWords
  <2>2. /\ \A i \in 1 .. n : p[i] \in Nat
        /\ p[1] = 1 /\ \A i \in 2 .. n : p[i] = Wrapped(p[i - 1] * d[n + 2 - i])
    BY DEF Scaled, Numbers
  <2>3. /\ \A i \in 1 .. n + 1 : at[i] \in Words
        /\ at[1] = 0 /\ \A i \in 2 .. n + 1 : at[i] = Wrapped(x[i] + at[i - 1] * d[i - 1])
    BY DEF Addressed
  <2>4. rev[1] = x[n + 1]
    <3>1. 1 \in 1 .. n /\ n + 2 - 1 = n + 1
      OBVIOUS
    <3> QED
      BY <3>1 DEF Mirrored
  <2>5. /\ \A i \in 1 .. n : sum[i] \in Words
        /\ sum[1] = Wrapped(x[n + 1] * p[1])
        /\ \A i \in 2 .. n : sum[i] = Wrapped(x[n + 2 - i] * p[i] + sum[i - 1])
    <3>1. \A i \in 2 .. n : rev[i] = x[n + 2 - i]
      BY DEF Mirrored
    <3> QED
      BY <2>4, <3>1 DEF Summed
  <2> QED
    BY <2>1, <2>2, <2>3, <2>5
<1> DEFINE Meets(i) == \E a \in Nat, e \in Nat, s \in Nat :
                          /\ a = at[n + 1 - i] /\ e = d[n + 1 - i] * p[i] /\ s = sum[i]
                          /\ at[n + 1] = Wrapped(a * e + s)
           T == {i \in Nat : i + 1 \in 1 .. n => Meets(i + 1)}
<1>1. 0 \in T
  <2>1. PICK j \in Nat : j = x[n + 1]
    <3>1. n + 1 \in 2 .. n + 1
      OBVIOUS
    <3>2. x[n + 1] \in Words
      BY <1>0, <3>1
    <3> QED
      BY <3>2, WordsOf
  <2>2. n \in 1 .. n /\ n \in 1 .. n + 1 /\ 1 \in 1 .. n /\ n + 1 \in 2 .. n + 1 /\ (n + 1) - 1 = n
    OBVIOUS
  <2>3. PICK a \in Nat, e \in Nat, s \in Nat : a = at[n] /\ e = d[n] /\ s = sum[1]
    BY <1>0, <2>2, WordsOf
  <2>4. at[n + 1] = Wrapped(j + a * e)
    BY <1>0, <2>1, <2>2, <2>3
  <2>5. s = Wrapped(j)
    BY <1>0, <2>1, <2>3
  <2>6. Wrapped(j + a * e) = Wrapped(a * e + s)
    <3>1. PICK y \in Nat : y = a * e
      OBVIOUS
    <3>2. PICK q \in Int : j = Word * q + s
      BY <2>5, WrappedIs
    <3>3. PICK u \in Int, v \in Int, h \in Int : u = j + y /\ v = y + s /\ h = Word * q
      BY WordAssumption
    <3>4. u = Word * q + v
      BY <3>2, <3>3
    <3>5. Wrapped(u) = Wrapped(v)
      BY <3>4, SameWrapped
    <3> QED
      BY <3>1, <3>3, <3>5
  <2>7. n + 1 - 1 = n /\ d[n] * p[1] = e
    BY <1>0, <2>3
  <2>8. Meets(1)
    BY <2>3, <2>4, <2>6, <2>7
  <2> QED
    BY <2>8
<1>2. ASSUME NEW i \in T PROVE i + 1 \in T
  <2> SUFFICES ASSUME (i + 1) + 1 \in 1 .. n PROVE Meets((i + 1) + 1)
    OBVIOUS
  <2>1. PICK k0 \in 1 .. n, l \in 2 .. n, m \in 2 .. n :
           k0 = i + 1 /\ l = k0 + 1 /\ m = n + 1 - k0
    <3>1. i + 1 \in 1 .. n /\ (i + 1) + 1 \in 2 .. n /\ n + 1 - (i + 1) \in 2 .. n
      OBVIOUS
    <3> QED
      BY <3>1
  <2>2. PICK x0 \in Nat, p0 \in Nat, s \in Nat :
           /\ x0 = at[m] /\ p0 = d[m] * p[k0] /\ s = sum[k0]
           /\ at[n + 1] = Wrapped(x0 * p0 + s)
    <3>1. Meets(k0)
      BY <1>0, <2>1
    <3> QED
      BY <2>1, <3>1
  <2>3. /\ n + 1 - l = m - 1 /\ n + 2 - l = m /\ l - 1 = k0 /\ m - 1 \in 1 .. n
        /\ l \in 1 .. n /\ m \in 2 .. n + 1 /\ m - 1 \in 1 .. n + 1
    BY <2>1
  <2>4. PICK j \in Nat, a \in Nat, e \in Nat, r \in Nat, t \in Nat :
           j = x[m] /\ a = at[m - 1] /\ e = d[m - 1] /\ r = p[l] /\ t = sum[l]
    <3>1. x[m] \in Words /\ at[m - 1] \in Words /\ sum[l] \in Words
      BY <1>0, <2>3
    <3>2. d[m - 1] \in Nat /\ p[l] \in Nat
      BY <1>0, <2>3
    <3> QED
      BY <3>1, <3>2, WordsOf
  <2>5. x0 = Wrapped(j + a * e)
    BY <1>0, <2>2, <2>3, <2>4
  <2>6. r = Wrapped(p0)
    <3>1. r = Wrapped(p[k0] * d[m])
      BY <1>0, <2>3, <2>4
    <3>2. p[k0] \in Nat /\ d[m] \in Nat
      BY <1>0, <2>3
    <3>3. p[k0] * d[m] = d[m] * p[k0]
      BY <3>2
    <3> QED
      BY <2>2, <3>1, <3>3
  <2>7. t = Wrapped(j * r + s)
    BY <1>0, <2>2, <2>3, <2>4
  <2>8. Wrapped(x0 * p0 + s) = Wrapped(a * (e * r) + t)
    <3>1. Taken(j, a, e, p0, s, x0, r, t)
      BY <2>5, <2>6, <2>7 DEF Taken
    <3>2. Equal(x0, p0, s, a, e, r, t)
      BY <3>1, NextIndex
    <3> QED
      BY <3>2 DEF Equal
  <2>9. PICK f \in Nat : f = e * r
    OBVIOUS
  <2>10. f = d[m - 1] * p[l] /\ at[n + 1] = Wrapped(a * f + t)
    BY <2>2, <2>4, <2>8, <2>9
  <2>11. Meets(l)
    <3>1. a = at[n + 1 - l] /\ f = d[n + 1 - l] * p[l] /\ t = sum[l] /\ at[n + 1] = Wrapped(a * f + t)
      BY <2>3, <2>4, <2>10
    <3> QED
      BY ONLY <3>1, a \in Nat, f \in Nat, t \in Nat
  <2> QED
    BY <2>1, <2>11
<1>3. T = Nat
  <2> HIDE DEF T
  <2>1. T \in SUBSET Nat
    BY DEF T
  <2> QED
    BY <1>1, <1>2, <2>1, UpTo
<1>4. Meets(n)
  <2>1. PICK m \in Nat : m + 1 = n
    <3>1. n - 1 \in Nat /\ (n - 1) + 1 = n
      OBVIOUS
    <3> QED
      BY <3>1
  <2>2. m \in T
    <3> HIDE DEF T
    <3> QED
      BY <1>3
  <2> QED
    BY <2>1, <2>2
<1>5. PICK a \in Nat, e \in Nat, s \in Nat :
         a = at[n + 1 - n] /\ s = sum[n] /\ at[n + 1] = Wrapped(a * e + s)
  BY <1>4
<1>6. a = 0 /\ a * e + s = s
  <2>1. n + 1 - n = 1
    OBVIOUS
  <2> QED
    BY <1>0, <1>5, <2>1
<1>7. s \in Words
  <2>1. n \in 1 .. n
    OBVIOUS
  <2> QED
    BY <1>0, <1>5, <2>1
<1> QED
  BY <1>5, <1>6, <1>7, WordsOf

\* The index FlattenMultiDimArrayIndices makes.
LEMMA FlatIndexIs ==
  ASSUME NEW g \in GepRecords, Flattenable(g), Len(g.dims) > 1
  PROVE  FlatIndex(g) \in Words /\ FlatIndex(g) = RowMajor(WithoutFirst(g))
<1>1. g.dims \in Seq(Nat) /\ g.idx \in Seq(Words)
  BY DEF GepRecords, Words
<1>2. PICK d \in Seq(Nat), x \in Seq(Words), n \in Nat \ {0} :
         /\ d = g.dims /\ x = g.idx /\ n = Len(d) /\ Len(x) = n + 1
  BY <1>1 DEF Flattenable
<1>3. PICK p : p = Products(Reversed(d))
  OBVIOUS
<1>4. /\ p \in [1 .. n -> Nat] /\ p[1] = 1
      /\ \A i \in 2 .. n : p[i] = Wrapped(p[i - 1] * d[n + 2 - i])
  <2>1. PICK s : s = Reversed(d)
    OBVIOUS
  <2>2. s \in Seq(Nat) /\ Len(s) = n /\ s # <<>> /\ \A i \in 1 .. n : s[i] = d[n + 1 - i]
    <3>1. PICK S : S = Nat
      OBVIOUS
    <3>2. s \in Seq(S) /\ Len(s) = n /\ \A i \in 1 .. n : s[i] = d[n + 1 - i]
      BY <1>2, <2>1, <3>1, ReversedIs
    <3> QED
      BY <3>1, <3>2
  <2>3. /\ p \in [1 .. n -> Nat] /\ p[1] = 1
        /\ \A i \in 2 .. n : p[i] = Wrapped(p[i - 1] * s[i - 1])
    BY <1>3, <2>1, <2>2, ProductsIs
  <2>4. ASSUME NEW i \in 2 .. n PROVE p[i] = Wrapped(p[i - 1] * d[n + 2 - i])
    <3>1. i - 1 \in 1 .. n /\ n + 1 - (i - 1) = n + 2 - i
      OBVIOUS
    <3>2. s[i - 1] = d[n + 2 - i]
      BY <2>2, <3>1
    <3> QED
      BY <2>3, <3>2
  <2> QED
    BY <2>3, <2>4
<1>5. PICK r : r = Reversed(Tail(x))
  OBVIOUS
<1>6. \A i \in 1 .. n : r[i] = x[n + 2 - i] /\ r[i] \in Words
  <2>1. Tail(x) \in Seq(Words) /\ Len(Tail(x)) = n /\ \A i \in 1 .. n : Tail(x)[i] = x[i + 1]
    BY <1>2
  <2>2. PICK t \in Seq(Words) : t = Tail(x) /\ Len(t) = n
    BY <2>1
  <2>3. \A i \in 1 .. n : r[i] = t[n + 1 - i]
    BY <1>5, <2>2, ReversedIs
  <2> SUFFICES ASSUME NEW i \in 1 .. n PROVE r[i] = x[n + 2 - i] /\ r[i] \in Words
    OBVIOUS
  <2>4. n + 1 - i \in 1 .. n /\ (n + 1 - i) + 1 = n + 2 - i
    OBVIOUS
  <2>5. t[n + 1 - i] = x[(n + 1 - i) + 1] /\ t[n + 1 - i] \in Words
    BY <2>1, <2>2, <2>4
  <2> QED
    BY <2>3, <2>4, <2>5
<1>7. PICK sum : sum = CHOOSE f : IsSum(r, p, f)
  OBVIOUS
<1>8. FlatIndex(g) = sum[n]
  BY <1>2, <1>3, <1>5, <1>7 DEF FlatIndex, IsSum, Wrapped
<1>9. Summed(n, r, p, sum)
  <2>1. Numbers(n, r)
    BY <1>6, WordsOf DEF Numbers
  <2> QED
    BY <1>4, <1>7, <2>1, SumIs
<1>10. PICK y : y = <<0>> \o Tail(x)
  OBVIOUS
<1>11. /\ Len(y) = n + 1 /\ y[1] = 0 /\ \A i \in 2 .. n + 1 : y[i] = x[i]
       /\ \A i \in 1 .. n + 1 : y[i] \in Words
  <2>1. /\ Tail(x) \in Seq(Words) /\ Len(Tail(x)) = n
        /\ \A i \in 1 .. n : Tail(x)[i] = x[i + 1] /\ x[i + 1] \in Words
    BY <1>2
  <2>2. PICK t \in Seq(Words) : t = Tail(x) /\ Len(t) = n /\ \A i \in 1 .. n : t[i] = x[i + 1]
    BY <2>1
  <2>3. y = <<0>> \o t
    BY <1>10, <2>2
  <2>4. Len(y) = n + 1 /\ y[1] = 0 /\ \A i \in 2 .. n + 1 : y[i] = t[i - 1]
    BY <2>2, <2>3
  <2>5. ASSUME NEW i \in 2 .. n + 1 PROVE y[i] = x[i] /\ x[i] \in Words
    <3>1. i - 1 \in 1 .. n /\ (i - 1) + 1 = i
      OBVIOUS
    <3> QED
      BY <2>1, <2>2, <2>4, <3>1
  <2>6. ASSUME NEW i \in 1 .. n + 1 PROVE y[i] \in Words
    <3>1. i = 1 \/ i \in 2 .. n + 1
      OBVIOUS
    <3> QED
      BY <2>4, <2>5, <3>1, WordsOf
  <2> QED
    BY <2>4, <2>5, <2>6
<1>12. PICK h : h = WithoutFirst(g)
  OBVIOUS
<1>13. h.idx = y /\ h.dims = d
  BY <1>2, <1>10, <1>12 DEF WithoutFirst, GepRecords
<1>14. PICK N \in Nat \ {0} : N = n + 1
  OBVIOUS
<1>15. PICK at : at = CHOOSE f : IsAt(y, d, N, f)
  OBVIOUS
<1>16. RowMajor(h) = at[N]
  <2>1. RowMajor(h) = (CHOOSE f : IsAt(h.idx, h.dims, Len(h.idx), f))[Len(h.idx)]
    BY DEF RowMajor, IsAt, Wrapped
  <2> QED
    BY <1>11, <1>13, <1>14, <1>15, <2>1
<1>17. Numbers(n, d)
  BY <1>2 DEF Numbers
<1>18. InWords(N, y)
  BY <1>11, <1>14 DEF InWords
<1>19. Addressed(N, y, d, at)
  <2>1. Numbers(N - 1, d)
    <3>1. N - 1 = n
      BY <1>14
    <3> QED
      BY <1>17, <3>1
  <2> QED
    BY <1>15, <1>18, <2>1, AtIs
<1>20. Scaled(n, d, p)
  BY <1>4 DEF Scaled, Numbers
<1>21. Mirrored(n, r, y)
  <2>1. \A i \in 1 .. n : n + 2 - i \in 2 .. n + 1
    OBVIOUS
  <2> QED
    BY <1>6, <1>11, <2>1 DEF Mirrored
<1>22. sum[n] = at[n + 1]
  BY <1>9, <1>11, <1>14, <1>17, <1>18, <1>19, <1>20, <1>21, SameElement
<1>23. n \in 1 .. n /\ sum[n] \in Words
  <2>1. n \in 1 .. n
    OBVIOUS
  <2> QED
    BY <1>9, <2>1 DEF Summed
<1> QED
  BY <1>8, <1>12, <1>14, <1>16, <1>22, <1>23

-----------------------------------------------------------------------------
(* The types, and flattened references *)

\* A getelementptr is as it was, or rewritten in one of the two ways.
LEMMA FlatIsNew == GepRecords \cap Flats = {} /\ GepRecords \cap Chains = {}
<1>1. ASSUME NEW g \in GepRecords PROVE "leaf" \in DOMAIN g
  BY DEF GepRecords
<1>2. ASSUME NEW g \in Flats \cup Chains PROVE "leaf" \notin DOMAIN g
  BY DEF Flats, Chains
<1> QED
  BY <1>1, <1>2

\* What the accesses before the current one go through.
Passed(g) == \E i \in DOMAIN fn.accesses : i < k /\ Through(i) = g

Flattening ==
  mode = "flatten" =>
    /\ \A g \in Geps :
         \/ IsOriginal(g)
         \/ form[g] \in Flats /\ form[g].flat = RowMajor(WithoutFirst(fn.geps[g]))
    /\ pc \in {"begin", "walk", "done"} =>
         \A g \in Geps : Passed(g) /\ Len(fn.geps[g].dims) > 1 => form[g] \in Flats
    /\ pc = "done" => k > Len(fn.accesses)

Arrays == Decomposing /\ ArraysTypeOK /\ Flattening

LEMMA AccessesOf ==
  ASSUME fn \in Functions
  PROVE  Len(fn.accesses) \in Nat /\ DOMAIN fn.accesses = 1 .. Len(fn.accesses)
<1>1. PICK S : fn.accesses \in Seq(S)
  BY FunctionAssumption
<1> QED
  BY <1>1

LEMMA InitArrays == Init => Arrays
<1> SUFFICES ASSUME Init PROVE Arrays
  OBVIOUS
<1>1. fn \in Functions /\ form = fn.geps /\ k = 1 /\ chain = <<>> /\ last = 0 /\ pc = "begin"
  BY DEF Init
<1>2. fn.geps \in [Geps -> GepRecords]
  BY <1>1, FunctionAssumption
<1>3. form \in [Geps -> GepRecords \cup Flats \cup Chains]
  BY <1>1, <1>2
<1>4. ArraysTypeOK
  <2>1. k \in 1 .. Len(fn.accesses) + 1
    BY <1>1, AccessesOf
  <2>2. mode \in {"flatten", "decompose"} /\ asserts \in BOOLEAN /\ changed \in BOOLEAN
    BY DEF Init
  <2>3. chain \in Seq(Instructions) /\ last \in Nat
    BY <1>1
  <2> QED
    BY <1>1, <1>3, <2>1, <2>2, <2>3 DEF ArraysTypeOK
<1>5. Flattening
  <2>1. \A g : ~Passed(g)
    BY <1>1, AccessesOf DEF Passed
  <2> QED
    BY <1>1, <2>1 DEF Flattening, IsOriginal
<1> QED
  BY <1>4, <1>5, InitDecomposing DEF Arrays

\* What changes no getelementptr.
LEMMA SameForm ==
  ASSUME Arrays, UNCHANGED <<fn, mode, form>>,
         pc' \in {"begin", "walk", "done"} /\ mode = "flatten" =>
           \A g \in Geps : Passed(g)' /\ Len(fn.geps[g].dims) > 1 => form[g] \in Flats,
         pc' = "done" /\ mode = "flatten" => k' > Len(fn.accesses)
  PROVE  Flattening'
  BY DEF Arrays, Flattening, IsOriginal

LEMMA SamePassed ==
  ASSUME UNCHANGED <<fn, k>>
  PROVE  \A g : Passed(g)' <=> Passed(g)
  BY DEF Passed, Through

LEMMA NextPassed ==
  ASSUME fn \in Functions, k \in Nat, k' = k + 1, fn' = fn
  PROVE  \A g : Passed(g)' => Passed(g) \/ g = Current
<1> SUFFICES ASSUME NEW g, Passed(g)' PROVE Passed(g) \/ g = Current
  OBVIOUS
<1>1. PICK i \in DOMAIN fn.accesses : i < k + 1 /\ Through(i) = g
  BY DEF Passed, Through
<1>2. i \in Nat
  BY AccessesOf
<1>3. i < k \/ i = k
  BY <1>1, <1>2
<1> QED
  BY <1>1, <1>3 DEF Passed, Current

LEMMA FlattenKept == ASSUME Arrays, Flatten PROVE Arrays'
<1> USE DEF Arrays
<1>1. /\ pc = "walk" /\ k <= Len(fn.accesses) /\ mode = "flatten" /\ Current # NoGep
      /\ UNCHANGED <<fn, mode, asserts, chain, last, pc>> /\ k' = k + 1
      /\ fn \in Functions /\ k \in Nat \ {0}
  BY DEF Flatten, Visiting, Decomposing, Types
<1>2. Current \in Geps
  BY <1>1, Accessed
<1>3. fn.geps[Current] \in GepRecords
  BY <1>1, <1>2, GepType
<1>4. form \in [Geps -> GepRecords \cup Flats \cup Chains]
  BY DEF ArraysTypeOK
<1>5. CASE IsOriginal(Current) /\ Len(form[Current].dims) > 1
  <2>1. PICK c \in Geps : c = Current
    BY <1>2
  <2>2. PICK g \in GepRecords : g = fn.geps[c] /\ g = form[c]
    BY <1>3, <1>5, <2>1 DEF IsOriginal
  <2>3. Flattenable(g) /\ Len(g.dims) > 1
    BY <1>5, <2>1, <2>2 DEF Flatten
  <2>4. FlatIndex(g) \in Words /\ FlatIndex(g) = RowMajor(WithoutFirst(g))
    BY <2>3, FlatIndexIs
  <2>5. PICK flat \in Flats : flat = [flat |-> FlatIndex(g)] /\ flat.flat = RowMajor(WithoutFirst(g))
    <3>1. PICK x \in Words : x = FlatIndex(g)
      BY <2>4
    <3>2. [flat |-> x] \in Flats /\ [flat |-> x].flat = x
      BY DEF Flats, Words
    <3> QED
      BY <2>4, <3>1, <3>2
  <2>6. form' = [form EXCEPT ![c] = flat] /\ changed' = TRUE
    BY <1>5, <2>1, <2>2, <2>5 DEF Flatten
  <2>7. form' \in [Geps -> GepRecords \cup Flats \cup Chains]
    BY <1>4, <2>6
  <2>8. ArraysTypeOK'
    <3>1. k' \in 1 .. Len(fn'.accesses) + 1
      BY <1>1, AccessesOf
    <3> QED
      BY <1>1, <2>6, <2>7, <3>1 DEF ArraysTypeOK
  <2>9. form'[c] = flat /\ \A h \in Geps : h # c => form'[h] = form[h]
    BY <1>4, <2>6
  <2>10. ASSUME NEW h \in Geps
         PROVE  /\ IsOriginal(h)' \/ (form'[h] \in Flats /\ form'[h].flat = RowMajor(WithoutFirst(fn.geps[h])))
                /\ Passed(h)' /\ Len(fn.geps[h].dims) > 1 => form'[h] \in Flats
    <3>1. CASE h = c
      BY <2>2, <2>5, <2>9, <3>1
    <3>2. CASE h # c
      <4>1. IsOriginal(h)' <=> IsOriginal(h)
        BY <1>1, <2>9, <3>2 DEF IsOriginal
      <4>2. Passed(h)' => Passed(h)
        BY <1>1, <2>1, <3>2, NextPassed
      <4> QED
        BY <1>1, <2>9, <3>2, <4>1, <4>2 DEF Flattening
    <3> QED
      BY <3>1, <3>2
  <2>11. Flattening'
    BY <1>1, <2>10 DEF Flattening
  <2> QED
    BY <2>8, <2>11, DecomposingStep DEF Next
<1>6. CASE ~(IsOriginal(Current) /\ Len(form[Current].dims) > 1)
  <2>1. UNCHANGED <<form, changed>>
    BY <1>6 DEF Flatten
  <2>2. ArraysTypeOK'
    <3>1. k' \in 1 .. Len(fn'.accesses) + 1
      BY <1>1, AccessesOf
    <3> QED
      BY <1>1, <2>1, <3>1 DEF ArraysTypeOK
  <2>3. ASSUME NEW g \in Geps, Passed(g)', Len(fn.geps[g].dims) > 1 PROVE form[g] \in Flats
    <3>1. CASE g = Current
      BY <1>1, <1>6, <2>3, <3>1 DEF Flattening, IsOriginal
    <3>2. CASE g # Current
      <4>1. Passed(g)
        BY <1>1, <2>3, <3>2, NextPassed
      <4> QED
        BY <1>1, <2>3, <4>1 DEF Flattening
    <3> QED
      BY <3>1, <3>2
  <2>4. Flattening'
    BY <1>1, <2>1, <2>3, SameForm
  <2> QED
    BY <2>2, <2>4, DecomposingStep DEF Next
<1> QED
  BY <1>5, <1>6

LEMMA ArraysKept == Arrays /\ [Next]_vars => Arrays'
<1> SUFFICES ASSUME Arrays, [Next]_vars PROVE Arrays'
  OBVIOUS
<1>1. Decomposing /\ ArraysTypeOK /\ Flattening /\ Decomposing'
  BY DecomposingStep DEF Arrays
<1>2. CASE UNCHANGED vars
  <2>1. UNCHANGED <<fn, mode, form, k, pc>> /\ UNCHANGED <<asserts, chain, last, changed>>
    BY <1>2 DEF vars
  <2>2. \A g : Passed(g)' <=> Passed(g)
    BY <2>1, SamePassed
  <2> QED
    BY <1>1, <2>1, <2>2 DEF Arrays, ArraysTypeOK, Flattening, IsOriginal
<1>3. CASE Flatten
  BY <1>3, FlattenKept
<1>4. CASE Skip \/ Begin \/ Finish \/ FlattenOutside \/ FlattenUnfit \/ DecomposeField
  <2>1. /\ UNCHANGED <<fn, mode, asserts, form, k, chain, last, changed>>
        /\ pc' \in {"done", "walk", "undefined", "abort"}
    BY <1>4 DEF Skip, Begin, Finish, FlattenOutside, FlattenUnfit, DecomposeField
  <2>2. ArraysTypeOK'
    BY <1>1, <2>1 DEF ArraysTypeOK
  <2>3. pc \in {"begin", "walk"}
    BY <1>4 DEF Skip, Begin, Finish, FlattenOutside, FlattenUnfit, DecomposeField, Visiting
  <2>4. mode = "flatten" => \A g \in Geps :
           Passed(g)' /\ Len(fn.geps[g].dims) > 1 => form[g] \in Flats
    <3>1. \A g : Passed(g)' <=> Passed(g)
      BY <2>1, SamePassed
    <3> QED
      BY <1>1, <2>3, <3>1 DEF Flattening
  <2>5. pc' = "done" /\ mode = "flatten" => k' > Len(fn.accesses)
    BY <1>4, <2>1 DEF Skip, Begin, Finish, FlattenOutside, FlattenUnfit, DecomposeField
  <2>6. Flattening'
    BY <2>1, <2>4, <2>5, SameForm
  <2> QED
    BY <1>1, <2>2, <2>6 DEF Arrays
<1>5. CASE PassOver
  <2>1. /\ UNCHANGED <<fn, mode, asserts, form, chain, last, changed, pc>> /\ k' = k + 1
        /\ pc = "walk" /\ k <= Len(fn.accesses) /\ Current = NoGep
        /\ fn \in Functions /\ k \in Nat \ {0}
    BY <1>1, <1>5 DEF PassOver, Visiting, Decomposing, Types
  <2>2. k' \in 1 .. Len(fn'.accesses) + 1
    BY <2>1, AccessesOf
  <2>3. ArraysTypeOK'
    BY <1>1, <2>1, <2>2 DEF ArraysTypeOK
  <2>4. \A g \in Geps : Passed(g)' => Passed(g)
    BY <2>1, NextPassed, WordAssumption
  <2>5. Flattening'
    BY <1>1, <2>1, <2>4 DEF Flattening, IsOriginal
  <2> QED
    BY <1>1, <2>3, <2>5 DEF Arrays
<1>6. CASE DecomposeNothing
  <2>1. /\ UNCHANGED <<fn, mode, asserts, form, chain, last, changed, pc>> /\ k' = k + 1
        /\ pc = "walk" /\ k <= Len(fn.accesses) /\ mode = "decompose"
        /\ fn \in Functions /\ k \in Nat \ {0}
    BY <1>1, <1>6 DEF DecomposeNothing, Visiting, Decomposing, Types
  <2>2. k' \in 1 .. Len(fn'.accesses) + 1
    BY <2>1, AccessesOf
  <2>3. ArraysTypeOK'
    BY <1>1, <2>1, <2>2 DEF ArraysTypeOK
  <2> QED
    BY <1>1, <2>1, <2>3 DEF Arrays, Flattening
<1>7. ASSUME StartChain \/ ExtendChain PROVE Arrays'
  <2>1. /\ UNCHANGED <<fn, mode, asserts, form, k, changed>> /\ pc' = "chain"
        /\ fn \in Functions /\ k \in Nat \ {0}
    BY <1>1, <1>7 DEF StartChain, ExtendChain, Decomposing, Types
  <2>2. mode = "decompose" /\ k <= Len(fn.accesses) /\ Current \in Geps
    <3>1. mode = "decompose" /\ k <= Len(fn.accesses) /\ Current # NoGep
      BY <1>1, <1>7 DEF StartChain, ExtendChain, Visiting, Decomposing, Chaining
    <3> QED
      BY <2>1, <3>1, Accessed
  <2>3. PICK g \in GepRecords : g = fn.geps[Current] /\ Decomposable(g)
    <3>1. fn.geps[Current] \in GepRecords
      BY <2>1, <2>2, GepType
    <3>2. Decomposable(fn.geps[Current])
      BY <1>1, <1>7 DEF StartChain, ExtendChain, Decomposing, Chaining, IsOriginal
    <3> QED
      BY <3>1, <3>2
  <2>4. Current' = Current
    BY <2>1 DEF Current, Through
  <2>5. chain' \in Seq(Instructions) /\ Chaining'
    BY <1>1 DEF Decomposing, Types
  <2>6. last' = IF Len(chain') < Len(g.idx) THEN NewType(g, Len(chain') + 1) ELSE 1
    BY <2>1, <2>3, <2>4, <2>5 DEF Chaining
  <2>7. last' \in Nat
    <3>1. Len(g.idx) = Len(g.dims) + 1 /\ Len(g.dims) \in Nat /\ Len(chain') \in Nat
      BY <2>3, <2>5 DEF Decomposable, GepRecords
    <3> QED
      BY <2>6, <3>1 DEF NewType
  <2>8. ArraysTypeOK'
    BY <1>1, <2>1, <2>5, <2>7 DEF ArraysTypeOK
  <2> QED
    BY <1>1, <2>1, <2>2, <2>8 DEF Arrays, Flattening
<1>8. CASE EndChain
  <2>1. /\ UNCHANGED <<fn, mode, asserts, chain, last>> /\ k' = k + 1 /\ changed' = TRUE
        /\ pc = "chain" /\ pc' = "walk" /\ fn \in Functions /\ k \in Nat \ {0}
        /\ form' = [form EXCEPT ![Current] = [chain |-> chain, type |-> last]]
        /\ Len(chain) = Len(form[Current].idx)
    BY <1>1, <1>8 DEF EndChain, Decomposing, Types
  <2>2. /\ mode = "decompose" /\ k <= Len(fn.accesses) /\ Current # NoGep /\ IsOriginal(Current)
        /\ last = IF Len(chain) < Len(fn.geps[Current].idx)
                  THEN NewType(fn.geps[Current], Len(chain) + 1) ELSE 1
    BY <1>1, <2>1 DEF Decomposing, Chaining
  <2>3. Current \in Geps
    BY <2>1, <2>2, Accessed
  <2>4. last = 1
    <3>1. Len(chain) = Len(fn.geps[Current].idx) /\ Len(chain) \in Nat
      BY <1>1, <2>1, <2>2 DEF IsOriginal, ArraysTypeOK
    <3> QED
      BY <2>2, <3>1
  <2>5. PICK made \in Chains : made = [chain |-> chain, type |-> last]
    <3>1. PICK S : S = Seq(Instructions)
      OBVIOUS
    <3>2. PICK c \in S : c = chain
      BY <1>1, <3>1 DEF ArraysTypeOK
    <3>3. PICK t \in Nat \ {0} : t = last
      BY <2>4
    <3>4. [chain |-> c, type |-> t] \in [chain : S, type : Nat \ {0}]
      OBVIOUS
    <3>5. Chains = [chain : S, type : Nat \ {0}]
      BY <3>1 DEF Chains
    <3> QED
      BY <3>2, <3>3, <3>4, <3>5
  <2>6. form' \in [Geps -> GepRecords \cup Flats \cup Chains]
    <3>1. form \in [Geps -> GepRecords \cup Flats \cup Chains] /\ form' = [form EXCEPT ![Current] = made]
      BY <1>1, <2>1, <2>5 DEF ArraysTypeOK
    <3> QED
      BY <3>1
  <2>7. k' \in 1 .. Len(fn'.accesses) + 1
    BY <2>1, <2>2, AccessesOf
  <2>8. ArraysTypeOK'
    BY <1>1, <2>1, <2>6, <2>7 DEF ArraysTypeOK
  <2> QED
    BY <1>1, <2>1, <2>2, <2>8 DEF Arrays, Flattening
<1> QED
  BY <1>2, <1>3, <1>4, <1>5, <1>6, <1>7, <1>8 DEF Next

\* The types of the walk, its rewrites included.
THEOREM ArrayTypes == Spec => []ArraysTypeOK
<1>1. Arrays => ArraysTypeOK
  BY DEF Arrays
<1> QED
  BY <1>1, InitArrays, ArraysKept, PTL DEF Spec

\* FlattenedAddress, for arrays of every number of dimensions and sizes, and words
\* of every width: a flattened reference addresses the element it addressed
\* before, in the array its base points to, and after the walk all references
\* of the region to arrays of several dimensions are flattened.
THEOREM FlattenedTheSame == Spec => []FlattenedAddress
<1>1. Arrays => FlattenedAddress
  <2> SUFFICES ASSUME Arrays, mode = "flatten" PROVE FlattenedAddress
    BY DEF FlattenedAddress
  <2>1. Flattening /\ fn \in Functions
    BY DEF Arrays, ArraysTypeOK
  <2>2. ASSUME NEW g \in Geps, form[g] \in Flats
        PROVE  form[g].flat = RowMajor(WithoutFirst(fn.geps[g]))
    <3>1. ~IsOriginal(g)
      <4>1. fn.geps[g] \in GepRecords
        BY <2>1, GepType
      <4> QED
        BY <2>2, <4>1, FlatIsNew DEF IsOriginal
    <3> QED
      BY <2>1, <3>1 DEF Flattening
  <2>3. ASSUME pc = "done", NEW g \in Used, Len(fn.geps[g].dims) > 1 PROVE form[g] \in Flats
    <3>1. PICK i \in DOMAIN fn.accesses : g = Through(i) /\ g # NoGep
      BY DEF Used
    <3>2. i \in 1 .. Len(fn.accesses) /\ Len(fn.accesses) \in Nat /\ k \in Nat /\ k > Len(fn.accesses)
      BY <2>1, <2>3, AccessesOf DEF Flattening, Arrays, ArraysTypeOK
    <3>3. Passed(g)
      BY <3>1, <3>2 DEF Passed
    <3>4. g \in Geps
      <4>1. PICK S : S = [kind : AccessKinds, ptr : Geps \cup {NoGep}]
        OBVIOUS
      <4>2. fn.accesses \in Seq(S)
        BY <2>1, <4>1, FunctionAssumption
      <4>3. fn.accesses[i] \in S
        BY <3>1, <4>2
      <4>4. fn.accesses[i].ptr \in Geps \cup {NoGep}
        BY <4>1, <4>3
      <4> QED
        BY <3>1, <4>4 DEF Through, PointerOperand
    <3> QED
      BY <2>1, <2>3, <3>3, <3>4 DEF Flattening
  <2> QED
    BY <2>2, <2>3 DEF FlattenedAddress
<1> QED
  BY <1>1, InitArrays, ArraysKept, PTL DEF Spec
=============================================================================
