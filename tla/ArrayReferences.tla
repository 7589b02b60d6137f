--------------------------- MODULE ArrayReferences ---------------------------
(***************************************************************************)
(* How references to multi-dimensional arrays are rewritten: the code      *)
(* extractor flattens those of a cloned region (atrox-flatten-array-       *)
(* accesses), and a pass of its own decomposes those of a function.  Both  *)
(* walk a list of memory accesses that was made before the first rewrite   *)
(* and rewrite the getelementptr an access goes through, if it does.       *)
(*                                                                         *)
(* A getelementptr is [dims, leaf, idx, wide, inside]: the dimensions of   *)
(* the array its base points to (<<>> for anything else), whether the      *)
(* elements are scalars or structures, its indices, whether they are       *)
(* 64-bit, and whether it is in the region.  Numbers are words: they wrap  *)
(* at Word, 2^64 in the code.                                              *)
(***************************************************************************)
EXTENDS Integers, Sequences

CONSTANTS
  Word,       \* the number of values of an index
  Geps,       \* the getelementptrs of the function
  Functions   \* [geps, accesses, defined, listed]; an access is [kind, ptr]

NoGep == "no getelementptr"

AccessKinds == {"load", "store", "memset", "call", "other"}

ASSUME WordAssumption == Word \in Nat \ {0} /\ NoGep \notin Geps

GepRecords ==
  [dims : Seq(Nat), leaf : {"scalar", "struct"}, idx : Seq(0 .. Word - 1),
   wide : BOOLEAN, inside : BOOLEAN]

\* A getelementptr has an index for the pointer itself and at most one for
\* every dimension and the fields of an element.
ASSUME FunctionAssumption ==
  \A f \in Functions :
    /\ f.geps \in [Geps -> GepRecords]
    /\ f.accesses \in Seq([kind : AccessKinds, ptr : Geps \cup {NoGep}])
    /\ f.defined \in BOOLEAN /\ f.listed \in BOOLEAN
    /\ \A g \in Geps : LET r == f.geps[g] IN
         Len(r.idx) \in 1 .. Len(r.dims) + (IF r.leaf = "struct" THEN 2 ELSE 1)

VARIABLES
  fn,        \* the function before any rewrite
  mode,      \* "flatten" or "decompose"
  asserts,   \* the build checks assertions
  form,      \* what the getelementptrs are now: as they were, or
             \* [flat : index] or [chain : instructions]
  k,         \* the access being visited
  chain,     \* the instructions DecomposeMultiDimArrayRefs has made
  last,      \* the pointer levels of lastPtr
  changed,   \* hasChanged
  pc

vars == <<fn, mode, asserts, form, k, chain, last, changed, pc>>

\* MemAccInst::isa: what MemAccInstVisitor records.
IsAccess(a) == a.kind \in {"load", "store", "memset", "call"}

\* MemAccInst::getPointerOperand; that of a call is null.
PointerOperand(a) == IF a.kind = "call" THEN NoGep ELSE a.ptr

\* The getelementptr access i goes through; an instruction that is not recorded
\* counts as none.
Through(i) == IF IsAccess(fn.accesses[i]) THEN PointerOperand(fn.accesses[i]) ELSE NoGep

IsOriginal(g) == form[g] = fn.geps[g]

Reversed(s) == [i \in DOMAIN s |-> s[Len(s) + 1 - i]]

-----------------------------------------------------------------------------
Init ==
  /\ fn \in Functions
  /\ mode \in {"flatten", "decompose"}
  /\ asserts \in BOOLEAN
  /\ form = fn.geps
  /\ k = 1 /\ chain = <<>> /\ last = 0
  /\ changed = FALSE
  /\ pc = "begin"

\* DecomposeMultiDimArrayRefsPass::perform skips declarations and functions
\* that are not on the white list.
Skip ==
  /\ pc = "begin" /\ mode = "decompose"
  /\ ~fn.defined \/ ~fn.listed
  /\ pc' = "done"
  /\ UNCHANGED <<fn, mode, asserts, form, k, chain, last, changed>>

Begin ==
  /\ pc = "begin"
  /\ fn.defined /\ (mode = "flatten" \/ fn.listed)
  /\ pc' = "walk"
  /\ UNCHANGED <<fn, mode, asserts, form, k, chain, last, changed>>

Visiting == pc = "walk" /\ k <= Len(fn.accesses)

Current == Through(k)

PassOver ==
  /\ Visiting /\ Current = NoGep
  /\ k' = k + 1
  /\ UNCHANGED <<fn, mode, asserts, form, chain, last, changed, pc>>

-----------------------------------------------------------------------------
\* Mutant: the product of an index includes its own dimension.
ProductsOneOff(sizes) ==
  LET p[i \in DOMAIN sizes] == IF i = 1 THEN sizes[1] ELSE (p[i - 1] * sizes[i]) % Word
  IN  p

\* What one step of an index is worth, for dimensions in reverse order.
Products(sizes) ==
  LET p[i \in DOMAIN sizes] == IF i = 1 THEN 1 ELSE (p[i - 1] * sizes[i - 1]) % Word
  IN  p

\* The sum of the scaled indices; the first index of the getelementptr is
\* left out.
FlatIndex(g) ==
  LET products == Products(Reversed(g.dims))
      indices == Reversed(Tail(g.idx))
      sum[i \in DOMAIN products] ==
        (indices[i] * products[i] + (IF i = 1 THEN 0 ELSE sum[i - 1])) % Word
  IN  sum[Len(g.dims)]

\* A multiplication needs operands of one type, an index has to be there for
\* every dimension, and the replacement has to be of the type of what it
\* replaces.
Flattenable(g) == g.wide /\ Len(g.idx) = Len(g.dims) + 1

\* FlattenMultiDimArrayIndices, on what VMap has for the getelementptr by now.
Flatten ==
  /\ Visiting /\ mode = "flatten" /\ Current # NoGep
  /\ fn.geps[Current].inside
  /\ IsOriginal(Current) => Len(form[Current].dims) <= 1 \/ Flattenable(form[Current])
  /\ IF IsOriginal(Current) /\ Len(form[Current].dims) > 1
     THEN /\ form' = [form EXCEPT ![Current] = [flat |-> FlatIndex(form[Current])]]
          /\ changed' = TRUE
     ELSE UNCHANGED <<form, changed>>
  /\ k' = k + 1
  /\ UNCHANGED <<fn, mode, asserts, chain, last, pc>>

\* A getelementptr outside of the region has no clone: VMap hands out a null
\* pointer, which is dereferenced.
FlattenOutside ==
  /\ Visiting /\ mode = "flatten" /\ Current # NoGep
  /\ ~fn.geps[Current].inside
  /\ pc' = "undefined"
  /\ UNCHANGED <<fn, mode, asserts, form, k, chain, last, changed>>

\* Too few indices are read beyond their end; too many, or narrow ones, lead
\* to instructions of the wrong type.
FlattenUnfit ==
  /\ Visiting /\ mode = "flatten" /\ Current # NoGep
  /\ fn.geps[Current].inside /\ IsOriginal(Current)
  /\ Len(form[Current].dims) > 1 /\ ~Flattenable(form[Current])
  /\ pc' = IF asserts THEN "abort" ELSE "undefined"
  /\ UNCHANGED <<fn, mode, asserts, form, k, chain, last, changed>>

-----------------------------------------------------------------------------
\* The pointer levels of newTypes[i]: pointers to pointers down to elements.
NewType(g, i) == Len(g.dims) + 2 - i

\* What is decomposed: several indices, one for every dimension and no other.
Decomposable(g) == Len(g.idx) >= 2 /\ Len(g.idx) = Len(g.dims) + 1

\* Rewritten getelementptrs have one index.
DecomposeNothing ==
  /\ Visiting /\ mode = "decompose" /\ Current # NoGep
  /\ IsOriginal(Current) =>
       \/ Len(form[Current].idx) < 2
       \/ Len(form[Current].dims) > 0 /\ ~Decomposable(form[Current])
  /\ k' = k + 1
  /\ UNCHANGED <<fn, mode, asserts, form, chain, last, changed, pc>>

\* GetDecomposedMultiDimArrayType has no basic type for what is no array, and
\* asks for a pointer to it.
DecomposeField ==
  /\ Visiting /\ mode = "decompose" /\ Current # NoGep
  /\ IsOriginal(Current)
  /\ Len(form[Current].idx) >= 2 /\ Len(form[Current].dims) = 0
  /\ pc' = IF asserts THEN "abort" ELSE "undefined"
  /\ UNCHANGED <<fn, mode, asserts, form, k, chain, last, changed>>

StartChain ==
  /\ Visiting /\ mode = "decompose" /\ Current # NoGep
  /\ IsOriginal(Current) /\ Decomposable(form[Current])
  /\ chain' = <<>>
  /\ last' = NewType(form[Current], 1)
  /\ pc' = "chain"
  /\ UNCHANGED <<fn, mode, asserts, form, k, changed>>

\* Mutant: a load behind every address computation.
ExtendChainLoading ==
  /\ pc = "chain" /\ Len(chain) < Len(form[Current].idx)
  /\ LET i == Len(chain) + 1
         g == form[Current]
     IN  /\ chain' = Append(chain, [index |-> g.idx[i], type |-> NewType(g, i), on |-> last])
         /\ last' = NewType(g, i) - 1
  /\ UNCHANGED <<fn, mode, asserts, form, k, changed, pc>>

\* One turn of the loop over the indices: an address computation, and a load
\* behind it unless it is the last one.
ExtendChain ==
  /\ pc = "chain" /\ Len(chain) < Len(form[Current].idx)
  /\ LET i == Len(chain) + 1
         g == form[Current]
     IN  /\ chain' = Append(chain, [index |-> g.idx[i], type |-> NewType(g, i), on |-> last])
         /\ last' = IF i < Len(g.idx) THEN NewType(g, i) - 1 ELSE NewType(g, i)
  /\ UNCHANGED <<fn, mode, asserts, form, k, changed, pc>>

\* Mutant: the uses of the getelementptr are not replaced.
EndChainForgetful ==
  /\ pc = "chain" /\ Len(chain) = Len(form[Current].idx)
  /\ changed' = TRUE
  /\ k' = k + 1
  /\ pc' = "walk"
  /\ UNCHANGED <<fn, mode, asserts, form, chain, last>>

EndChain ==
  /\ pc = "chain" /\ Len(chain) = Len(form[Current].idx)
  /\ form' = [form EXCEPT ![Current] = [chain |-> chain, type |-> last]]
  /\ changed' = TRUE
  /\ k' = k + 1
  /\ pc' = "walk"
  /\ UNCHANGED <<fn, mode, asserts, chain, last>>

Finish ==
  /\ pc = "walk" /\ k > Len(fn.accesses)
  /\ pc' = "done"
  /\ UNCHANGED <<fn, mode, asserts, form, k, chain, last, changed>>

Next ==
  \/ Skip \/ Begin \/ PassOver
  \/ Flatten \/ FlattenOutside \/ FlattenUnfit
  \/ DecomposeNothing \/ DecomposeField \/ StartChain \/ ExtendChain \/ EndChain
  \/ Finish

Spec == Init /\ [][Next]_vars

-----------------------------------------------------------------------------
Flats == [flat : 0 .. Word - 1]

\* An address computation needs a pointer.
Instructions == [index : 0 .. Word - 1, type : Nat \ {0}, on : Nat \ {0}]

Chains == [chain : Seq(Instructions), type : Nat \ {0}]

ArraysTypeOK ==
  /\ fn \in Functions
  /\ mode \in {"flatten", "decompose"} /\ asserts \in BOOLEAN
  /\ form \in [Geps -> GepRecords \cup Flats \cup Chains]
  /\ k \in 1 .. Len(fn.accesses) + 1
  /\ chain \in Seq(Instructions)
  /\ last \in Nat
  /\ changed \in BOOLEAN
  /\ pc \in {"begin", "walk", "chain", "done", "abort", "undefined"}

\* The element a getelementptr with an index for every dimension is for,
\* counted in elements from its base.
RowMajor(g) ==
  LET at[i \in 1 .. Len(g.idx)] ==
        (g.idx[i] + (IF i = 1 THEN 0 ELSE at[i - 1] * g.dims[i - 1])) % Word
  IN  at[Len(g.idx)]

\* The first index is a number of whole arrays.
WithoutFirst(g) == [g EXCEPT !.idx = <<0>> \o Tail(g.idx)]

Used == {Through(i) : i \in DOMAIN fn.accesses} \ {NoGep}

\* A flattened reference addresses the element it addressed before, within
\* the array its base points to: the first index, if not zero, is lost, and
\* nothing else, whatever wraps.  After the walk all references of the region
\* to arrays of several dimensions are flattened, although several accesses may
\* share one.
FlattenedAddress ==
  mode = "flatten" =>
    /\ \A g \in Geps : form[g] \in Flats => form[g].flat = RowMajor(WithoutFirst(fn.geps[g]))
    /\ pc = "done" => \A g \in Used : Len(fn.geps[g].dims) > 1 => form[g] \in Flats

\* A decomposed reference uses every index once and in order, each on a pointer
\* of the type its address computation was made for, and ends in a pointer to
\* an element, which is what its users expect.  Nothing else is rewritten, and
\* a change is reported if there was one.
DecomposedTyped ==
  mode = "decompose" =>
    /\ \A g \in Geps : IsOriginal(g) \/
         /\ g \in Used /\ Decomposable(fn.geps[g])
         /\ form[g].type = 1
         /\ Len(form[g].chain) = Len(fn.geps[g].idx)
         /\ \A i \in DOMAIN form[g].chain :
              LET step == form[g].chain[i]
              IN  step.index = fn.geps[g].idx[i] /\ step.on = step.type
    /\ pc = "done" => (changed <=> \E g \in Geps : ~IsOriginal(g))
=============================================================================
