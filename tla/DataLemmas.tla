------------------------------ MODULE DataLemmas ------------------------------
(***************************************************************************)
(* Facts about data that several proofs need and the library has not got   *)
(* in a form the provers can use: recursion up to a number and over the    *)
(* subsets of a finite set, sums, and parts of sequences.  What varies is  *)
(* a function here, not an operator, so that the facts can be cited.       *)
(***************************************************************************)
EXTENDS Subsequences, FiniteSetsExt, FiniteSetTheorems, WellFoundedInduction, TLAPS

\* Every set of numbers with a member has a least one.
LEMMA Least ==
  ASSUME NEW T \in SUBSET Nat, T # {}
  PROVE  \E m \in T : \A n \in T : m <= n
<1> DEFINE R == {ss \in Nat \X Nat : ss[1] < ss[2]}
<1>1. IsWellFoundedOn(R, Nat)
  BY NatLessThanWellFounded DEF OpToRel
<1>2. \A x, y \in Nat : <<x, y>> \in R <=> x < y
  OBVIOUS
<1> HIDE DEF R
<1>3. \E x \in T : \A y \in T : ~(<<y, x>> \in R)
  BY <1>1, WFMin
<1>4. PICK x \in T : \A y \in T : ~(<<y, x>> \in R)
  BY <1>3
<1>5. ASSUME NEW y \in T PROVE x <= y
  <2>1. x \in Nat /\ y \in Nat
    OBVIOUS
  <2>2. ~(y < x)
    BY <1>2, <1>4, <2>1
  <2> QED
    BY <2>1, <2>2
<1> QED
  BY <1>4, <1>5

\* The numbers up to any bound hold for t what holds for zero and is passed on:
\* given as the set of those it holds for.
LEMMA UpTo ==
  ASSUME NEW P \in SUBSET Nat, 0 \in P, \A n \in P : n + 1 \in P
  PROVE  P = Nat
<1> SUFFICES ASSUME Nat \ P # {} PROVE FALSE
  OBVIOUS
<1>1. PICK m \in Nat \ P : \A n \in Nat \ P : m <= n
  BY Least
<1>2. m # 0 /\ m - 1 \in Nat /\ ~(m <= m - 1)
  BY <1>1
<1>3. m - 1 \in P
  BY <1>1, <1>2
<1>4. (m - 1) + 1 = m
  OBVIOUS
<1> QED
  BY <1>1, <1>3, <1>4

-----------------------------------------------------------------------------
(* Recursion up to a number *)

\* f begins with b and goes on to N by W, a function of the number and of the
\* value before.
Steps(b, W, N, f) == f = [n \in 0 .. N |-> IF n = 0 THEN b ELSE W[<<n, f[n - 1]>>]]

LEMMA StepsExist ==
  ASSUME NEW D, NEW b \in D, NEW W \in [Nat \X D -> D], NEW N \in Nat
  PROVE  \E f : Steps(b, W, N, f)
<1> DEFINE Reaches(k) == \E f \in [0 .. k -> D] : Steps(b, W, k, f)
           P == {k \in Nat : Reaches(k)}
<1>1. 0 \in P
  <2>1. PICK f : f = [n \in 0 .. 0 |-> b]
    OBVIOUS
  <2>2. f \in [0 .. 0 -> D] /\ f[0] = b /\ 0 .. 0 = {0}
    BY <2>1
  <2>3. f = [n \in 0 .. 0 |-> IF n = 0 THEN b ELSE W[<<n, f[n - 1]>>]]
    BY <2>1, <2>2
  <2> QED
    BY <2>2, <2>3 DEF Steps
<1>2. ASSUME NEW k \in P PROVE k + 1 \in P
  <2>1. PICK f \in [0 .. k -> D] : Steps(b, W, k, f)
    OBVIOUS
  <2>2. \A n \in 0 .. k : f[n] = IF n = 0 THEN b ELSE W[<<n, f[n - 1]>>]
    BY <2>1 DEF Steps
  <2>3. k \in Nat /\ f[k] \in D
    BY <2>1
  <2>4. PICK g : g = [n \in 0 .. k + 1 |-> IF n <= k THEN f[n] ELSE W[<<k + 1, f[k]>>]]
    OBVIOUS
  <2>5. g \in [0 .. k + 1 -> D]
    BY <2>1, <2>3, <2>4
  <2>6. ASSUME NEW n \in 0 .. k + 1
        PROVE  g[n] = IF n = 0 THEN b ELSE W[<<n, g[n - 1]>>]
    <3>1. CASE n <= k
      <4>1. n \in 0 .. k /\ g[n] = f[n]
        BY <2>4, <3>1
      <4>2. n # 0 => n - 1 \in 0 .. k /\ g[n - 1] = f[n - 1]
        BY <2>3, <2>4, <3>1
      <4> QED
        BY <2>2, <4>1, <4>2
    <3>2. CASE ~(n <= k)
      <4>1. n = k + 1 /\ n # 0 /\ n - 1 = k
        BY <2>3, <3>2
      <4>2. g[n] = W[<<k + 1, f[k]>>] /\ g[k] = f[k]
        BY <2>3, <2>4, <3>2
      <4> QED
        BY <4>1, <4>2
    <3> QED
      BY <3>1, <3>2
  <2>7. g = [n \in 0 .. k + 1 |-> IF n = 0 THEN b ELSE W[<<n, g[n - 1]>>]]
    BY <2>4, <2>6
  <2>8. Steps(b, W, k + 1, g)
    BY <2>7 DEF Steps
  <2> QED
    BY <2>3, <2>5, <2>8
<1> HIDE DEF P
<1>3. P = Nat
  <2>1. P \in SUBSET Nat
    BY DEF P
  <2> QED
    BY <1>1, <1>2, <2>1, UpTo
<1> QED
  BY <1>3 DEF P

Keeps(W, N, P) == \A n \in 1 .. N : \A x \in P : W[<<n, x>>] \in P

\* What such a function holds at every step, if it holds at the beginning and
\* is passed on: given as the set of the values that have it.
LEMMA StepsKeep ==
  ASSUME NEW N \in Nat, NEW b, NEW W, NEW f, Steps(b, W, N, f),
         NEW P, b \in P, Keeps(W, N, P)
  PROVE  /\ DOMAIN f = 0 .. N /\ f[0] = b
         /\ \A n \in 0 .. N : f[n] \in P
         /\ \A n \in 1 .. N : f[n] = W[<<n, f[n - 1]>>]
<1>1. /\ DOMAIN f = 0 .. N /\ f[0] = b
      /\ \A n \in 0 .. N : n # 0 => f[n] = W[<<n, f[n - 1]>>]
  BY DEF Steps
<1>2. \A n \in 1 .. N : f[n] = W[<<n, f[n - 1]>>]
  BY <1>1
<1> DEFINE Q == {n \in Nat : n <= N => f[n] \in P}
<1>3. 0 \in Q
  BY <1>1
<1>4. ASSUME NEW n \in Q PROVE n + 1 \in Q
  <2> SUFFICES ASSUME n + 1 <= N PROVE f[n + 1] \in P
    OBVIOUS
  <2>1. n \in Nat /\ n + 1 \in 1 .. N /\ (n + 1) - 1 = n /\ f[n] \in P
    OBVIOUS
  <2> QED
    BY <1>2, <2>1 DEF Keeps
<1> HIDE DEF Q
<1>5. Q = Nat
  <2>1. Q \in SUBSET Nat
    BY DEF Q
  <2> QED
    BY <1>3, <1>4, <2>1, UpTo
<1>6. \A n \in 0 .. N : f[n] \in P
  BY <1>5 DEF Q
<1> QED
  BY <1>1, <1>2, <1>6

-----------------------------------------------------------------------------
(* The greatest and the least of a set of numbers *)

LEMMA Greatest ==
  ASSUME NEW T \in SUBSET Nat, IsFiniteSet(T), T # {}
  PROVE  \E m \in T : \A n \in T : n <= m
<1> DEFINE Has(S) == \E m \in S : \A n \in S : n <= m
           P == {k \in Nat : \A S \in SUBSET Nat :
                   IsFiniteSet(S) /\ Cardinality(S) = k /\ S # {} => Has(S)}
<1>1. 0 \in P
  BY FS_EmptySet
<1>2. ASSUME NEW k \in P PROVE k + 1 \in P
  <2>1. SUFFICES ASSUME NEW S \in SUBSET Nat, IsFiniteSet(S), Cardinality(S) = k + 1, S # {}
                 PROVE  Has(S)
    OBVIOUS
  <2>2. PICK x : x \in S
    BY <2>1
  <2>3. IsFiniteSet(S \ {x}) /\ Cardinality(S \ {x}) = k /\ S \ {x} \in SUBSET Nat
    <3>1. IsFiniteSet(S \ {x}) /\ Cardinality(S \ {x}) = Cardinality(S) - 1
      BY <2>1, <2>2, FS_RemoveElement
    <3>2. k \in Nat /\ (k + 1) - 1 = k
      OBVIOUS
    <3>3. S \ {x} \in SUBSET Nat
      BY <2>1
    <3> QED
      BY <2>1, <3>1, <3>2, <3>3
  <2>4. CASE S \ {x} = {}
    BY <2>2, <2>4
  <2>5. CASE S \ {x} # {}
    <3>1. PICK m \in S \ {x} : \A n \in S \ {x} : n <= m
      BY <2>3, <2>5
    <3>2. m \in Nat /\ x \in Nat
      BY <2>1, <2>2
    <3>3. CASE x <= m
      BY <3>1, <3>3
    <3>4. CASE ~(x <= m)
      <4>1. \A n \in S \ {x} : n <= x
        BY <2>1, <3>1, <3>2, <3>4
      <4> QED
        BY <2>2, <3>2, <4>1
    <3> QED
      BY <3>3, <3>4
  <2> QED
    BY <2>4, <2>5
<1> HIDE DEF P
<1>3. P = Nat
  <2>1. P \in SUBSET Nat
    BY DEF P
  <2> QED
    BY <1>1, <1>2, <2>1, UpTo
<1>4. Cardinality(T) \in Nat
  BY FS_CardinalityType
<1> QED
  BY <1>3, <1>4 DEF P

LEMMA MaxIsGreatest ==
  ASSUME NEW T \in SUBSET Nat, IsFiniteSet(T), T # {}
  PROVE  Max(T) \in T /\ \A n \in T : n <= Max(T)
<1>1. PICK m \in T : \A n \in T : n <= m
  BY Greatest
<1>2. \A n \in T : m >= n
  BY <1>1
<1> QED
  BY <1>2 DEF Max

LEMMA MinIsLeast ==
  ASSUME NEW T \in SUBSET Nat, T # {}
  PROVE  Min(T) \in T /\ \A n \in T : Min(T) <= n
<1>1. PICK m \in T : \A n \in T : m <= n
  BY Least
<1> QED
  BY <1>1 DEF Min

-----------------------------------------------------------------------------
(* What can be reached in a finite graph *)

\* w[n] is what at most n edges in E lead to from h within B.
Grown(B, E, x) == UNION {{p} \cup {b \in B : <<p, b>> \in E} : p \in x}
Within(B, E, h, w) ==
  w = [n \in 0 .. Cardinality(B) |-> IF n = 0 THEN {h} ELSE Grown(B, E, w[n - 1])]

ClosedIn(B, E, x) == \A p \in x : \A b \in B : <<p, b>> \in E => b \in x

LEMMA WithinExists ==
  ASSUME NEW B, IsFiniteSet(B), NEW E, NEW h \in B
  PROVE  \E w : Within(B, E, h, w)
<1>1. PICK W : W = [x \in Nat \X SUBSET B |-> Grown(B, E, x[2])]
  OBVIOUS
<1>2. \A n \in Nat : \A x \in SUBSET B : W[<<n, x>>] = Grown(B, E, x)
  BY <1>1
<1>3. W \in [Nat \X SUBSET B -> SUBSET B]
  BY <1>1 DEF Grown
<1>4. PICK N \in Nat : N = Cardinality(B)
  BY FS_CardinalityType
<1>5. PICK D : D = SUBSET B
  OBVIOUS
<1> DEFINE b == {h}
<1>6. PICK w : Steps(b, W, N, w)
  <2>1. b \in D
    BY <1>5
  <2> QED
    BY <1>3, <1>5, <2>1, StepsExist
<1>7. Keeps(W, N, D)
  BY <1>3, <1>5 DEF Keeps
<1>8. /\ DOMAIN w = 0 .. N /\ w[0] = b
      /\ \A n \in 0 .. N : w[n] \in D
      /\ \A n \in 1 .. N : w[n] = W[<<n, w[n - 1]>>]
  <2>1. b \in D
    BY <1>5
  <2> QED
    BY <1>6, <1>7, <2>1, StepsKeep
<1>9. ASSUME NEW n \in 0 .. N PROVE w[n] = IF n = 0 THEN {h} ELSE Grown(B, E, w[n - 1])
  <2> SUFFICES ASSUME n # 0 PROVE w[n] = Grown(B, E, w[n - 1])
    BY <1>5, <1>8
  <2>1. n \in 1 .. N /\ n - 1 \in 0 .. N /\ n \in Nat
    OBVIOUS
  <2> QED
    BY <1>2, <1>5, <1>8, <2>1
<1>10. w = [n \in 0 .. N |-> w[n]]
  BY <1>6 DEF Steps
<1>11. w = [n \in 0 .. N |-> IF n = 0 THEN {h} ELSE Grown(B, E, w[n - 1])]
  BY <1>9, <1>10
<1> QED
  BY <1>4, <1>11 DEF Within

LEMMA WithinCloses ==
  ASSUME NEW B, IsFiniteSet(B), NEW E, NEW h \in B, NEW w, Within(B, E, h, w)
  PROVE  /\ w[Cardinality(B)] \in SUBSET B /\ h \in w[Cardinality(B)]
         /\ ClosedIn(B, E, w[Cardinality(B)])
         /\ \A S : h \in S /\ ClosedIn(B, E, S) => w[Cardinality(B)] \subseteq S
<1>1. PICK N \in Nat : N = Cardinality(B)
  BY FS_CardinalityType
<1>2. w[0] = {h} /\ \A n \in 0 .. N : n + 1 <= N => w[n + 1] = Grown(B, E, w[n])
  <2>1. \A n \in 0 .. N : w[n] = IF n = 0 THEN {h} ELSE Grown(B, E, w[n - 1])
    BY <1>1 DEF Within
  <2>2. ASSUME NEW n \in 0 .. N, n + 1 <= N PROVE w[n + 1] = Grown(B, E, w[n])
    <3>1. n + 1 \in 0 .. N /\ n + 1 # 0 /\ (n + 1) - 1 = n
      BY <2>2
    <3> QED
      BY <2>1, <3>1
  <2> QED
    BY <1>1, <2>1, <2>2
<1> DEFINE Good(n) == /\ w[n] \in SUBSET B /\ h \in w[n]
                      /\ ClosedIn(B, E, w[n]) \/ Cardinality(w[n]) > n
           P == {n \in Nat : n <= N => Good(n)}
<1>3. 0 \in P
  <2>1. Cardinality(w[0]) = 1
    BY <1>2, FS_Singleton
  <2> QED
    BY <1>2, <2>1
<1>4. ASSUME NEW n \in P PROVE n + 1 \in P
  <2>1. SUFFICES ASSUME n + 1 <= N PROVE Good(n + 1)
    OBVIOUS
  <2>2. n \in 0 .. N /\ Good(n)
    BY <1>1, <2>1
  <2>3. PICK x, y : x = w[n] /\ y = w[n + 1]
    OBVIOUS
  <2>4. y = Grown(B, E, x) /\ x \in SUBSET B /\ h \in x
    BY <1>2, <2>1, <2>2, <2>3
  <2>5. x \subseteq y /\ y \in SUBSET B
    <3>1. ASSUME NEW p \in x PROVE p \in y
      BY <2>4 DEF Grown
    <3>2. ASSUME NEW b \in y PROVE b \in B
      BY <2>4 DEF Grown
    <3> QED
      BY <3>1, <3>2
  <2>6. CASE ClosedIn(B, E, x)
    <3>1. y = x
      BY <2>4, <2>5, <2>6 DEF Grown, ClosedIn
    <3> QED
      BY <2>2, <2>3, <2>6, <3>1
  <2>7. CASE ~ClosedIn(B, E, x)
    <3>1. y # x
      BY <2>4, <2>7 DEF Grown, ClosedIn
    <3>2. IsFiniteSet(y) /\ IsFiniteSet(x)
      BY <2>4, <2>5, FS_Subset
    <3>3. Cardinality(x) <= Cardinality(y) /\ Cardinality(x) # Cardinality(y)
      BY <2>5, <3>1, <3>2, FS_Subset
    <3>4. Cardinality(x) \in Nat /\ Cardinality(y) \in Nat /\ Cardinality(x) > n
      BY <2>2, <2>3, <2>7, <3>2, FS_CardinalityType
    <3>5. Cardinality(y) > n + 1
      BY <2>2, <3>3, <3>4
    <3> QED
      BY <2>3, <2>4, <2>5, <3>5
  <2> QED
    BY <2>6, <2>7
<1>5. P = Nat
  <2> HIDE DEF P
  <2>1. P \in SUBSET Nat
    BY DEF P
  <2> QED
    BY <1>3, <1>4, <2>1, UpTo
<1>6. Good(N)
  BY <1>5
<1>7. ClosedIn(B, E, w[N])
  <2> SUFFICES ASSUME Cardinality(w[N]) > N PROVE FALSE
    BY <1>6
  <2>1. IsFiniteSet(w[N]) /\ Cardinality(w[N]) <= Cardinality(B)
    BY <1>6, FS_Subset
  <2>2. Cardinality(w[N]) \in Nat
    BY <2>1, FS_CardinalityType
  <2> QED
    BY <1>1, <2>1, <2>2
<1>8. ASSUME NEW S, h \in S, ClosedIn(B, E, S) PROVE w[N] \subseteq S
  <2> DEFINE Q == {n \in Nat : n <= N => w[n] \subseteq S}
  <2>1. 0 \in Q
    BY <1>2, <1>8
  <2>2. ASSUME NEW n \in Q PROVE n + 1 \in Q
    <3>1. SUFFICES ASSUME n + 1 <= N PROVE w[n + 1] \subseteq S
      OBVIOUS
    <3>2. n \in 0 .. N /\ w[n] \subseteq S
      BY <1>1, <3>1
    <3>3. w[n + 1] = Grown(B, E, w[n])
      BY <1>2, <3>1, <3>2
    <3> QED
      BY <1>8, <3>2, <3>3 DEF Grown, ClosedIn
  <2>3. Q = Nat
    <3> HIDE DEF Q
    <3>1. Q \in SUBSET Nat
      BY DEF Q
    <3> QED
      BY <2>1, <2>2, <3>1, UpTo
  <2> QED
    BY <2>3
<1> QED
  BY <1>1, <1>6, <1>7, <1>8

-----------------------------------------------------------------------------
(* Sums of the weights of a finite set's members *)

\* The member of s that a fold takes first, and s without it.
First(s) == CHOOSE x \in s : TRUE
Rest(s) == s \ {First(s)}

\* What a fold makes of s, given what it makes, by t, of smaller sets.
Added(w, t, s) == IF s = {} THEN 0 ELSE w[First(s)] + t[Rest(s)]

\* The functions of the subsets of D that add up weights.
Folds(w, D, t) == \A s \in SUBSET D : t[s] = Added(w, t, s)
Adds(w, D, t) == t \in [SUBSET D -> Nat] /\ Folds(w, D, t)
IsFold(w, D, t) == t = [s \in SUBSET D |-> Added(w, t, s)]

LEMMA SmallerRest ==
  ASSUME NEW s, IsFiniteSet(s), s # {}
  PROVE  /\ First(s) \in s
         /\ IsFiniteSet(Rest(s)) /\ Cardinality(Rest(s)) \in Nat
         /\ Cardinality(s) = Cardinality(Rest(s)) + 1
<1>1. PICK x \in s : x = First(s)
  BY DEF First
<1>2. /\ IsFiniteSet(s \ {x}) /\ Cardinality(s \ {x}) = Cardinality(s) - 1
  BY FS_RemoveElement
<1>3. Cardinality(s) \in Nat /\ Cardinality(s \ {x}) \in Nat
  BY <1>2, FS_CardinalityType
<1> QED
  BY <1>1, <1>2, <1>3 DEF Rest

\* A fold over a finite set has a result for every subset.
LEMMA AddsExists ==
  ASSUME NEW D, IsFiniteSet(D), NEW w \in [D -> Nat]
  PROVE  \E t : Adds(w, D, t)
<1> DEFINE UpToSize(n) ==
      \E t \in [SUBSET D -> Nat] :
         \A s \in SUBSET D : Cardinality(s) <= n => t[s] = Added(w, t, s)
<1> DEFINE P == {n \in Nat : UpToSize(n)}
<1>1. ASSUME NEW s \in SUBSET D
      PROVE  /\ IsFiniteSet(s) /\ Cardinality(s) \in Nat
             /\ Cardinality(s) <= Cardinality(D)
  BY FS_Subset, FS_CardinalityType
<1>2. ASSUME NEW s \in SUBSET D, s # {}
      PROVE  /\ First(s) \in D /\ Rest(s) \in SUBSET D
             /\ Cardinality(Rest(s)) \in Nat /\ Cardinality(s) = Cardinality(Rest(s)) + 1
  BY <1>1, <1>2, SmallerRest DEF Rest
<1>3. 0 \in P
  <2>1. PICK t : t = [s \in SUBSET D |-> 0]
    OBVIOUS
  <2>2. t \in [SUBSET D -> Nat]
    BY <2>1
  <2>3. ASSUME NEW s \in SUBSET D, Cardinality(s) <= 0 PROVE t[s] = Added(w, t, s)
    <3>1. s = {}
      BY <1>2, <2>3
    <3> QED
      BY <2>1, <3>1 DEF Added
  <2> QED
    BY <2>2, <2>3
<1>4. ASSUME NEW n \in P PROVE n + 1 \in P
  <2>1. PICK t \in [SUBSET D -> Nat] :
           \A s \in SUBSET D : Cardinality(s) <= n => t[s] = Added(w, t, s)
    OBVIOUS
  <2>2. PICK u : u = [s \in SUBSET D |-> IF Cardinality(s) <= n THEN t[s] ELSE Added(w, t, s)]
    OBVIOUS
  <2>3. ASSUME NEW s \in SUBSET D PROVE Added(w, t, s) \in Nat
    BY <1>2 DEF Added
  <2>4. u \in [SUBSET D -> Nat]
    BY <2>2, <2>3
  <2>5. ASSUME NEW s \in SUBSET D, Cardinality(s) <= n + 1 PROVE u[s] = Added(w, u, s)
    <3>1. u[s] = Added(w, t, s)
      BY <2>1, <2>2
    <3>2. CASE s = {}
      BY <3>1, <3>2 DEF Added
    <3>3. CASE s # {}
      <4>1. Rest(s) \in SUBSET D /\ Cardinality(Rest(s)) <= n
        BY <1>1, <1>2, <2>5, <3>3
      <4>2. u[Rest(s)] = t[Rest(s)]
        BY <2>2, <4>1
      <4> QED
        BY <3>1, <4>2 DEF Added
    <3> QED
      BY <3>2, <3>3
  <2> QED
    BY <2>4, <2>5
<1> HIDE DEF P
<1>5. P = Nat
  <2>1. P \in SUBSET Nat
    BY DEF P
  <2> QED
    BY <1>3, <1>4, <2>1, UpTo
<1>6. UpToSize(Cardinality(D))
  BY <1>1, <1>5 DEF P
<1> QED
  BY <1>1, <1>6 DEF Adds, Folds

\* It does not depend on the set of subsets it is computed on.
LEMMA AddsSame ==
  ASSUME NEW D, IsFiniteSet(D), NEW w, NEW C \in SUBSET D,
         NEW t, Folds(w, D, t), NEW u, Folds(w, C, u)
  PROVE  \A s \in SUBSET C : t[s] = u[s]
<1> DEFINE Differ == {n \in Nat : \E s \in SUBSET C : Cardinality(s) = n /\ t[s] # u[s]}
<1> SUFFICES ASSUME NEW r \in SUBSET C, t[r] # u[r] PROVE FALSE
  OBVIOUS
<1>1. ASSUME NEW s \in SUBSET C PROVE IsFiniteSet(s) /\ Cardinality(s) \in Nat
  BY FS_Subset, FS_CardinalityType
<1>2. Cardinality(r) \in Differ
  BY <1>1
<1>3. PICK m \in Differ : \A n \in Differ : m <= n
  <2>1. Differ \in SUBSET Nat /\ Differ # {}
    BY <1>2
  <2> HIDE DEF Differ
  <2> QED
    BY <2>1, Least
<1>4. PICK s \in SUBSET C : Cardinality(s) = m /\ t[s] # u[s]
  BY <1>3
<1>5. t[s] = Added(w, t, s) /\ u[s] = Added(w, u, s)
  BY DEF Folds
<1>6. s # {}
  BY <1>4, <1>5 DEF Added
<1>7. /\ Rest(s) \in SUBSET C /\ Cardinality(Rest(s)) \in Nat
      /\ Cardinality(s) = Cardinality(Rest(s)) + 1
  BY <1>1, <1>6, SmallerRest DEF Rest
<1>8. Cardinality(Rest(s)) \notin Differ
  BY <1>3, <1>4, <1>7
<1>9. t[Rest(s)] = u[Rest(s)]
  BY <1>7, <1>8
<1> QED
  BY <1>4, <1>5, <1>6, <1>9 DEF Added

\* A function that was made as a fold adds up numbers.
LEMMA FoldAdds ==
  ASSUME NEW D, IsFiniteSet(D), NEW w \in [D -> Nat], NEW t, IsFold(w, D, t)
  PROVE  Adds(w, D, t)
<1>1. PICK u : Adds(w, D, u)
  BY AddsExists
<1>2. Folds(w, D, t)
  BY DEF Folds, IsFold
<1>3. \A s \in SUBSET D : t[s] = u[s]
  BY <1>1, <1>2, AddsSame DEF Adds
<1>4. DOMAIN t = SUBSET D /\ t = [s \in SUBSET D |-> t[s]]
  BY DEF IsFold
<1>5. \A s \in SUBSET D : t[s] \in Nat
  BY <1>1, <1>3 DEF Adds
<1> QED
  BY <1>2, <1>4, <1>5 DEF Adds

\* Such a function can be made.
LEMMA FoldExists ==
  ASSUME NEW D, IsFiniteSet(D), NEW w \in [D -> Nat]
  PROVE  \E t : IsFold(w, D, t)
<1>1. PICK t : Adds(w, D, t)
  BY AddsExists
<1>2. IsFold(w, D, t)
  BY <1>1 DEF Adds, Folds, IsFold
<1> QED
  BY <1>2

\* Nor on the order in which members are taken.
LEMMA AddsAnyFirst ==
  ASSUME NEW D, IsFiniteSet(D), NEW w \in [D -> Nat], NEW t, Adds(w, D, t)
  PROVE  \A s \in SUBSET D : \A x \in s : t[s] = w[x] + t[s \ {x}]
<1> DEFINE Wrong(s) == \E x \in s : t[s] # w[x] + t[s \ {x}]
<1> DEFINE P == {n \in Nat : \E s \in SUBSET D : Cardinality(s) = n /\ Wrong(s)}
<1> SUFFICES ASSUME NEW r \in SUBSET D, Wrong(r) PROVE FALSE
  OBVIOUS
<1>1. ASSUME NEW s \in SUBSET D PROVE IsFiniteSet(s) /\ Cardinality(s) \in Nat
  BY FS_Subset, FS_CardinalityType
<1>2. PICK m \in P : \A n \in P : m <= n
  <2>1. P \in SUBSET Nat /\ P # {}
    BY <1>1
  <2> HIDE DEF P
  <2> QED
    BY <2>1, Least
<1>3. PICK s \in SUBSET D : Cardinality(s) = m /\ Wrong(s)
  BY <1>2
<1>4. PICK x \in s : t[s] # w[x] + t[s \ {x}]
  BY <1>3
<1>5. PICK c \in s : c = First(s)
  BY <1>1, SmallerRest
<1>6. t[s] = w[c] + t[s \ {c}]
  BY <1>5 DEF Adds, Folds, Added, Rest
<1>7. c # x
  BY <1>4, <1>6
<1>8. ASSUME NEW y \in s
      PROVE  /\ s \ {y} \in SUBSET D /\ ~Wrong(s \ {y})
  <2>1. Cardinality(s \ {y}) = Cardinality(s) - 1
    BY <1>1, FS_RemoveElement
  <2>2. s \ {y} \in SUBSET D /\ Cardinality(s \ {y}) \in Nat /\ Cardinality(s) \in Nat
    BY <1>1
  <2>3. ~(m <= Cardinality(s \ {y}))
    BY <1>3, <2>1, <2>2
  <2> QED
    BY <1>2, <2>2, <2>3
<1>9. t[s \ {c}] = w[x] + t[(s \ {c}) \ {x}]
  BY <1>7, <1>8
<1>10. t[s \ {x}] = w[c] + t[(s \ {x}) \ {c}]
  BY <1>7, <1>8
<1>11. PICK q \in SUBSET D : q = (s \ {c}) \ {x} /\ q = (s \ {x}) \ {c}
  OBVIOUS
<1>12. w[x] \in Nat /\ w[c] \in Nat /\ t[q] \in Nat
  BY DEF Adds
<1>13. t[s] = w[c] + (w[x] + t[q]) /\ t[s \ {x}] = w[c] + t[q]
  BY <1>6, <1>9, <1>10, <1>11
<1>14. t[s] = w[x] + t[s \ {x}]
  BY ONLY <1>12, <1>13
<1> QED
  BY <1>4, <1>14

\* More members do not add up to less.
LEMMA AddsMonotonic ==
  ASSUME NEW D, IsFiniteSet(D), NEW w \in [D -> Nat], NEW t, Adds(w, D, t),
         NEW s \in SUBSET D, NEW r \in SUBSET s
  PROVE  t[r] <= t[s]
<1> DEFINE P == {n \in Nat : \E q \in SUBSET D : Cardinality(q) = n /\ r \subseteq q /\ ~(t[r] <= t[q])}
<1> SUFFICES ASSUME ~(t[r] <= t[s]) PROVE FALSE
  OBVIOUS
<1>1. ASSUME NEW q \in SUBSET D PROVE IsFiniteSet(q) /\ Cardinality(q) \in Nat /\ t[q] \in Nat
  BY FS_Subset, FS_CardinalityType DEF Adds
<1>2. PICK m \in P : \A n \in P : m <= n
  <2>1. P \in SUBSET Nat /\ P # {}
    BY <1>1
  <2> HIDE DEF P
  <2> QED
    BY <2>1, Least
<1>3. PICK q \in SUBSET D : Cardinality(q) = m /\ r \subseteq q /\ ~(t[r] <= t[q])
  BY <1>2
<1>4. PICK x \in q : x \notin r
  <2>1. t[r] \in Nat
    BY <1>1
  <2>2. q # r
    BY <1>3, <2>1
  <2> QED
    BY <1>3, <2>2
<1>5. t[q] = w[x] + t[q \ {x}]
  BY AddsAnyFirst
<1>6. /\ q \ {x} \in SUBSET D /\ r \subseteq q \ {x}
      /\ Cardinality(q \ {x}) = Cardinality(q) - 1
  BY <1>1, <1>3, <1>4, FS_RemoveElement
<1>7. ~(m <= Cardinality(q \ {x})) /\ Cardinality(q \ {x}) \in Nat
  BY <1>1, <1>3, <1>6
<1>8. t[r] <= t[q \ {x}]
  BY <1>2, <1>6, <1>7
<1>9. w[x] \in Nat /\ t[r] \in Nat /\ t[q] \in Nat /\ t[q \ {x}] \in Nat
  BY <1>1, <1>6
<1> QED
  BY <1>3, <1>5, <1>8, <1>9

-----------------------------------------------------------------------------
(* Parts of sequences *)

\* The members of a finite set of numbers can be counted off.
LEMMA NthMember ==
  ASSUME NEW k \in Nat, NEW P \in SUBSET (1 .. k)
  PROVE  /\ IsFiniteSet(P) /\ Cardinality(P) \in Nat
         /\ \A n \in 1 .. Cardinality(P) :
               Nth(P, n) \in P /\ Cardinality(UpToMember(P, Nth(P, n))) = n
         /\ \A p \in P : /\ Cardinality(UpToMember(P, p)) \in 1 .. Cardinality(P)
                         /\ Nth(P, Cardinality(UpToMember(P, p))) = p
         /\ \A n, m \in 1 .. Cardinality(P) : n < m => Nth(P, n) < Nth(P, m)
<1>0. IsFiniteSet(1 .. k)
  <2>1. 1 \in Int /\ k \in Int
    OBVIOUS
  <2> QED
    BY <2>1, FS_Interval
<1>1. IsFiniteSet(P) /\ Cardinality(P) \in Nat /\ \A p \in P : p \in Nat
  <2>1. IsFiniteSet(P)
    BY <1>0, FS_Subset
  <2>2. \A p \in P : p \in Nat
    OBVIOUS
  <2> QED
    BY <2>1, <2>2, FS_CardinalityType
<1> DEFINE rank(p) == Cardinality(UpToMember(P, p))
<1>2. ASSUME NEW p \in P
      PROVE  /\ IsFiniteSet(UpToMember(P, p)) /\ rank(p) \in 1 .. Cardinality(P)
             /\ p \in UpToMember(P, p)
  <2>1. p \in UpToMember(P, p) /\ UpToMember(P, p) \in SUBSET P
    BY <1>1 DEF UpToMember
  <2>2. /\ IsFiniteSet(UpToMember(P, p)) /\ rank(p) \in Nat /\ rank(p) <= Cardinality(P)
    BY <1>1, <2>1, FS_Subset, FS_CardinalityType
  <2>3. rank(p) # 0
    BY <2>1, <2>2, FS_EmptySet
  <2> QED
    BY <1>1, <2>1, <2>2, <2>3
<1>3. ASSUME NEW p \in P, NEW q \in P, p < q PROVE rank(p) < rank(q)
  <2>1. /\ UpToMember(P, p) \in SUBSET UpToMember(P, q)
        /\ q \in UpToMember(P, q) /\ q \notin UpToMember(P, p)
    <3>1. p \in Nat /\ q \in Nat /\ ~(q <= p)
      BY <1>1, <1>3
    <3>2. ASSUME NEW x \in P, x <= p PROVE x <= q
      BY <1>1, <1>3, <3>1, <3>2
    <3>3. UpToMember(P, p) \subseteq UpToMember(P, q)
      BY <3>2 DEF UpToMember
    <3>4. q \in UpToMember(P, q) /\ q \notin UpToMember(P, p)
      BY <3>1 DEF UpToMember
    <3> QED
      BY <3>3, <3>4
  <2>2. rank(p) <= rank(q) /\ rank(p) # rank(q)
    BY <1>2, <2>1, FS_Subset
  <2>3. rank(p) \in Nat /\ rank(q) \in Nat
    BY <1>1, <1>2
  <2> QED
    BY <2>2, <2>3
<1>4. ASSUME NEW p \in P, NEW q \in P, rank(p) = rank(q) PROVE p = q
  <2>1. ~(p < q) /\ ~(q < p)
    BY <1>1, <1>2, <1>3, <1>4
  <2> QED
    BY <2>1
<1>5. PICK f \in [P -> 1 .. Cardinality(P)] : \A p \in P : f[p] = rank(p)
  <2>1. PICK f : f = [p \in P |-> rank(p)]
    OBVIOUS
  <2> QED
    BY <1>2, <2>1
<1>6. f \in Injection(P, 1 .. Cardinality(P))
  <2>1. \A p, q \in P : f[p] = f[q] => p = q
    BY <1>4, <1>5
  <2> QED
    BY <1>5, <2>1 DEF Injection, IsInjective
<1>7. IsFiniteSet(1 .. Cardinality(P)) /\ Cardinality(1 .. Cardinality(P)) = Cardinality(P)
  BY <1>1, FS_Interval
<1>8. f \in Surjection(P, 1 .. Cardinality(P))
  BY <1>6, <1>7, FS_Injection
<1>9. \A n \in 1 .. Cardinality(P) : \E p \in P : rank(p) = n
  BY <1>5, <1>8 DEF Surjection
<1>10. \A n \in 1 .. Cardinality(P) : Nth(P, n) \in P /\ rank(Nth(P, n)) = n
  BY <1>9 DEF Nth
<1>11. \A p \in P : Nth(P, rank(p)) = p
  BY <1>2, <1>4, <1>10
<1>12. ASSUME NEW n \in 1 .. Cardinality(P), NEW m \in 1 .. Cardinality(P), n < m
       PROVE  Nth(P, n) < Nth(P, m)
  <2>1. /\ Nth(P, n) \in Nat /\ Nth(P, m) \in Nat
        /\ rank(Nth(P, n)) = n /\ rank(Nth(P, m)) = m
    BY <1>1, <1>10
  <2>2. Nth(P, n) # Nth(P, m)
    BY <1>12, <2>1
  <2>3. ~(Nth(P, m) < Nth(P, n))
    BY <1>1, <1>3, <1>10, <1>12, <2>1
  <2> QED
    BY <2>1, <2>2, <2>3
<1> QED
  BY <1>1, <1>2, <1>10, <1>11, <1>12

\* What is kept of a sequence: the elements at the positions, and no others.
LEMMA KeptElements ==
  ASSUME NEW S, NEW s \in Seq(S), NEW P \in SUBSET DOMAIN s
  PROVE  /\ Cardinality(P) \in Nat
         /\ DOMAIN Kept(s, P) = 1 .. Cardinality(P)
         /\ Len(Kept(s, P)) = Cardinality(P)
         /\ Kept(s, P) \in Seq({s[p] : p \in P}) /\ Kept(s, P) \in Seq(S)
         /\ \A n \in DOMAIN Kept(s, P) : \E p \in P : p = Nth(P, n) /\ Kept(s, P)[n] = s[p]
         /\ \A p \in P : \E n \in DOMAIN Kept(s, P) : p = Nth(P, n) /\ Kept(s, P)[n] = s[p]
<1>1. Len(s) \in Nat /\ P \in SUBSET (1 .. Len(s))
  OBVIOUS
<1>2. /\ Cardinality(P) \in Nat
      /\ \A n \in 1 .. Cardinality(P) : Nth(P, n) \in P
      /\ \A p \in P : /\ Cardinality(UpToMember(P, p)) \in 1 .. Cardinality(P)
                      /\ Nth(P, Cardinality(UpToMember(P, p))) = p
  BY <1>1, NthMember
<1>3. PICK k : k = Kept(s, P)
  OBVIOUS
<1>4. k = [n \in 1 .. Cardinality(P) |-> s[Nth(P, n)]]
  BY <1>3 DEF Kept
<1>5. /\ DOMAIN k = 1 .. Cardinality(P)
      /\ \A n \in 1 .. Cardinality(P) : k[n] = s[Nth(P, n)]
  BY <1>4
<1>6. k \in [1 .. Cardinality(P) -> {s[p] : p \in P}] /\ k \in [1 .. Cardinality(P) -> S]
  BY <1>1, <1>2, <1>4
<1>7. k \in Seq({s[p] : p \in P}) /\ k \in Seq(S) /\ Len(k) = Cardinality(P)
  <2>1. PICK c \in Nat : c = Cardinality(P)
    BY <1>2
  <2>2. PICK T : T = {s[p] : p \in P}
    OBVIOUS
  <2>3. k \in [1 .. c -> T] /\ k \in [1 .. c -> S]
    BY <1>6, <2>1, <2>2
  <2>4. k \in Seq(T) /\ k \in Seq(S) /\ Len(k) = c
    BY ONLY <2>1, <2>3
  <2> QED
    BY <2>1, <2>2, <2>4
<1> QED
  BY <1>2, <1>3, <1>5, <1>7

LEMMA KeptNothing ==
  ASSUME NEW s
  PROVE  Kept(s, {}) = <<>>
<1>1. Cardinality({}) = 0
  BY FS_EmptySet
<1>2. 1 .. 0 = {}
  OBVIOUS
<1> QED
  BY <1>1, <1>2 DEF Kept

\* An element more at the end is one more that may be kept.
LEMMA KeptAppended ==
  ASSUME NEW S, NEW s \in Seq(S), NEW e \in S, NEW P \in SUBSET DOMAIN s
  PROVE  /\ Kept(Append(s, e), P) = Kept(s, P)
         /\ Kept(Append(s, e), P \cup {Len(s) + 1}) = Append(Kept(s, P), e)
<1> DEFINE l == Len(s) + 1
           Q == P \cup {l}
<1>1. /\ Len(s) \in Nat /\ DOMAIN s = 1 .. Len(s) /\ l \in Nat /\ l \notin P
      /\ P \in SUBSET (1 .. Len(s)) /\ P \in SUBSET (1 .. l) /\ Q \in SUBSET (1 .. l)
      /\ \A p \in P : p \in Nat /\ p < l
  OBVIOUS
<1>2. PICK a \in Seq(S) : a = Append(s, e)
  <2>1. Append(s, e) \in Seq(S)
    BY ONLY s \in Seq(S), e \in S
  <2> QED
    BY <2>1
<1>3. /\ DOMAIN a = 1 .. l /\ a[l] = e /\ \A p \in DOMAIN s : a[p] = s[p]
  BY <1>2
<1>4. /\ IsFiniteSet(P) /\ Cardinality(P) \in Nat
      /\ \A n \in 1 .. Cardinality(P) :
            Nth(P, n) \in P /\ Cardinality(UpToMember(P, Nth(P, n))) = n
  BY <1>1, NthMember
<1>5. Cardinality(Q) = Cardinality(P) + 1
  BY <1>1, <1>4, FS_AddElement
<1>6. \A p \in Q : Nth(Q, Cardinality(UpToMember(Q, p))) = p
  <2> HIDE DEF Q
  <2> QED
    BY <1>1, NthMember
<1>7. ASSUME NEW p \in P PROVE UpToMember(Q, p) = UpToMember(P, p)
  <2>1. p \in Nat /\ ~(l <= p)
    BY <1>1
  <2> QED
    BY <2>1 DEF UpToMember
<1>8. UpToMember(Q, l) = Q
  <2>1. \A p \in Q : p <= l
    BY <1>1
  <2> QED
    BY <2>1 DEF UpToMember
<1>9. ASSUME NEW n \in 1 .. Cardinality(P) PROVE Nth(Q, n) = Nth(P, n)
  BY <1>4, <1>6, <1>7
<1>10. Nth(Q, Cardinality(P) + 1) = l
  BY <1>5, <1>6, <1>8
<1>11. Kept(a, P) = Kept(s, P)
  BY <1>3, <1>4 DEF Kept
<1>12. Kept(a, Q) = Append(Kept(s, P), e)
  <2>1. PICK k : k = Kept(s, P)
    OBVIOUS
  <2>2. PICK c \in Nat : c = Cardinality(P)
    BY <1>4
  <2>3. k \in Seq(S) /\ Len(k) = c /\ DOMAIN k = 1 .. c
        /\ \A n \in 1 .. c : k[n] = s[Nth(P, n)]
    BY <2>1, <2>2, KeptElements DEF Kept
  <2>4. PICK r : r = Kept(a, Q)
    OBVIOUS
  <2>5. r = [n \in 1 .. c + 1 |-> a[Nth(Q, n)]]
    BY <1>5, <2>2, <2>4 DEF Kept
  <2>6. ASSUME NEW n \in 1 .. c PROVE r[n] = k[n]
    <3>1. n \in 1 .. c + 1 /\ n \in 1 .. Cardinality(P)
      BY <2>2
    <3>2. Nth(Q, n) = Nth(P, n) /\ Nth(P, n) \in P
      BY <1>4, <1>9, <3>1
    <3>3. a[Nth(P, n)] = s[Nth(P, n)]
      BY <1>3, <3>2
    <3> QED
      BY <2>3, <2>5, <3>1, <3>2, <3>3
  <2>7. r[c + 1] = e
    BY <1>3, <1>10, <2>2, <2>5
  <2>8. PICK x : x = Append(k, e)
    OBVIOUS
  <2>9. /\ DOMAIN x = 1 .. c + 1 /\ x[c + 1] = e /\ \A n \in 1 .. c : x[n] = k[n]
        /\ x \in Seq(S)
    BY ONLY <2>2, <2>3, <2>8, e \in S
  <2>10. \A n \in 1 .. c + 1 : r[n] = x[n]
    <3>1. \A n \in 1 .. c + 1 : n = c + 1 \/ n \in 1 .. c
      OBVIOUS
    <3> QED
      BY <2>6, <2>7, <2>9, <3>1
  <2>11. x = [n \in 1 .. c + 1 |-> x[n]]
    BY <2>9
  <2> QED
    BY <2>1, <2>4, <2>5, <2>8, <2>10, <2>11
<1> QED
  BY <1>2, <1>11, <1>12
=============================================================================
