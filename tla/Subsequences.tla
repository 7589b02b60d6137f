----------------------------- MODULE Subsequences -----------------------------
(***************************************************************************)
(* Parts of sequences.  SelectSeq would do, but the provers know nothing   *)
(* of it.                                                                  *)
(***************************************************************************)
EXTENDS Naturals, FiniteSets, Sequences

\* The members of P up to p, and the one that has n of them.
UpToMember(P, p) == {q \in P : q <= p}
Nth(P, n) == CHOOSE p \in P : Cardinality(UpToMember(P, p)) = n

\* What s has at the positions in P, in order.
Kept(s, P) == [n \in 1 .. Cardinality(P) |-> s[Nth(P, n)]]
=============================================================================
