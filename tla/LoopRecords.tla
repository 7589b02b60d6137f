----------------------------- MODULE LoopRecords -----------------------------
(***************************************************************************)
(* What the loop body cloner promises to whoever reads its reports: the    *)
(* functions of its worklist are handled from the last to the first, the   *)
(* loops of a function in preorder, each of them once; a loop is cloned or *)
(* left alone, and recorded as such if that is asked for; and when a       *)
(* function is through, its records are written, the cloned and the others *)
(* numbered on their own from zero.                                        *)
(***************************************************************************)
EXTENDS Naturals, Sequences, FiniteSets, Subsequences

VARIABLES
  todo,     \* the functions left, as numbers of loops; the last one is next
  wanted,   \* whether cloned loops are recorded, and whether others are
  results,  \* of every loop handled: [fn, loop, cloned]
  written   \* the reports: [fn, cloned, number, loop]

vars == <<todo, wanted, results, written>>

OfFunction(f) == Kept(results, {k \in DOMAIN results : results[k].fn = f})

\* The records of a function.
Recorded(f) ==
  Kept(results, {k \in DOMAIN results :
                   /\ results[k].fn = f
                   /\ IF results[k].cloned THEN wanted.cloned ELSE wanted.failed})

Reports(f) ==
  LET records == Recorded(f)
      Earlier(k) == {i \in 1 .. k - 1 : records[i].cloned = records[k].cloned}
  IN  [k \in DOMAIN records |->
         [fn |-> f, cloned |-> records[k].cloned, number |-> Cardinality(Earlier(k)),
          loop |-> records[k].loop]]

Init ==
  /\ todo \in Seq(Nat)
  /\ wanted \in [cloned : BOOLEAN, failed : BOOLEAN]
  /\ results = <<>> /\ written = <<>>

HandleLoop ==
  /\ todo # <<>>
  /\ LET f == Len(todo)
         l == Len(OfFunction(f)) + 1
     IN  /\ l <= todo[f]
         /\ \E cloned \in BOOLEAN :
              results' = Append(results, [fn |-> f, loop |-> l, cloned |-> cloned])
  /\ UNCHANGED <<todo, wanted, written>>

EndFunction ==
  /\ todo # <<>>
  /\ LET f == Len(todo)
     IN  /\ Len(OfFunction(f)) = todo[f]
         /\ written' = written \o Reports(f)
         /\ todo' = SubSeq(todo, 1, f - 1)
  /\ UNCHANGED <<wanted, results>>

Next == HandleLoop \/ EndFunction

Spec == Init /\ [][Next]_vars
=============================================================================
