-------------------------- MODULE LoopCloning_proofs --------------------------
(***************************************************************************)
(* For every set of programs: what the pass leaves behind for the loops    *)
(* that come later (the graph, the analyzer's results), what the functions *)
(* it makes look like, what is said of their arguments, and that the loops *)
(* it reports as cloned are those it made a function for.  In the end, it  *)
(* implements LoopRecords.                                                 *)
(***************************************************************************)
EXTENDS LoopCloning, DataLemmas, SequenceTheorems, TLAPS

Selecting == {"select", "calls", "prepare", "check", "sever", "fail"}
Cloning == {"copy", "specs"}

Lists ==
  /\ \E S : clones \in Seq(S)
  /\ \E S : results \in Seq(S)
  /\ \E S : worklist \in Seq(S)

\* The results are of functions that are through, and of earlier loops of the
\* current one.
Past(x) == x.fn > Len(worklist) \/ (x.fn = Len(worklist) /\ x.loop < loop)

ResultsPast ==
  /\ loop \in Nat
  /\ \A r \in Elems(results) : r.fn \in Nat /\ r.loop \in Nat
  /\ pc = "start" => results = <<>>
  /\ pc = "functions" => \A r \in Elems(results) : r.fn > Len(worklist)
  /\ pc \in {"loops", "report"} \cup Selecting \cup Cloning =>
       worklist # <<>> /\ \A r \in Elems(results) : Past(r)

\* Between Copy and Describe there is a function whose loop has no result yet.
Unreported == IF pc = "specs" THEN {<<Len(worklist), loop>>} ELSE {}

Going == pc \in {"start", "functions", "loops", "report", "done"} \cup Selecting \cup Cloning

ClonesMatch ==
  Going =>
    /\ Keys(Elems(clones)) = Keys(Reported) \cup Unreported
    /\ \A i, k \in DOMAIN clones : Key(clones[i]) = Key(clones[k]) => i = k

GraphsMatch ==
  pc \in {"loops", "report"} \cup Selecting /\ cfg.edges # fn.edges =>
    \E r \in Reported : r.fn = Len(worklist)

IInv == Lists /\ ResultsPast /\ ClonesMatch /\ GraphsMatch
-----------------------------------------------------------------------------
LEMMA AppendElems ==
  ASSUME NEW S, NEW s \in Seq(S), NEW e
  PROVE  /\ Append(s, e) \in Seq(S \cup {e})
         /\ Len(Append(s, e)) = Len(s) + 1 /\ Len(s) \in Nat
         /\ DOMAIN s = 1 .. Len(s) /\ DOMAIN Append(s, e) = 1 .. Len(s) + 1
         /\ \A i \in DOMAIN s : Append(s, e)[i] = s[i]
         /\ Append(s, e)[Len(s) + 1] = e
         /\ Elems(Append(s, e)) = Elems(s) \cup {e}
<1>1. s \in Seq(S \cup {e}) /\ e \in S \cup {e}
  OBVIOUS
<1>2. /\ Append(s, e) \in Seq(S \cup {e})
      /\ Len(Append(s, e)) = Len(s) + 1 /\ Len(s) \in Nat
      /\ DOMAIN s = 1 .. Len(s) /\ DOMAIN Append(s, e) = 1 .. Len(s) + 1
      /\ \A i \in DOMAIN s : Append(s, e)[i] = s[i]
      /\ Append(s, e)[Len(s) + 1] = e
  BY <1>1
<1>3. Elems(Append(s, e)) = Elems(s) \cup {e}
  BY <1>2 DEF Elems
<1> QED
  BY <1>2, <1>3

LEMMA WorkListType ==
  ASSUME NEW p \in Programs
  PROVE  /\ WorkList(p) \in Seq(DOMAIN p.functions)
         /\ p.functions \in Seq(Elems(p.functions)) /\ DOMAIN p.functions \subseteq Nat
<1>1. p.functions \in Seq(Elems(p.functions))
  BY ProgramAssumption DEF IsSeq
<1>2. PICK n \in Nat : DOMAIN p.functions = 1 .. n
  BY <1>1
<1>3. PICK all : all = [f \in 1 .. n |-> f]
  OBVIOUS
<1>4. all \in Seq(1 .. n) /\ DOMAIN all = 1 .. n
  BY <1>3
<1>5. PICK P \in SUBSET DOMAIN all : WorkList(p) = Kept(all, P)
  BY <1>2, <1>3, <1>4 DEF WorkList
<1>6. WorkList(p) \in Seq(1 .. n)
  <2>1. all \in Seq(1 .. n) /\ P \in SUBSET DOMAIN all
    BY <1>4, <1>5
  <2>2. PICK S : S = 1 .. n
    OBVIOUS
  <2>3. Kept(all, P) \in Seq(S)
    BY <2>1, <2>2, KeptElements
  <2> QED
    BY <1>5, <2>2, <2>3
<1> QED
  BY <1>1, <1>2, <1>6

LEMMA InitInv == Init => IInv
<1> SUFFICES ASSUME Init PROVE IInv
  OBVIOUS
<1>1. pc = "start" /\ clones = <<>> /\ results = <<>> /\ loop = 0 /\ worklist = WorkList(program)
  BY DEF Init
<1>2. Elems(clones) = {} /\ Elems(results) = {} /\ DOMAIN clones = {}
  BY <1>1 DEF Elems
<1>3. worklist \in Seq(DOMAIN program.functions)
  BY <1>1, WorkListType DEF Init
<1>4. clones \in Seq(Nat) /\ results \in Seq(Nat)
  BY <1>1
<1>5. Lists
  BY <1>3, <1>4 DEF Lists
<1>6. ResultsPast
  BY <1>1, <1>2 DEF ResultsPast, Selecting, Cloning
<1>7. ClonesMatch
  BY <1>1, <1>2 DEF ClonesMatch, Keys, Reported, Unreported
<1>8. GraphsMatch
  BY <1>1 DEF GraphsMatch, Selecting
<1> QED
  BY <1>5, <1>6, <1>7, <1>8 DEF IInv

\* The steps that make no function, leave no result and change no graph.
LEMMA Quiet ==
  ASSUME IInv, UNCHANGED <<program, worklist, loop, clones, results, cfg>>,
         \/ pc' = pc
         \/ pc' \in {"fatal", "abort", "undefined"}
         \/ pc = "start" /\ pc' = "functions"
         \/ pc = "functions" /\ pc' = "done"
         \/ pc \in {"loops"} \cup Selecting /\ pc' \in {"report", "copy"} \cup Selecting
  PROVE  IInv'
<1>1. Lists'
  BY DEF IInv, Lists
<1>2. Elems(results)' = Elems(results) /\ Elems(clones)' = Elems(clones) /\ Reported' = Reported
      /\ DOMAIN clones' = DOMAIN clones /\ fn' = fn
  BY DEF Elems, Reported, fn
<1>3. results = <<>> => Elems(results) = {}
  BY DEF Elems
<1>4. ResultsPast'
  BY <1>2, <1>3 DEF IInv, ResultsPast, Past, Selecting, Cloning
<1>5. ClonesMatch'
  BY <1>2 DEF IInv, ClonesMatch, Unreported, Going, Keys, Selecting, Cloning
<1>6. GraphsMatch'
  BY <1>2 DEF IInv, GraphsMatch, Selecting
<1> QED
  BY <1>1, <1>4, <1>5, <1>6 DEF IInv

LEMMA TakeInv == ASSUME IInv, TakeFunction PROVE IInv'
<1>1. /\ pc = "functions" /\ pc' = "loops" /\ loop' = 1 /\ worklist # <<>>
      /\ cfg' = Graph(fn) /\ UNCHANGED <<program, worklist, clones, results>>
  BY DEF TakeFunction
<1>2. /\ Elems(results)' = Elems(results) /\ Elems(clones)' = Elems(clones)
      /\ Reported' = Reported /\ fn' = fn
  BY <1>1 DEF Elems, Reported, fn
<1>3. Lists'
  BY <1>1 DEF IInv, Lists
<1>4. ResultsPast'
  BY <1>1, <1>2 DEF IInv, ResultsPast, Past, Selecting, Cloning
<1>5. ClonesMatch'
  BY <1>1, <1>2 DEF IInv, ClonesMatch, Unreported, Going, Keys
<1>6. cfg'.edges = fn'.edges
  BY <1>1, <1>2 DEF Graph
<1> QED
  BY <1>3, <1>4, <1>5, <1>6 DEF IInv, GraphsMatch

LEMMA SeverInv == ASSUME IInv, Sever PROVE IInv'
<1>1. pc = "sever" /\ pc' = "copy" /\ UNCHANGED <<program, worklist, loop, clones, results>>
  BY DEF Sever, cloner, made
<1>2. Elems(results)' = Elems(results) /\ Elems(clones)' = Elems(clones) /\ Reported' = Reported
  BY <1>1 DEF Elems, Reported
<1>3. Lists' /\ ResultsPast'
  BY <1>1, <1>2 DEF IInv, Lists, ResultsPast, Past, Selecting, Cloning
<1>4. ClonesMatch'
  BY <1>1, <1>2 DEF IInv, ClonesMatch, Unreported, Going, Keys, Selecting, Cloning
<1> QED
  BY <1>1, <1>3, <1>4 DEF IInv, GraphsMatch, Selecting

LEMMA CopyInv == ASSUME IInv, Copy PROVE IInv'
<1>1. /\ pc = "copy" /\ clones' = Append(clones, Clone)
      /\ pc' \in {"undefined", "abort", "specs"}
      /\ UNCHANGED <<program, worklist, loop, results>>
  BY DEF Copy, cloner, Fails
<1> DEFINE key == <<Len(worklist), loop>>
<1>2. Key(Clone) = key
  BY DEF Clone, Key
<1>3. PICK S : clones \in Seq(S)
  BY DEF IInv, Lists
<1>4. PICK e : e = Clone
  OBVIOUS
<1>5. /\ clones' \in Seq(S \cup {e})
      /\ Len(clones) \in Nat /\ DOMAIN clones = 1 .. Len(clones)
      /\ DOMAIN clones' = 1 .. Len(clones) + 1
      /\ \A i \in DOMAIN clones : clones'[i] = clones[i]
      /\ clones'[Len(clones) + 1] = e
      /\ Elems(clones)' = Elems(clones) \cup {e}
  BY <1>1, <1>3, <1>4, AppendElems DEF Elems
<1>6. Elems(results)' = Elems(results) /\ Reported' = Reported
  BY <1>1 DEF Elems, Reported
<1>7. Lists'
  BY <1>1, <1>5 DEF IInv, Lists
<1>8. ResultsPast'
  BY <1>1, <1>6 DEF IInv, ResultsPast, Past, Selecting, Cloning
<1>9. ClonesMatch'
  <2> SUFFICES ASSUME pc' = "specs" PROVE ClonesMatch'
    BY <1>1 DEF ClonesMatch, Going, Selecting, Cloning
  <2>1. /\ Keys(Elems(clones)) = Keys(Reported)
        /\ \A i, k \in DOMAIN clones : Key(clones[i]) = Key(clones[k]) => i = k
    BY <1>1 DEF IInv, ClonesMatch, Going, Cloning, Unreported
  <2>2. key \notin Keys(Elems(clones))
    <3>1. \A r \in Elems(results) : Past(r) /\ r.fn \in Nat /\ r.loop \in Nat
      BY <1>1 DEF IInv, ResultsPast, Cloning
    <3>2. loop \in Nat
      BY DEF IInv, ResultsPast
    <3>3. PICK W : worklist \in Seq(W)
      BY DEF IInv, Lists
    <3>4. Len(worklist) \in Nat
      BY <3>3
    <3>5. \A r \in Elems(results) : ~(r.fn = Len(worklist) /\ r.loop = loop)
      BY <3>1, <3>2, <3>4 DEF Past
    <3> QED
      BY <2>1, <3>5 DEF Keys, Key, Reported
  <2>3. Keys(Elems(clones))' = Keys(Elems(clones)) \cup {key}
    BY <1>2, <1>4, <1>5 DEF Keys
  <2>4. ASSUME NEW i \in DOMAIN clones', NEW k \in DOMAIN clones',
               Key(clones'[i]) = Key(clones'[k])
        PROVE  i = k
    <3>1. \A j \in DOMAIN clones : Key(clones'[j]) # key
      BY <1>5, <2>2 DEF Keys, Elems
    <3>2. Key(clones'[Len(clones) + 1]) = key
      BY <1>2, <1>4, <1>5
    <3>3. CASE i \in DOMAIN clones /\ k \in DOMAIN clones
      BY <1>5, <2>1, <2>4, <3>3
    <3>4. CASE i \notin DOMAIN clones
      <4>1. i = Len(clones) + 1
        BY <1>5, <3>4
      <4>2. k \notin DOMAIN clones
        BY <2>4, <3>1, <3>2, <4>1
      <4> QED BY <1>5, <4>1, <4>2
    <3>5. CASE k \notin DOMAIN clones
      <4>1. k = Len(clones) + 1
        BY <1>5, <3>5
      <4>2. i \notin DOMAIN clones
        BY <2>4, <3>1, <3>2, <4>1
      <4> QED BY <1>5, <4>1, <4>2
    <3> QED BY <3>3, <3>4, <3>5
  <2>5. Unreported' = {key}
    BY <1>1 DEF Unreported
  <2>6. (Keys(Elems(clones)) = Keys(Reported) \cup Unreported)'
    BY <1>6, <2>1, <2>3, <2>5 DEF Keys
  <2> QED
    BY <2>4, <2>6 DEF ClonesMatch
<1>10. GraphsMatch'
  BY <1>1 DEF GraphsMatch, Selecting
<1> QED
  BY <1>7, <1>8, <1>9, <1>10 DEF IInv

\* A loop is through, with the function made for it or without one.
LEMMA ResultInv ==
  ASSUME IInv, NEW c \in BOOLEAN,
         (pc = "specs" /\ c = TRUE) \/ (pc = "fail" /\ c = FALSE),
         results' = Append(results, Result(c)), loop' = loop + 1, pc' = "loops",
         UNCHANGED <<program, worklist, cfg, clones>>
  PROVE  IInv'
<1> DEFINE key == <<Len(worklist), loop>>
<1>1. PICK e : e = Result(c)
  OBVIOUS
<1>2. e.fn = Len(worklist) /\ e.loop = loop /\ e.cloned = c
  BY <1>1 DEF Result
<1>3. PICK S : results \in Seq(S)
  BY DEF IInv, Lists
<1>4. results' \in Seq(S \cup {e}) /\ Elems(results)' = Elems(results) \cup {e}
  BY <1>1, <1>3, AppendElems DEF Elems
<1>5. PICK W : worklist \in Seq(W)
  BY DEF IInv, Lists
<1>6. Len(worklist) \in Nat /\ loop \in Nat
  BY <1>5 DEF IInv, ResultsPast
<1>7. Elems(clones)' = Elems(clones) /\ DOMAIN clones' = DOMAIN clones /\ fn' = fn
  BY DEF Elems, fn
<1>8. Reported' = Reported \cup (IF c THEN {e} ELSE {})
  BY <1>2, <1>4 DEF Reported
<1>9. Lists'
  BY <1>4 DEF IInv, Lists
<1>10. ResultsPast'
  <2>1. worklist # <<>> /\ \A r \in Elems(results) : Past(r) /\ r.fn \in Nat /\ r.loop \in Nat
    BY DEF IInv, ResultsPast, Selecting, Cloning
  <2>2. \A r \in Elems(results) \cup {e} : r.fn \in Nat /\ r.loop \in Nat
    BY <1>2, <1>6, <2>1
  <2>3. \A r \in Elems(results) \cup {e} :
           r.fn > Len(worklist) \/ (r.fn = Len(worklist) /\ r.loop < loop + 1)
    BY <1>2, <1>6, <2>1 DEF Past
  <2> QED
    BY <1>4, <1>6, <2>1, <2>2, <2>3 DEF ResultsPast, Past
<1>11. ClonesMatch'
  <2>1. /\ Keys(Elems(clones)) = Keys(Reported) \cup (IF c THEN {key} ELSE {})
        /\ \A i, k \in DOMAIN clones : Key(clones[i]) = Key(clones[k]) => i = k
    BY DEF IInv, ClonesMatch, Going, Selecting, Cloning, Unreported
  <2>2. Keys(Reported') = Keys(Reported) \cup (IF c THEN {key} ELSE {})
    BY <1>2, <1>8 DEF Keys, Key
  <2>3. (Keys(Elems(clones)) = Keys(Reported) \cup Unreported)'
    BY <1>7, <2>1, <2>2 DEF Keys, Unreported
  <2> QED
    BY <1>7, <2>1, <2>3 DEF ClonesMatch
<1>12. GraphsMatch'
  <2> SUFFICES ASSUME cfg.edges # fn.edges
               PROVE  \E r \in Reported' : r.fn = Len(worklist)
    BY <1>7 DEF GraphsMatch
  <2>1. CASE c
    BY <1>2, <1>8, <2>1
  <2>2. CASE ~c
    BY <1>8, <2>2 DEF IInv, GraphsMatch, Selecting
  <2> QED BY <2>1, <2>2
<1> QED
  BY <1>9, <1>10, <1>11, <1>12 DEF IInv

LEMMA ReportInv == ASSUME IInv, Report PROVE IInv'
<1>1. /\ pc = "report" /\ pc' = "functions" /\ worklist' = Front(worklist)
      /\ UNCHANGED <<program, loop, cfg, clones, results>>
  BY DEF Report
<1>2. worklist # <<>> /\ \A r \in Elems(results) : Past(r) /\ r.fn \in Nat /\ r.loop \in Nat
  BY <1>1 DEF IInv, ResultsPast
<1>3. PICK W : worklist \in Seq(W)
  BY DEF IInv, Lists
<1>4. /\ worklist' \in Seq(W) /\ Len(worklist') = Len(worklist) - 1
      /\ Len(worklist) \in Nat
  <2>1. Len(worklist) \in Nat /\ Len(worklist) > 0 /\ \A i \in 1 .. Len(worklist) : worklist[i] \in W
    BY <1>2, <1>3
  <2>2. worklist' = SubSeq(worklist, 1, Len(worklist) - 1)
    BY <1>1 DEF Front
  <2>3. PICK n \in Nat : n = Len(worklist) - 1
    BY <2>1
  <2>4. \A i \in 1 .. n : worklist[i] \in W
    BY <2>1, <2>3
  <2>5. SubSeq(worklist, 1, n) \in Seq(W) /\ Len(SubSeq(worklist, 1, n)) = n
    BY <2>3, <2>4, SubSeqProperties
  <2> QED
    BY <2>1, <2>2, <2>3, <2>5
<1>5. /\ Elems(results)' = Elems(results) /\ Elems(clones)' = Elems(clones)
      /\ DOMAIN clones' = DOMAIN clones /\ Reported' = Reported
  BY <1>1 DEF Elems, Reported
<1>6. Lists'
  BY <1>1, <1>4 DEF IInv, Lists
<1>7. \A r \in Elems(results) : r.fn > Len(worklist')
  BY <1>2, <1>4 DEF Past
<1>8. ResultsPast'
  BY <1>1, <1>2, <1>5, <1>7 DEF IInv, ResultsPast, Selecting, Cloning
<1>9. ClonesMatch'
  BY <1>1, <1>5 DEF IInv, ClonesMatch, Unreported, Going, Keys
<1> QED
  BY <1>1, <1>6, <1>8, <1>9 DEF IInv, GraphsMatch, Selecting

LEMMA NextInv == IInv /\ [Next]_vars => IInv'
<1> SUFFICES ASSUME IInv, [Next]_vars PROVE IInv'
  OBVIOUS
<1>1. CASE UNCHANGED vars
  BY <1>1, Quiet DEF vars
<1>2. CASE Stay
  BY <1>2, Quiet DEF Stay, vars
<1>3. CASE ReportsDirectoryMissing \/ Begin \/ FinishModule
  BY <1>3, Quiet DEF ReportsDirectoryMissing, Begin, FinishModule, cloner, made
<1>4. CASE TakeFunction
  BY <1>4, TakeInv
<1>5. CASE Analyze \/ EndLoops
  BY <1>5, Quiet DEF Analyze, EndLoops, cloner, made, Selecting
<1>6. CASE SelectNothing \/ Select \/ SkipCalls
  BY <1>6, Quiet DEF SelectNothing, Select, SkipCalls, cloner, made, Selecting
<1>7. CASE PassCalls
  <2>1. pc = "calls" /\ pc' \in {"abort", "undefined", "prepare"}
    BY <1>7 DEF PassCalls, Fails
  <2> QED
    BY <1>7, <2>1, Quiet DEF PassCalls, cloner, made, Selecting
<1>8. CASE Prepare
  <2>1. pc = "prepare" /\ pc' \in {"abort", "undefined", "check"}
    BY <1>8 DEF Prepare, Preparation, Fails
  <2> QED
    BY <1>8, <2>1, Quiet DEF Prepare, cloner, made, Selecting
<1>9. CASE Check
  <2>1. pc = "check" /\ pc' \in {"sever", "fail"}
    BY <1>9 DEF Check
  <2> QED
    BY <1>9, <2>1, Quiet DEF Check, cloner, made, Selecting
<1>10. CASE Keep
  BY <1>10, Quiet DEF Keep, cloner, made, Selecting
<1>11. CASE Sever
  BY <1>11, SeverInv
<1>12. CASE Copy
  BY <1>12, CopyInv
<1>13. CASE Describe
  <2>1. /\ pc = "specs" /\ results' = Append(results, Result(TRUE)) /\ loop' = loop + 1
        /\ pc' = "loops" /\ UNCHANGED <<program, worklist, cfg, clones>>
    BY <1>13 DEF Describe, ResultOfClone
  <2>2. PICK c \in BOOLEAN : c = TRUE
    OBVIOUS
  <2> QED
    BY <2>1, <2>2, ResultInv
<1>14. CASE DescribeFails
  <2>1. pc' \in {"abort", "undefined"}
    BY <1>14 DEF DescribeFails, Fails
  <2> QED
    BY <1>14, <2>1, Quiet DEF DescribeFails, cloner, made
<1>15. CASE Fail
  <2>1. /\ pc = "fail" /\ results' = Append(results, Result(FALSE)) /\ loop' = loop + 1
        /\ pc' = "loops" /\ UNCHANGED <<program, worklist, cfg, clones>>
    BY <1>15 DEF Fail
  <2>2. PICK c \in BOOLEAN : c = FALSE
    OBVIOUS
  <2> QED
    BY <2>1, <2>2, ResultInv
<1>16. CASE Report
  BY <1>16, ReportInv
<1>17. CASE ReportFails
  BY <1>17, Quiet DEF ReportFails, cloner, made
<1> QED
  BY <1>1, <1>2, <1>3, <1>4, <1>5, <1>6, <1>7, <1>8, <1>9, <1>10, <1>11, <1>12, <1>13, <1>14,
     <1>15, <1>16, <1>17 DEF Next

\* Whatever the options, the strategy and what is wrong with the loops: when
\* cloneLoops moves on, the functions in the module are those of the loops it
\* reports as cloned, one for each, and it changed a graph only if it reports one.
THEOREM ReportsItsChanges == Spec => []ChangesReported
<1>1. IInv => ChangesReported
  BY DEF IInv, ClonesMatch, GraphsMatch, ChangesReported, Going, Unreported, Selecting
<1> QED
  BY <1>1, InitInv, NextInv, PTL DEF Spec
-----------------------------------------------------------------------------
(* What a step does, and the function that is worked on *)

InLoop == {"select", "calls", "prepare", "check", "sever", "copy", "specs", "fail"}

\* The steps that only move on.
Idle ==
  /\ UNCHANGED <<program, worklist, cfg, lba, loop, region, clones, results, records, written>>
  /\ \/ pc' = pc
     \/ pc' \in {"fatal", "abort", "undefined"}
     \/ pc = "start" /\ pc' = "functions"
     \/ pc = "functions" /\ pc' = "done"
     \/ pc = "loops" /\ pc' = "report"
     \/ pc = "select" /\ pc' = "fail"
     \/ pc = "calls" /\ pc' \in {"fail", "prepare"}
     \/ pc = "prepare" /\ pc' = "check"
     \/ pc = "check" /\ pc' = "fail"
     \/ pc = "check" /\ pc' = "sever" /\ Eligible
     \/ pc = "sever" /\ pc' = "copy" /\ ~Merges

LEMMA NextIs ==
  [Next]_vars =>
    Idle \/ TakeFunction \/ Analyze \/ Select \/ Sever \/ Copy \/ Describe \/ Fail \/ Report
<1> SUFFICES ASSUME [Next]_vars
             PROVE  \/ Idle \/ TakeFunction \/ Analyze \/ Select \/ Sever \/ Copy \/ Describe
                    \/ Fail \/ Report
  OBVIOUS
<1>1. CASE UNCHANGED vars \/ Stay
  BY <1>1 DEF Stay, vars, Idle
<1>2. CASE ReportsDirectoryMissing \/ Begin \/ FinishModule \/ EndLoops \/ ReportFails
  BY <1>2 DEF ReportsDirectoryMissing, Begin, FinishModule, EndLoops, ReportFails, Idle, cloner, made
<1>3. CASE SelectNothing \/ SkipCalls \/ Keep
  BY <1>3 DEF SelectNothing, SkipCalls, Keep, Idle, cloner, made
<1>4. CASE PassCalls
  <2>1. pc = "calls" /\ pc' \in {"abort", "undefined", "prepare"}
    BY <1>4 DEF PassCalls, Fails
  <2> QED
    BY <1>4, <2>1 DEF PassCalls, Idle, cloner, made
<1>5. CASE Prepare
  <2>1. pc = "prepare" /\ pc' \in {"abort", "undefined", "check"}
    BY <1>5 DEF Prepare, Preparation, Fails
  <2> QED
    BY <1>5, <2>1 DEF Prepare, Idle, cloner, made
<1>6. CASE Check
  <2>1. pc = "check" /\ (pc' = "fail" \/ (pc' = "sever" /\ Eligible))
    BY <1>6 DEF Check
  <2> QED
    BY <1>6, <2>1 DEF Check, Idle, cloner, made
<1>7. CASE DescribeFails
  <2>1. pc' \in {"abort", "undefined"}
    BY <1>7 DEF DescribeFails, Fails
  <2> QED
    BY <1>7, <2>1 DEF DescribeFails, Idle, cloner, made
<1> QED
  BY <1>1, <1>2, <1>3, <1>4, <1>5, <1>6, <1>7 DEF Next

\* There is a function, and a loop of it.
WorkOK ==
  /\ program \in Programs
  /\ worklist \in Seq(DOMAIN program.functions)
  /\ loop \in Nat
  /\ Working => worklist # <<>>
  /\ pc \in InLoop \cup {"loops", "report"} => loop # 0
  /\ pc \in InLoop => loop \in DOMAIN fn.loops
  /\ pc \in InLoop \cup Stopped \cup {"start", "functions", "loops", "report"}

LEMMA WorkInit == Init => WorkOK
  BY WorkListType DEF Init, WorkOK, Working, InLoop, Stopped

LEMMA ProgramOf ==
  ASSUME NEW p \in Programs
  PROVE  /\ p.functions \in Seq(Elems(p.functions))
         /\ \A i \in DOMAIN p.functions : FunctionOK(p.functions[i])
  BY ProgramAssumption DEF IsSeq

LEMMA FunctionAtHand ==
  ASSUME WorkOK, worklist # <<>>
  PROVE  FunctionOK(fn)
<1>1. PICK n \in Nat : n = Len(worklist) /\ n \in DOMAIN worklist
  BY DEF WorkOK
<1>2. worklist[n] \in DOMAIN program.functions
  BY <1>1 DEF WorkOK
<1> QED
  BY <1>1, <1>2, ProgramOf DEF WorkOK, fn

LEMMA LoopsOf ==
  ASSUME NEW f, FunctionOK(f)
  PROVE  /\ \E n \in Nat : DOMAIN f.loops = 1 .. n /\ n = Len(f.loops)
         /\ DOMAIN f.loops \subseteq Nat \ {0}
<1>1. f.loops \in Seq(Elems(f.loops))
  BY DEF FunctionOK, IsSeq
<1> QED
  BY <1>1

LEMMA WorkKept == WorkOK /\ [Next]_vars => WorkOK'
<1> SUFFICES ASSUME WorkOK, [Next]_vars PROVE WorkOK'
  OBVIOUS
<1> USE DEF InLoop, Stopped
<1>1. CASE Idle
  <2>1. fn' = fn
    BY <1>1 DEF Idle, fn
  <2> QED
    BY <1>1, <2>1 DEF Idle, WorkOK, Working
<1>2. CASE TakeFunction
  BY <1>2 DEF TakeFunction, WorkOK, Working
<1>3. CASE Analyze
  <2>1. fn' = fn
    BY <1>3 DEF Analyze, cloner, fn
  <2>2. worklist # <<>> /\ loop \in Nat /\ loop # 0 /\ loop <= Len(fn.loops)
    BY <1>3 DEF WorkOK, Working, Analyze
  <2>3. loop \in DOMAIN fn.loops
    <3>1. PICK n \in Nat : DOMAIN fn.loops = 1 .. n /\ n = Len(fn.loops)
      BY <2>2, FunctionAtHand, LoopsOf
    <3> QED
      BY <2>2, <3>1
  <2> QED
    BY <1>3, <2>1, <2>2, <2>3 DEF Analyze, cloner, made, WorkOK, Working
<1>4. CASE Select \/ Sever
  <2>1. fn' = fn
    BY <1>4 DEF Select, Sever, cloner, fn
  <2> QED
    BY <1>4, <2>1 DEF Select, Sever, cloner, made, WorkOK, Working
<1>5. CASE Copy
  <2>1. fn' = fn /\ pc = "copy" /\ pc' \in {"undefined", "abort", "specs"}
    BY <1>5 DEF Copy, Fails, cloner, fn
  <2> QED
    BY <1>5, <2>1 DEF Copy, cloner, WorkOK, Working
<1>6. CASE Describe \/ Fail
  <2>1. /\ fn' = fn /\ pc \in {"specs", "fail"} /\ pc' = "loops" /\ loop' = loop + 1
        /\ UNCHANGED <<program, worklist>>
    BY <1>6 DEF Describe, Fail, fn
  <2>2. worklist # <<>> /\ loop + 1 \in Nat /\ loop + 1 # 0
    BY <2>1 DEF WorkOK, Working
  <2> QED
    BY <2>1, <2>2 DEF WorkOK, Working
<1>7. CASE Report
  <2>1. /\ pc = "report" /\ pc' = "functions" /\ worklist' = Front(worklist)
        /\ UNCHANGED <<program, loop>>
    BY <1>7 DEF Report
  <2>2. worklist # <<>> /\ worklist \in Seq(DOMAIN program.functions)
    BY <2>1 DEF WorkOK, Working
  <2>3. worklist' \in Seq(DOMAIN program.functions)
    <3>1. PICK n \in Nat : n = Len(worklist) - 1
      BY <2>2
    <3>2. worklist' = SubSeq(worklist, 1, n)
      BY <2>1, <3>1 DEF Front
    <3>3. PICK S : S = DOMAIN program.functions
      OBVIOUS
    <3>4. \A i \in 1 .. n : worklist[i] \in S
      BY <2>2, <3>1, <3>3
    <3>5. SubSeq(worklist, 1, n) \in Seq(S)
      BY <3>1, <3>4, SubSeqProperties
    <3> QED
      BY <3>2, <3>3, <3>5
  <2> QED
    BY <2>1, <2>3 DEF WorkOK, Working
<1> QED
  BY <1>1, <1>2, <1>3, <1>4, <1>5, <1>6, <1>7, NextIs

-----------------------------------------------------------------------------
(* What the traversal of a loop reaches, and in which orders *)

LEMMA ReachedIs ==
  ASSUME FunctionOK(fn), NEW l \in DOMAIN fn.loops
  PROVE  /\ Reached(l) \in SUBSET fn.loops[l].blocks /\ fn.loops[l].header \in Reached(l)
         /\ ClosedIn(fn.loops[l].blocks, cfg.edges, Reached(l))
         /\ \A S : fn.loops[l].header \in S /\ ClosedIn(fn.loops[l].blocks, cfg.edges, S)
                     => Reached(l) \subseteq S
<1>1. PICK B, h, E : B = fn.loops[l].blocks /\ h = fn.loops[l].header /\ E = cfg.edges
  OBVIOUS
<1>2. IsFiniteSet(B) /\ h \in B
  BY <1>1, FS_Subset DEF FunctionOK, LoopOK
<1>3. PICK w : Within(B, E, h, w)
  BY <1>2, WithinExists
<1>4. PICK v : v = CHOOSE x : Within(B, E, h, x)
  OBVIOUS
<1>5. Within(B, E, h, v)
  BY <1>3, <1>4
<1>6. Reached(l) = v[Cardinality(B)]
  BY <1>1, <1>4 DEF Reached, LedTo, Within, Grown
<1>7. /\ v[Cardinality(B)] \in SUBSET B /\ h \in v[Cardinality(B)]
      /\ ClosedIn(B, E, v[Cardinality(B)])
      /\ \A S : h \in S /\ ClosedIn(B, E, S) => v[Cardinality(B)] \subseteq S
  BY <1>2, <1>5, WithinCloses
<1> QED
  BY <1>1, <1>6, <1>7

ReadyAfter(l, s) ==
  LET blocks == Reached(l)
      forward == {e \in cfg.edges : ~IsBackEdge(e)}
      ledTo == [b \in blocks |-> LedTo(blocks, forward, b)]
  IN  {b \in blocks \ Elems(s) :
         /\ IF s = <<>> THEN b = fn.loops[l].header
            ELSE \E p \in Elems(s) : <<p, b>> \in cfg.edges
         /\ \A e \in forward : e[2] = b /\ e[1] \in blocks \ Elems(s) => e[1] \in ledTo[b]}

Longer(l, x) == UNION {{Append(s, b) : b \in ReadyAfter(l, s)} : s \in x}

OrdersUpTo(l, w) ==
  w = [n \in 0 .. Cardinality(Reached(l)) |-> IF n = 0 THEN {<<>>} ELSE Longer(l, w[n - 1])]

\* No block twice; the header is the first, and the others come after a block
\* that leads to them.
Ordered(blocks, h, s) ==
  /\ s \in Seq(blocks)
  /\ \A i, k \in DOMAIN s : i < k => s[i] # s[k]
  /\ Cardinality(Elems(s)) = Len(s)
  /\ \A i \in DOMAIN s : s[i] = h \/ \E k \in DOMAIN s : k < i /\ <<s[k], s[i]>> \in cfg.edges

LEMMA OrderedLonger ==
  ASSUME NEW l, NEW blocks, blocks = Reached(l), IsFiniteSet(blocks),
         NEW h, h = fn.loops[l].header,
         NEW s, Ordered(blocks, h, s), NEW b \in ReadyAfter(l, s)
  PROVE  Ordered(blocks, h, Append(s, b)) /\ Len(Append(s, b)) = Len(s) + 1
<1>1. s \in Seq(blocks) /\ b \in blocks /\ b \notin Elems(s)
  BY DEF Ordered, ReadyAfter
<1>2. PICK t : t = Append(s, b)
  OBVIOUS
<1>3. PICK n \in Nat : n = Len(s) /\ DOMAIN s = 1 .. n
  BY <1>1
<1>4. /\ t \in Seq(blocks) /\ DOMAIN t = 1 .. n + 1 /\ Len(t) = n + 1
      /\ \A i \in DOMAIN s : t[i] = s[i]
      /\ t[n + 1] = b
  <2>1. /\ Append(s, b) \in Seq(blocks \cup {b}) /\ Len(t) = n + 1 /\ DOMAIN t = 1 .. n + 1
        /\ \A i \in DOMAIN s : t[i] = s[i]
        /\ t[n + 1] = b
    BY <1>1, <1>2, <1>3, AppendElems
  <2>2. blocks \cup {b} = blocks
    BY <1>1
  <2> QED
    BY <1>2, <2>1, <2>2
<1>5. Elems(t) = Elems(s) \cup {b}
  BY <1>1, <1>2, AppendElems
<1>6. Elems(s) \subseteq blocks /\ IsFiniteSet(Elems(s)) /\ \A i \in DOMAIN s : s[i] \in Elems(s)
  <2>1. Elems(s) \in SUBSET blocks /\ \A i \in DOMAIN s : s[i] \in Elems(s)
    BY <1>1 DEF Elems
  <2> QED
    BY <2>1, FS_Subset
<1>7. Cardinality(Elems(t)) = Len(t)
  <2>1. Cardinality(Elems(s)) = n
    BY <1>3 DEF Ordered
  <2>2. Cardinality(Elems(s) \cup {b}) = Cardinality(Elems(s)) + 1
    BY <1>1, <1>6, FS_AddElement
  <2> QED
    BY <1>4, <1>5, <2>1, <2>2
<1>8. ASSUME NEW i \in DOMAIN t, NEW k \in DOMAIN t, i < k PROVE t[i] # t[k]
  <2>1. i \in DOMAIN s
    BY <1>3, <1>4, <1>8
  <2>2. CASE k \in DOMAIN s
    BY <1>4, <2>1, <2>2, <1>8 DEF Ordered
  <2>3. CASE k \notin DOMAIN s
    <3>1. k = n + 1 /\ t[k] = b /\ t[i] = s[i]
      BY <1>3, <1>4, <2>1, <2>3
    <3> QED
      BY <1>1, <1>6, <2>1, <3>1
  <2> QED
    BY <2>2, <2>3
<1>9. ASSUME NEW i \in DOMAIN t
      PROVE  t[i] = h \/ \E k \in DOMAIN t : k < i /\ <<t[k], t[i]>> \in cfg.edges
  <2>1. CASE i \in DOMAIN s
    <3>1. t[i] = s[i]
      BY <1>4, <2>1
    <3>2. CASE s[i] = h
      BY <3>1, <3>2
    <3>3. CASE \E k \in DOMAIN s : k < i /\ <<s[k], s[i]>> \in cfg.edges
      <4>1. PICK k \in DOMAIN s : k < i /\ <<s[k], s[i]>> \in cfg.edges
        BY <3>3
      <4>2. k \in DOMAIN t /\ t[k] = s[k]
        BY <1>3, <1>4
      <4> QED
        BY <3>1, <4>1, <4>2
    <3> QED
      BY <2>1, <3>2, <3>3 DEF Ordered
  <2>2. CASE i \notin DOMAIN s
    <3>1. i = n + 1 /\ t[i] = b
      BY <1>3, <1>4, <2>2
    <3>2. CASE s = <<>>
      BY <3>1, <3>2 DEF ReadyAfter
    <3>3. CASE s # <<>>
      <4>1. PICK p \in Elems(s) : <<p, b>> \in cfg.edges
        BY <3>3 DEF ReadyAfter
      <4>2. PICK k \in DOMAIN s : s[k] = p
        BY DEF Elems
      <4>3. k \in DOMAIN t /\ k < i /\ t[k] = p
        BY <1>3, <1>4, <3>1, <4>2
      <4> QED
        BY <3>1, <4>1, <4>3
    <3> QED
      BY <3>2, <3>3
  <2> QED
    BY <2>1, <2>2
<1> QED
  BY <1>2, <1>3, <1>4, <1>7, <1>8, <1>9 DEF Ordered

LEMMA OrdersAre ==
  ASSUME NEW l, NEW blocks, blocks = Reached(l), IsFiniteSet(blocks),
         NEW h, h = fn.loops[l].header,
         NEW s \in Traversals(l)
  PROVE  Ordered(blocks, h, s) /\ Elems(s) = blocks
<1>1. PICK N \in Nat : N = Cardinality(blocks)
  BY FS_CardinalityType
<1>2. \E w : OrdersUpTo(l, w)
  <2>1. PICK W : W = [x \in Nat \X SUBSET Seq(blocks) |-> Longer(l, x[2])]
    OBVIOUS
  <2>2. \A n \in Nat : \A x \in SUBSET Seq(blocks) : W[<<n, x>>] = Longer(l, x)
    BY <2>1
  <2>3. PICK D : D = SUBSET Seq(blocks)
    OBVIOUS
  <2>4. ASSUME NEW x \in D PROVE Longer(l, x) \in D
    <3>1. ASSUME NEW t \in x, NEW b \in ReadyAfter(l, t) PROVE Append(t, b) \in Seq(blocks)
      <4>1. t \in Seq(blocks) /\ b \in blocks
        BY <2>3 DEF ReadyAfter
      <4> QED
        BY ONLY <4>1
    <3> QED
      BY <2>3, <3>1 DEF Longer
  <2>5. W \in [Nat \X D -> D]
    BY <2>1, <2>3, <2>4
  <2> DEFINE first == {<<>>}
  <2>6. first \in D
    BY <2>3
  <2> HIDE DEF first
  <2>7. PICK w : Steps(first, W, N, w)
    BY <2>5, <2>6, StepsExist
  <2>8. Keeps(W, N, D)
    BY <2>5 DEF Keeps
  <2>9. /\ DOMAIN w = 0 .. N /\ w[0] = first
        /\ \A n \in 0 .. N : w[n] \in D
        /\ \A n \in 1 .. N : w[n] = W[<<n, w[n - 1]>>]
    BY <2>6, <2>7, <2>8, StepsKeep
  <2>10. ASSUME NEW n \in 0 .. N PROVE w[n] = IF n = 0 THEN {<<>>} ELSE Longer(l, w[n - 1])
    <3> SUFFICES ASSUME n # 0 PROVE w[n] = Longer(l, w[n - 1])
      BY <2>9 DEF first
    <3>1. n \in 1 .. N /\ n - 1 \in 0 .. N /\ n \in Nat
      OBVIOUS
    <3> QED
      BY <2>2, <2>3, <2>9, <3>1
  <2>11. w = [n \in 0 .. N |-> w[n]]
    BY <2>7 DEF Steps
  <2>12. w = [n \in 0 .. N |-> IF n = 0 THEN {<<>>} ELSE Longer(l, w[n - 1])]
    BY <2>10, <2>11
  <2> QED
    BY <1>1, <2>12 DEF OrdersUpTo
<1>3. PICK w : w = CHOOSE x : OrdersUpTo(l, x)
  OBVIOUS
<1>4. OrdersUpTo(l, w)
  BY <1>2, <1>3
<1>5. Traversals(l) = w[N]
  BY <1>1, <1>3 DEF Traversals, OrdersUpTo, Longer, ReadyAfter
<1>6. w[0] = {<<>>} /\ \A n \in 0 .. N : n + 1 <= N => w[n + 1] = Longer(l, w[n])
  <2>1. \A n \in 0 .. N : w[n] = IF n = 0 THEN {<<>>} ELSE Longer(l, w[n - 1])
    BY <1>1, <1>4 DEF OrdersUpTo
  <2>2. ASSUME NEW n \in 0 .. N, n + 1 <= N PROVE w[n + 1] = Longer(l, w[n])
    <3>1. n + 1 \in 0 .. N /\ n + 1 # 0 /\ (n + 1) - 1 = n
      BY <2>2
    <3> QED
      BY <2>1, <3>1
  <2> QED
    BY <2>1, <2>2
<1> DEFINE P == {n \in Nat : n <= N => \A t \in w[n] : Ordered(blocks, h, t) /\ Len(t) = n}
<1>7. 0 \in P
  <2>1. Elems(<<>>) = {} /\ DOMAIN <<>> = {} /\ Len(<<>>) = 0 /\ <<>> \in Seq(blocks)
    BY DEF Elems
  <2>2. Ordered(blocks, h, <<>>)
    BY <2>1, FS_EmptySet DEF Ordered
  <2> QED
    BY <1>6, <2>1, <2>2
<1>8. ASSUME NEW n \in P PROVE n + 1 \in P
  <2>1. SUFFICES ASSUME n + 1 <= N, NEW t \in w[n + 1] PROVE Ordered(blocks, h, t) /\ Len(t) = n + 1
    OBVIOUS
  <2>2. n \in 0 .. N
    BY <1>1, <2>1
  <2>3. PICK u \in w[n] : \E b \in ReadyAfter(l, u) : t = Append(u, b)
    <3>1. t \in Longer(l, w[n])
      BY <1>6, <2>1, <2>2
    <3> QED
      BY ONLY <3>1 DEF Longer
  <2>4. Ordered(blocks, h, u) /\ Len(u) = n
    BY <2>1, <2>2
  <2> QED
    BY <2>3, <2>4, OrderedLonger
<1>9. P = Nat
  <2> HIDE DEF P
  <2>1. P \in SUBSET Nat
    BY DEF P
  <2> QED
    BY <1>7, <1>8, <2>1, UpTo
<1>10. Ordered(blocks, h, s) /\ Len(s) = N
  BY <1>1, <1>5, <1>9
<1>11. Elems(s) \in SUBSET blocks
  BY <1>10 DEF Ordered, Elems
<1>12. Cardinality(Elems(s)) = Cardinality(blocks)
  BY <1>1, <1>10 DEF Ordered
<1> QED
  BY <1>10, <1>11, <1>12, FS_Subset

-----------------------------------------------------------------------------
(* The region *)

Chosen == {"calls", "prepare", "check", "sever"}

RegionOK ==
  /\ pc \in Chosen =>
       /\ region.now = Elems(region.blocks)
       /\ region.header = IF region.blocks = <<>> THEN 0 ELSE region.blocks[1]
       /\ \E order : /\ Ordered(Reached(loop), fn.loops[loop].header, order) /\ Elems(order) = Reached(loop)
                     /\ \E P \in SUBSET DOMAIN order : region.blocks = Kept(order, P)
  /\ pc = "sever" => region.blocks # <<>>
  /\ pc = "calls" /\ program.strategy # "itr" =>
       region.now = Reached(loop) \cap Selected(region.blocks)
  /\ pc \in {"copy", "specs"} =>
       /\ region.header \in region.now /\ region.now \subseteq DOMAIN cfg.code
       /\ region.blocks \in Seq(DOMAIN cfg.code)

LEMMA KeptOf ==
  ASSUME NEW blocks, NEW order, order \in Seq(blocks), NEW P \in SUBSET DOMAIN order
  PROVE  /\ Kept(order, P) \in Seq(blocks)
         /\ Elems(Kept(order, P)) = {order[k] : k \in P}
         /\ Elems(Kept(order, P)) \subseteq blocks
         /\ Kept(order, P) # <<>> => Kept(order, P)[1] \in Elems(Kept(order, P))
<1>1. PICK k : k = Kept(order, P)
  OBVIOUS
<1>2. /\ k \in Seq(blocks)
      /\ \A n \in DOMAIN k : \E p \in P : k[n] = order[p]
      /\ \A p \in P : \E n \in DOMAIN k : k[n] = order[p]
  BY <1>1, KeptElements
<1>3. Elems(k) = {order[p] : p \in P}
  BY <1>2 DEF Elems
<1>4. Elems(k) \subseteq blocks
  BY <1>2 DEF Elems
<1>5. k # <<>> => 1 \in DOMAIN k
  BY <1>2
<1>6. k # <<>> => k[1] \in Elems(k)
  BY <1>5 DEF Elems
<1> QED
  BY <1>1, <1>2, <1>3, <1>4, <1>6

\* The blocks of the region are blocks the loop has.
LEMMA RegionType ==
  ASSUME WorkOK, RegionOK, pc \in Chosen
  PROVE  /\ region.blocks \in Seq(fn.loops[loop].blocks)
         /\ region.now = Elems(region.blocks)
         /\ region.now \subseteq Reached(loop) /\ Reached(loop) \subseteq fn.loops[loop].blocks
         /\ fn.loops[loop].blocks \subseteq DOMAIN fn.code
         /\ region.blocks # <<>> => region.header \in region.now /\ region.header = region.blocks[1]
<1>1. FunctionOK(fn) /\ loop \in DOMAIN fn.loops
  BY FunctionAtHand DEF WorkOK, Working, Stopped, Chosen, InLoop
<1>2. PICK B : B = fn.loops[loop].blocks
  OBVIOUS
<1>3. Reached(loop) \in SUBSET B
  BY <1>1, <1>2, ReachedIs
<1>4. B \subseteq DOMAIN fn.code
  BY <1>1, <1>2 DEF FunctionOK, LoopOK
<1>5. PICK order : /\ Ordered(Reached(loop), fn.loops[loop].header, order)
                   /\ \E P \in SUBSET DOMAIN order : region.blocks = Kept(order, P)
  BY DEF RegionOK
<1>6. PICK P \in SUBSET DOMAIN order : region.blocks = Kept(order, P)
  BY <1>5
<1>7. order \in Seq(Reached(loop))
  BY <1>5 DEF Ordered
<1>8. /\ Kept(order, P) \in Seq(Reached(loop))
      /\ Elems(Kept(order, P)) \subseteq Reached(loop)
      /\ Kept(order, P) # <<>> => Kept(order, P)[1] \in Elems(Kept(order, P))
  BY <1>7, KeptOf
<1>9. Kept(order, P) \in Seq(B)
  BY <1>3, <1>8
<1>10. region.now = Elems(region.blocks)
       /\ region.header = IF region.blocks = <<>> THEN 0 ELSE region.blocks[1]
  BY DEF RegionOK
<1> QED
  BY <1>2, <1>3, <1>4, <1>6, <1>8, <1>9, <1>10

LEMMA SelectRegion == ASSUME WorkOK, Select PROVE RegionOK'
<1>1. pc = "select" /\ pc' = "calls" /\ fn' = fn /\ UNCHANGED <<program, worklist, loop, cfg>>
  BY DEF Select, cloner, fn
<1>2. FunctionOK(fn) /\ loop \in DOMAIN fn.loops
  BY <1>1, FunctionAtHand DEF WorkOK, Working, Stopped, InLoop
<1>3. PICK order \in Traversals(loop) :
        \E selected \in {Selected(order)} :
           LET blocks == Kept(order, {k \in DOMAIN order : order[k] \in selected})
           IN  region' = [blocks |-> blocks, now |-> Elems(blocks),
                          header |-> IF blocks = <<>> THEN 0 ELSE blocks[1]]
  BY DEF Select
<1> DEFINE P == {k \in DOMAIN order : order[k] \in Selected(order)}
<1>4. /\ region'.blocks = Kept(order, P) /\ region'.now = Elems(region'.blocks)
      /\ region'.header = IF region'.blocks = <<>> THEN 0 ELSE region'.blocks[1]
  BY <1>3
<1>6. IsFiniteSet(Reached(loop))
  <2>1. IsFiniteSet(fn.loops[loop].blocks)
    BY <1>2, FS_Subset DEF FunctionOK, LoopOK
  <2> QED
    BY <1>2, <2>1, ReachedIs, FS_Subset
<1>7. Ordered(Reached(loop), fn.loops[loop].header, order) /\ Elems(order) = Reached(loop)
  BY <1>3, <1>6, OrdersAre
<1>8. Reached(loop)' = Reached(loop)
  BY <1>1 DEF Reached, LedTo
<1>9. \A s : Ordered(Reached(loop), fn.loops[loop].header, s)' <=> Ordered(Reached(loop), fn.loops[loop].header, s)
  BY <1>1, <1>8 DEF Ordered
<1>10. P \in SUBSET DOMAIN order
  OBVIOUS
<1>11. Elems(region'.blocks) = {order[k] : k \in P}
  BY <1>4, <1>7, <1>10, KeptOf DEF Ordered
<1>12. region'.now = Reached(loop) \cap Selected(order)
  BY <1>4, <1>7, <1>11 DEF Elems
<1>13. program.strategy # "itr" => Selected(region.blocks)' = Selected(order)
  BY <1>1 DEF Selected, cur, Ends
<1> HIDE DEF P
<1>14. \E o : /\ Ordered(Reached(loop), fn.loops[loop].header, o)' /\ Elems(o) = Reached(loop)'
              /\ \E Q \in SUBSET DOMAIN o : region'.blocks = Kept(o, Q)
  BY <1>4, <1>7, <1>8, <1>9, <1>10
<1> QED
  BY <1>1, <1>4, <1>8, <1>12, <1>13, <1>14 DEF RegionOK, Elems

-----------------------------------------------------------------------------
(* The graph *)

\* What holds of the graph whatever the pass does.
GraphShape ==
  /\ cfg.edges \subseteq (DOMAIN cfg.code) \X (DOMAIN cfg.code)
  /\ cfg.phis \subseteq DOMAIN cfg.code
  /\ DOMAIN cfg.of = DOMAIN cfg.code /\ DOMAIN cfg.rest \subseteq DOMAIN cfg.code

\* The blocks of the function are there, each followed by the others it has been
\* split into.
Parts ==
  /\ IsFiniteSet(DOMAIN cfg.code) /\ DOMAIN cfg.code \subseteq Nat \ {0}
  /\ DOMAIN fn.code \subseteq DOMAIN cfg.code
  /\ cfg.of \in [DOMAIN cfg.code -> DOMAIN fn.code]
  /\ \A b \in DOMAIN fn.code : cfg.of[b] = b
  /\ cfg.rest \in [DOMAIN cfg.rest -> DOMAIN cfg.code \ DOMAIN fn.code]
  /\ \A p \in DOMAIN cfg.code \ DOMAIN fn.code : cfg.of[p] \in DOMAIN cfg.rest

EdgesKept ==
  fn.edges = {<<cfg.of[e[1]], cfg.of[e[2]]>> : e \in {x \in cfg.edges : x[1] \in LastParts}}

OneLast ==
  \A b \in DOMAIN fn.code :
     \E p \in LastParts : {q \in LastParts : cfg.of[q] = b} = {p} /\ cfg.code[p] = fn.code[b]

LeadOn ==
  \A p \in DOMAIN cfg.rest :
     /\ {e \in cfg.edges : e[1] = p} = {<<p, cfg.rest[p]>>}
     /\ cfg.of[cfg.rest[p]] = cfg.of[p] /\ cfg.code[p] = <<>>

NoCircle ==
  \A parts \in SUBSET DOMAIN cfg.rest : parts # {} => \E p \in parts : cfg.rest[p] \notin parts

GraphOK ==
  /\ GraphShape
  /\ Working => Parts /\ EdgesKept /\ OneLast /\ LeadOn /\ NoCircle

LEMMA GraphInit == Init => GraphOK
  BY DEF Init, NoGraph, GraphOK, GraphShape, Working

LEMMA TakeGraph == ASSUME WorkOK, TakeFunction PROVE GraphOK'
<1>1. cfg' = Graph(fn) /\ fn' = fn /\ worklist # <<>>
  BY DEF TakeFunction, fn
<1>2. FunctionOK(fn)
  BY <1>1, FunctionAtHand
<1>3. PICK D, E, code : D = DOMAIN fn.code /\ E = fn.edges /\ code = fn.code
  OBVIOUS
<1>4. /\ cfg'.edges = E /\ cfg'.phis = fn.phis /\ cfg'.code = code
      /\ cfg'.of = [b \in D |-> b] /\ cfg'.rest = <<>>
  BY <1>1, <1>3 DEF Graph
<1>5. DOMAIN <<>> = {}
  OBVIOUS
<1>6. E \subseteq D \X D /\ fn.phis \subseteq D /\ IsFiniteSet(D) /\ D \subseteq Nat \ {0}
  BY <1>2, <1>3 DEF FunctionOK
<1>7. GraphShape'
  BY <1>3, <1>4, <1>5, <1>6 DEF GraphShape
<1>8. Parts'
  BY <1>1, <1>3, <1>4, <1>5, <1>6 DEF Parts
<1>9. LastParts' = D
  BY <1>3, <1>4, <1>5 DEF LastParts
<1>10. EdgesKept'
  <2>1. \A e \in E : e[1] \in D /\ e[2] \in D /\ e = <<e[1], e[2]>>
    BY <1>6
  <2>2. E = {<<cfg'.of[e[1]], cfg'.of[e[2]]>> : e \in {x \in E : x[1] \in D}}
    <3>1. \A e \in E : <<cfg'.of[e[1]], cfg'.of[e[2]]>> = e
      BY <1>4, <2>1
    <3>2. {x \in E : x[1] \in D} = E
      BY <2>1
    <3> QED
      BY <3>1, <3>2
  <2> QED
    BY <1>1, <1>3, <1>4, <1>9, <2>2 DEF EdgesKept
<1>11. OneLast'
  BY <1>1, <1>3, <1>4, <1>9 DEF OneLast
<1>12. LeadOn' /\ NoCircle'
  BY <1>4, <1>5 DEF LeadOn, NoCircle
<1> QED
  BY <1>7, <1>8, <1>10, <1>11, <1>12 DEF GraphOK

\* The new number of a part.
Fresh == Max(DOMAIN cfg.code) + 1

LEMMA FreshIs ==
  ASSUME Parts, GraphShape, NEW b \in DOMAIN cfg.code
  PROVE  Fresh \in Nat \ {0} /\ Fresh \notin DOMAIN cfg.code /\ Fresh \notin DOMAIN cfg.rest
<1>1. DOMAIN cfg.code \in SUBSET Nat /\ IsFiniteSet(DOMAIN cfg.code) /\ DOMAIN cfg.code # {}
  BY DEF Parts
<1>2. PICK m \in DOMAIN cfg.code : m = Max(DOMAIN cfg.code) /\ \A n \in DOMAIN cfg.code : n <= m
  BY <1>1, MaxIsGreatest
<1>3. m \in Nat /\ \A n \in DOMAIN cfg.code : n \in Nat /\ n <= m
  BY <1>1, <1>2
<1>4. Fresh = m + 1 /\ \A n \in DOMAIN cfg.code : n # m + 1
  BY <1>2, <1>3 DEF Fresh
<1> QED
  BY <1>3, <1>4 DEF GraphShape

\* Where an edge goes after a split.
Moved(e, b, n, back) ==
  <<IF e[1] = b THEN n ELSE e[1], IF e[2] = b /\ e[1] \in back THEN n ELSE e[2]>>

\* The first block b of the region is split, with n for what goes into the region.
Splits(b, n, back) ==
  /\ pc = "sever" /\ pc' = "copy" /\ fn' = fn /\ Working
  /\ UNCHANGED <<program, worklist, loop, lba, clones, results, records, written>>
  /\ b \in DOMAIN fn.code /\ b \in DOMAIN cfg.code /\ b \in region.now
  /\ n \in Nat \ {0} /\ n \notin DOMAIN cfg.code /\ n \notin DOMAIN cfg.rest
  /\ cfg'.edges = {Moved(e, b, n, back) : e \in cfg.edges} \cup {<<b, n>>}
  /\ cfg'.phis = IF back = {} THEN cfg.phis ELSE cfg.phis \cup {n}
  /\ DOMAIN cfg'.code = DOMAIN cfg.code \cup {n}
  /\ cfg'.code[b] = <<>> /\ cfg'.code[n] = cfg.code[b]
  /\ \A p \in DOMAIN cfg.code \ {b} : cfg'.code[p] = cfg.code[p]
  /\ cfg'.of = [p \in DOMAIN cfg.code \cup {n} |-> IF p = n THEN b ELSE cfg.of[p]]
  /\ cfg'.rest = [p \in DOMAIN cfg.rest \cup {b} \cup (IF b \in DOMAIN cfg.rest THEN {n} ELSE {}) |->
                    IF p = b THEN n ELSE IF p = n THEN cfg.rest[b] ELSE cfg.rest[p]]
  /\ region' = [region EXCEPT !.now = (@ \ {b}) \cup {n}, !.header = n]

LEMMA SeverIs ==
  ASSUME WorkOK, RegionOK, GraphOK, Sever,
         NEW b, b = region.header, NEW n, n = Fresh,
         NEW back, back = PredsOf(b) \cap region.now
  PROVE  Splits(b, n, back)
<1>1. /\ pc = "sever" /\ pc' = "copy" /\ fn' = fn
      /\ UNCHANGED <<program, worklist, loop, lba, clones, results, records, written>>
  BY DEF Sever, cloner, made, fn
<1>2. Working
  BY <1>1 DEF Working, Stopped
<1>3. Parts /\ LeadOn /\ GraphShape
  BY <1>2 DEF GraphOK
<1>4. b \in region.now /\ b \in DOMAIN fn.code
  BY <1>1, RegionType DEF RegionOK, Chosen
<1>5. b \in DOMAIN cfg.code
  BY <1>3, <1>4 DEF Parts
<1>6. n \in Nat \ {0} /\ n \notin DOMAIN cfg.code /\ n \notin DOMAIN cfg.rest
  BY <1>3, <1>5, FreshIs
<1>7. /\ cfg' = [edges |-> SplitEdges(b, n, back),
                 phis |-> IF back = {} THEN cfg.phis ELSE cfg.phis \cup {n},
                 code |-> Extended([cfg.code EXCEPT ![b] = <<>>], n, cfg.code[b]),
                 of |-> Extended(cfg.of, n, cfg.of[b]),
                 rest |-> SplitRest(b, n)]
      /\ region' = SplitRegion(b, n)
  BY DEF Sever, Fresh
<1>8. cfg'.edges = {Moved(e, b, n, back) : e \in cfg.edges} \cup {<<b, n>>}
  BY <1>7 DEF SplitEdges, Moved
<1>9. PICK code : code = [cfg.code EXCEPT ![b] = <<>>]
  OBVIOUS
<1>10. /\ DOMAIN code = DOMAIN cfg.code /\ code[b] = <<>>
       /\ \A p \in DOMAIN cfg.code \ {b} : code[p] = cfg.code[p]
  BY <1>5, <1>9
<1>11. cfg'.code = [p \in DOMAIN code \cup {n} |-> IF p = n THEN cfg.code[b] ELSE code[p]]
  BY <1>7, <1>9 DEF Extended
<1>12. /\ DOMAIN cfg'.code = DOMAIN cfg.code \cup {n}
       /\ cfg'.code[b] = <<>> /\ cfg'.code[n] = cfg.code[b]
       /\ \A p \in DOMAIN cfg.code \ {b} : cfg'.code[p] = cfg.code[p]
  BY <1>5, <1>6, <1>10, <1>11
<1>13. cfg.of[b] = b /\ DOMAIN cfg.of = DOMAIN cfg.code
  BY <1>3, <1>4 DEF Parts
<1>14. cfg'.of = [p \in DOMAIN cfg.code \cup {n} |-> IF p = n THEN b ELSE cfg.of[p]]
  BY <1>7, <1>13 DEF Extended
<1> QED
  BY <1>1, <1>2, <1>4, <1>5, <1>6, <1>7, <1>8, <1>12, <1>14 DEF SplitRest, SplitRegion, Splits

LEMMA SeverGraph == ASSUME WorkOK, RegionOK, GraphOK, Sever PROVE GraphOK'
<1>1. PICK b, n, back : b = region.header /\ n = Fresh /\ back = PredsOf(b) \cap region.now
  OBVIOUS
<1> DEFINE D == DOMAIN cfg.code
           R == DOMAIN cfg.rest
<1>2. /\ pc' = "copy" /\ fn' = fn /\ Working
      /\ b \in DOMAIN fn.code /\ b \in D
      /\ n \in Nat \ {0} /\ n \notin D /\ n \notin R /\ n # b
      /\ cfg'.edges = {Moved(e, b, n, back) : e \in cfg.edges} \cup {<<b, n>>}
      /\ cfg'.phis = IF back = {} THEN cfg.phis ELSE cfg.phis \cup {n}
      /\ DOMAIN cfg'.code = D \cup {n}
      /\ cfg'.code[b] = <<>> /\ cfg'.code[n] = cfg.code[b]
      /\ \A p \in D \ {b} : cfg'.code[p] = cfg.code[p]
      /\ cfg'.of = [p \in D \cup {n} |-> IF p = n THEN b ELSE cfg.of[p]]
      /\ cfg'.rest = [p \in R \cup {b} \cup (IF b \in R THEN {n} ELSE {}) |->
                        IF p = b THEN n ELSE IF p = n THEN cfg.rest[b] ELSE cfg.rest[p]]
  <2>1. Splits(b, n, back)
    BY <1>1, SeverIs
  <2>2. b \in D /\ n \notin D
    BY <2>1 DEF Splits
  <2>3. n # b
    BY <2>2
  <2> QED
    BY <2>1, <2>3 DEF Splits
<1> DEFINE moved(e) == Moved(e, b, n, back)
<1>3. GraphShape /\ Parts /\ EdgesKept /\ OneLast /\ LeadOn /\ NoCircle
  BY <1>2 DEF GraphOK
<1>4. /\ \A e \in cfg.edges : e[1] \in D /\ e[2] \in D /\ e = <<e[1], e[2]>>
      /\ R \subseteq D /\ cfg.phis \subseteq D
  BY <1>3 DEF GraphShape
<1>5. /\ DOMAIN cfg'.of = D \cup {n} /\ cfg'.of[n] = b /\ cfg'.of[b] = b
      /\ \A p \in D : cfg'.of[p] = cfg.of[p]
  BY <1>2, <1>3 DEF Parts
<1>6. /\ DOMAIN cfg'.rest = R \cup {b} \cup (IF b \in R THEN {n} ELSE {})
      /\ cfg'.rest[b] = n
      /\ b \in R => cfg'.rest[n] = cfg.rest[b]
      /\ \A p \in R \ {b} : cfg'.rest[p] = cfg.rest[p]
  BY <1>2
<1>7. \A e \in cfg.edges :
         /\ moved(e) = <<moved(e)[1], moved(e)[2]>>
         /\ moved(e)[1] = IF e[1] = b THEN n ELSE e[1]
         /\ moved(e)[2] = IF e[2] = b /\ e[1] \in back THEN n ELSE e[2]
  BY DEF Moved
<1>8. \A e \in cfg'.edges : e = <<b, n>> \/ \E x \in cfg.edges : e = moved(x)
  BY <1>2
<1>9. \A e \in cfg.edges : moved(e) \in cfg'.edges
  BY <1>2
<1> HIDE DEF moved
<1>10. cfg'.edges \subseteq (D \cup {n}) \X (D \cup {n})
  <2> SUFFICES ASSUME NEW e \in cfg'.edges PROVE e \in (D \cup {n}) \X (D \cup {n})
    OBVIOUS
  <2>1. CASE e = <<b, n>>
    BY <1>2, <2>1
  <2>2. CASE \E x \in cfg.edges : e = moved(x)
    <3>1. PICK x \in cfg.edges : e = moved(x)
      BY <2>2
    <3>2. moved(x)[1] \in D \cup {n} /\ moved(x)[2] \in D \cup {n} /\ moved(x) = <<moved(x)[1], moved(x)[2]>>
      BY <1>4, <1>7
    <3> QED
      BY <3>1, <3>2
  <2> QED
    BY <1>8, <2>1, <2>2
<1>11. GraphShape'
  BY <1>2, <1>4, <1>5, <1>6, <1>10 DEF GraphShape
<1>12. Parts'
  <2>1. IsFiniteSet(D \cup {n}) /\ D \cup {n} \subseteq Nat \ {0} /\ DOMAIN fn.code \subseteq D \cup {n}
    BY <1>2, <1>3, FS_AddElement DEF Parts
  <2>2. cfg'.of \in [D \cup {n} -> DOMAIN fn.code]
    BY <1>2, <1>3 DEF Parts
  <2>3. \A c \in DOMAIN fn.code : cfg'.of[c] = c
    BY <1>3, <1>5 DEF Parts
  <2>4. n \notin DOMAIN fn.code
    BY <1>2, <1>3 DEF Parts
  <2>5. \A p \in DOMAIN cfg'.rest : cfg'.rest[p] \in (D \cup {n}) \ DOMAIN fn.code
    BY <1>3, <1>6, <2>4 DEF Parts
  <2>6. cfg'.rest \in [DOMAIN cfg'.rest -> (D \cup {n}) \ DOMAIN fn.code]
    BY <1>2, <1>6, <2>5
  <2>7. \A p \in (D \cup {n}) \ DOMAIN fn.code : cfg'.of[p] \in DOMAIN cfg'.rest
    BY <1>3, <1>5, <1>6 DEF Parts
  <2> QED
    BY <1>2, <2>1, <2>2, <2>3, <2>6, <2>7 DEF Parts
<1>13. /\ LastParts' = (LastParts \ {b}) \cup (IF b \in R THEN {} ELSE {n})
       /\ b \in LastParts <=> b \notin R
       /\ LastParts \subseteq D
  BY <1>2, <1>6 DEF LastParts
<1>14. EdgesKept'
  <2> DEFINE kept(e) == <<cfg.of[e[1]], cfg.of[e[2]]>>
             now(e) == <<cfg'.of[e[1]], cfg'.of[e[2]]>>
  <2>1. fn.edges = {kept(e) : e \in {x \in cfg.edges : x[1] \in LastParts}}
    BY <1>3 DEF EdgesKept
  <2>2. cfg.of[b] = b
    BY <1>2, <1>3 DEF Parts
  <2>3. ASSUME NEW e \in cfg.edges
        PROVE  /\ now(moved(e)) = kept(e)
               /\ moved(e)[1] \in LastParts' <=> e[1] \in LastParts
    <3>1. cfg'.of[moved(e)[1]] = cfg.of[e[1]] /\ cfg'.of[moved(e)[2]] = cfg.of[e[2]]
      BY <1>2, <1>4, <1>5, <1>7, <2>2
    <3>2. moved(e)[1] \in LastParts' <=> e[1] \in LastParts
      BY <1>2, <1>4, <1>7, <1>13
    <3> QED
      BY <3>1, <3>2
  <2>4. b \notin LastParts'
    BY <1>2, <1>13
  <2> HIDE DEF kept, now
  <2>5. ASSUME NEW x \in fn.edges PROVE \E e \in cfg'.edges : e[1] \in LastParts' /\ x = now(e)
    <3>1. PICK e \in cfg.edges : e[1] \in LastParts /\ x = kept(e)
      BY <2>1
    <3> QED
      BY <1>9, <2>3, <3>1
  <2>6. ASSUME NEW e \in cfg'.edges, e[1] \in LastParts' PROVE now(e) \in fn.edges
    <3>1. e # <<b, n>>
      BY <2>4, <2>6
    <3>2. PICK x \in cfg.edges : e = moved(x)
      BY <1>8, <3>1
    <3> QED
      BY <2>1, <2>3, <2>6, <3>2
  <2>7. fn.edges = {now(e) : e \in {x \in cfg'.edges : x[1] \in LastParts'}}
    BY <2>5, <2>6
  <2> QED
    BY <1>2, <2>7 DEF EdgesKept, now
<1>15. OneLast'
  <2> SUFFICES ASSUME NEW c \in DOMAIN fn.code
               PROVE  \E p \in LastParts' : /\ {q \in LastParts' : cfg'.of[q] = c} = {p}
                                            /\ cfg'.code[p] = fn.code[c]
    BY <1>2 DEF OneLast
  <2>1. PICK p \in LastParts : {q \in LastParts : cfg.of[q] = c} = {p} /\ cfg.code[p] = fn.code[c]
    BY <1>3 DEF OneLast
  <2>2. p \in D /\ cfg.of[p] = c
    BY <1>13, <2>1
  <2>3. CASE b \in R
    <3>1. LastParts' = LastParts /\ p # b
      BY <1>13, <2>1, <2>3
    <3>2. \A q \in LastParts : cfg'.of[q] = cfg.of[q]
      BY <1>5, <1>13
    <3>3. {q \in LastParts' : cfg'.of[q] = c} = {p}
      BY <2>1, <3>1, <3>2
    <3>4. cfg'.code[p] = cfg.code[p]
      BY <1>2, <2>2, <3>1
    <3> QED
      BY <2>1, <3>1, <3>3, <3>4
  <2>4. CASE b \notin R /\ p = b
    <3>1. c = b
      BY <1>2, <1>3, <2>2, <2>4 DEF Parts
    <3>2. LastParts' = (LastParts \ {b}) \cup {n}
      BY <1>13, <2>4
    <3>3. \A q \in LastParts \ {b} : cfg'.of[q] # c
      BY <1>5, <1>13, <2>1, <2>4
    <3>4. {q \in LastParts' : cfg'.of[q] = c} = {n}
      BY <1>5, <3>1, <3>2, <3>3
    <3> QED
      BY <1>2, <2>1, <2>4, <3>2, <3>4
  <2>5. CASE b \notin R /\ p # b
    <3>1. LastParts' = (LastParts \ {b}) \cup {n}
      BY <1>13, <2>5
    <3>2. b \in LastParts /\ cfg.of[b] = b
      BY <1>2, <1>3, <1>13, <2>5 DEF Parts
    <3>3. c # b
      BY <2>1, <2>5, <3>2
    <3>4. \A q \in LastParts \ {b} : cfg'.of[q] = cfg.of[q]
      BY <1>5, <1>13
    <3>5. {q \in LastParts' : cfg'.of[q] = c} = {p}
      BY <1>2, <1>5, <1>13, <2>1, <2>2, <2>5, <3>1, <3>3, <3>4
    <3> QED
      BY <1>2, <2>1, <2>2, <2>5, <3>1, <3>5
  <2> QED
    BY <2>3, <2>4, <2>5
<1>16. LeadOn'
  <2>1. \A p \in R : /\ {e \in cfg.edges : e[1] = p} = {<<p, cfg.rest[p]>>}
                     /\ cfg.of[cfg.rest[p]] = cfg.of[p] /\ cfg.code[p] = <<>>
                     /\ cfg.rest[p] \in D /\ cfg.rest[p] # b
    BY <1>2, <1>3 DEF LeadOn, Parts
  <2>2. <<b, n>> \in cfg'.edges
    BY <1>2
  <2>3. {e \in cfg'.edges : e[1] = b} = {<<b, n>>}
    <3>1. \A e \in cfg.edges : moved(e)[1] # b
      BY <1>2, <1>7
    <3> QED
      BY <1>8, <2>2, <3>1
  <2>4. ASSUME NEW p \in R, NEW s, (p = b /\ s = n) \/ (p # b /\ s = p)
        PROVE  {e \in cfg'.edges : e[1] = s} = {<<s, cfg.rest[p]>>}
    <3>1. <<p, cfg.rest[p]>> \in cfg.edges
      BY <2>1
    <3>2. moved(<<p, cfg.rest[p]>>) = <<s, cfg.rest[p]>>
      BY <1>7, <2>1, <2>4, <3>1
    <3>3. <<s, cfg.rest[p]>> \in cfg'.edges
      BY <1>9, <3>1, <3>2
    <3>4. ASSUME NEW e \in cfg'.edges, e[1] = s PROVE e = <<s, cfg.rest[p]>>
      <4>1. s # b
        BY <1>2, <2>4
      <4>2. PICK x \in cfg.edges : e = moved(x)
        BY <1>8, <3>4, <4>1
      <4>3. x[1] = p
        BY <1>2, <1>4, <1>7, <2>4, <3>4, <4>2
      <4>4. x = <<p, cfg.rest[p]>>
        BY <2>1, <4>3
      <4> QED
        BY <3>2, <4>2, <4>4
    <3> QED
      BY <3>3, <3>4
  <2>5. /\ cfg'.of[cfg'.rest[b]] = cfg'.of[b] /\ cfg'.code[b] = <<>>
        /\ {e \in cfg'.edges : e[1] = b} = {<<b, cfg'.rest[b]>>}
    BY <1>2, <1>5, <1>6, <2>3
  <2>6. ASSUME b \in R
        PROVE  /\ cfg'.of[cfg'.rest[n]] = cfg'.of[n] /\ cfg'.code[n] = <<>>
               /\ {e \in cfg'.edges : e[1] = n} = {<<n, cfg'.rest[n]>>}
    <3>1. {e \in cfg'.edges : e[1] = n} = {<<n, cfg.rest[b]>>}
      BY <2>4, <2>6
    <3>2. cfg.of[b] = b
      BY <1>2, <1>3 DEF Parts
    <3> QED
      BY <1>2, <1>5, <1>6, <2>1, <2>6, <3>1, <3>2
  <2>7. ASSUME NEW p \in R \ {b}
        PROVE  /\ cfg'.of[cfg'.rest[p]] = cfg'.of[p] /\ cfg'.code[p] = <<>>
               /\ {e \in cfg'.edges : e[1] = p} = {<<p, cfg'.rest[p]>>}
    <3>1. {e \in cfg'.edges : e[1] = p} = {<<p, cfg.rest[p]>>}
      BY <2>4
    <3> QED
      BY <1>2, <1>4, <1>5, <1>6, <2>1, <3>1
  <2> QED
    BY <1>6, <2>5, <2>6, <2>7 DEF LeadOn
<1>17. NoCircle'
  <2> SUFFICES ASSUME NEW parts \in SUBSET DOMAIN cfg'.rest, parts # {}
               PROVE  \E p \in parts : cfg'.rest[p] \notin parts
    BY DEF NoCircle
  <2>1. \A p \in R : cfg.rest[p] \in D /\ cfg.rest[p] # n /\ cfg.rest[p] # b
    BY <1>2, <1>3 DEF Parts
  <2>2. CASE n \notin parts /\ b \in parts
    BY <1>6, <2>2
  <2>3. CASE n \notin parts /\ b \notin parts
    <3>1. parts \in SUBSET R
      BY <1>6, <2>3
    <3>2. PICK p \in parts : cfg.rest[p] \notin parts
      BY <1>3, <3>1 DEF NoCircle
    <3> QED
      BY <1>6, <2>3, <3>1, <3>2
  <2>4. CASE n \in parts
    <3>1. b \in R
      BY <1>2, <1>6, <2>4
    <3>2. (parts \ {n}) \cup {b} \in SUBSET R
      BY <1>6, <3>1
    <3>3. PICK p \in (parts \ {n}) \cup {b} : cfg.rest[p] \notin (parts \ {n}) \cup {b}
      <4>1. (parts \ {n}) \cup {b} # {}
        OBVIOUS
      <4> QED
        BY <1>3, <3>2, <4>1 DEF NoCircle
    <3>4. CASE p = b
      BY <1>6, <2>1, <2>4, <3>1, <3>3, <3>4
    <3>5. CASE p # b
      BY <1>6, <2>1, <3>2, <3>3, <3>5
    <3> QED
      BY <3>4, <3>5
  <2> QED
    BY <2>2, <2>3, <2>4
<1> QED
  BY <1>11, <1>12, <1>14, <1>15, <1>16, <1>17 DEF GraphOK

\* Steps that leave the graph and the region alone.
LEMMA SameGraph ==
  ASSUME GraphOK, UNCHANGED <<program, worklist, cfg>>, Working' => Working
  PROVE  GraphOK'
<1>1. fn' = fn
  BY DEF fn
<1>2. GraphShape' <=> GraphShape
  BY DEF GraphShape
<1>3. LastParts' = LastParts
  BY DEF LastParts
<1>4. (Parts' <=> Parts) /\ (EdgesKept' <=> EdgesKept)
  BY <1>1, <1>3 DEF Parts, EdgesKept
<1>5. (OneLast' <=> OneLast) /\ (LeadOn' <=> LeadOn) /\ (NoCircle' <=> NoCircle)
  BY <1>1, <1>3 DEF OneLast, LeadOn, NoCircle
<1> QED
  BY <1>2, <1>4, <1>5 DEF GraphOK

LEMMA SameRegion ==
  ASSUME RegionOK, UNCHANGED <<program, worklist, cfg, loop, region>>,
         pc' \in Chosen => pc \in Chosen,
         pc' = "sever" => region.blocks # <<>>,
         pc' = "calls" => pc = "calls",
         pc' \in {"copy", "specs"} =>
           /\ region.header \in region.now /\ region.now \subseteq DOMAIN cfg.code
           /\ region.blocks \in Seq(DOMAIN cfg.code)
  PROVE  RegionOK'
<1>1. fn' = fn
  BY DEF fn
<1>2. Reached(loop)' = Reached(loop)
  BY <1>1 DEF Reached, LedTo
<1>3. \A s : Ordered(Reached(loop), fn.loops[loop].header, s)' <=> Ordered(Reached(loop), fn.loops[loop].header, s)
  BY <1>1, <1>2 DEF Ordered
<1>4. program.strategy # "itr" => Selected(region.blocks)' = Selected(region.blocks)
  BY <1>1 DEF Selected, cur, Ends
<1>5. Elems(region.blocks)' = Elems(region.blocks)
  BY DEF Elems
<1>6. pc' \in Chosen =>
        \E order : /\ Ordered(Reached(loop), fn.loops[loop].header, order)' /\ Elems(order) = Reached(loop)'
                   /\ \E P \in SUBSET DOMAIN order : region.blocks = Kept(order, P)
  BY <1>2, <1>3 DEF RegionOK
<1> QED
  BY <1>2, <1>4, <1>5, <1>6 DEF RegionOK, Elems

StateOK == WorkOK /\ RegionOK /\ GraphOK

LEMMA StateInit == Init => StateOK
<1>1. Init => RegionOK
  BY DEF Init, RegionOK, Chosen
<1> QED
  BY <1>1, WorkInit, GraphInit DEF StateOK

LEMMA StateKept == StateOK /\ [Next]_vars => StateOK'
<1> SUFFICES ASSUME StateOK, [Next]_vars PROVE StateOK'
  OBVIOUS
<1>1. WorkOK /\ RegionOK /\ GraphOK /\ WorkOK'
  BY WorkKept DEF StateOK
<1> USE DEF Working, Stopped, Chosen
<1>2. CASE Idle
  <2>1. GraphOK'
    BY <1>1, <1>2, SameGraph DEF Idle
  <2>2. pc' = "sever" => region.blocks # <<>>
    BY <1>1, <1>2 DEF Idle, Eligible, RegionOK
  <2>3. pc' \in {"copy", "specs"} =>
          /\ region.header \in region.now /\ region.now \subseteq DOMAIN cfg.code
          /\ region.blocks \in Seq(DOMAIN cfg.code)
    <3>1. CASE pc' = pc
      BY <1>1, <3>1 DEF RegionOK
    <3>2. CASE pc = "sever"
      <4>1. region.now \subseteq DOMAIN fn.code /\ region.header \in region.now
        BY <1>1, <3>2, RegionType DEF RegionOK
      <4>2. DOMAIN fn.code \subseteq DOMAIN cfg.code
        BY <1>1, <3>2 DEF GraphOK, Parts
      <4>3. PICK B, D : B = fn.loops[loop].blocks /\ D = DOMAIN cfg.code
        OBVIOUS
      <4>4. region.blocks \in Seq(B) /\ B \subseteq D
        BY <1>1, <3>2, <4>2, <4>3, RegionType
      <4>5. region.blocks \in Seq(D)
        BY ONLY <4>4
      <4> QED
        BY <4>1, <4>2, <4>3, <4>5
    <3> QED
      BY <1>2, <3>1, <3>2 DEF Idle
  <2>4. RegionOK'
    BY <1>1, <1>2, <2>2, <2>3, SameRegion DEF Idle
  <2> QED
    BY <1>1, <2>1, <2>4 DEF StateOK
<1>3. CASE TakeFunction
  BY <1>1, <1>3, TakeGraph DEF TakeFunction, StateOK, RegionOK
<1>4. CASE Analyze
  <2>1. UNCHANGED <<program, worklist, cfg>> /\ pc = "loops" /\ pc' = "select"
    BY <1>4 DEF Analyze, cloner
  <2>2. GraphOK'
    BY <1>1, <2>1, SameGraph
  <2> QED
    BY <1>1, <2>1, <2>2 DEF StateOK, RegionOK
<1>5. CASE Select
  <2>1. UNCHANGED <<program, worklist, cfg>> /\ pc = "select" /\ pc' = "calls"
    BY <1>5 DEF Select, cloner
  <2>2. GraphOK'
    BY <1>1, <2>1, SameGraph
  <2> QED
    BY <1>1, <1>5, <2>2, SelectRegion DEF StateOK
<1>6. CASE Sever
  <2>1. PICK b, n, back : b = region.header /\ n = Fresh /\ back = PredsOf(b) \cap region.now
    OBVIOUS
  <2>2. Splits(b, n, back)
    BY <1>1, <1>6, <2>1, SeverIs
  <2>3. /\ pc = "sever" /\ pc' = "copy" /\ region'.header = n /\ region'.now = (region.now \ {b}) \cup {n}
        /\ DOMAIN cfg'.code = DOMAIN cfg.code \cup {n} /\ DOMAIN fn.code \subseteq DOMAIN cfg.code
    <3>1. region' = [region EXCEPT !.now = (@ \ {b}) \cup {n}, !.header = n]
      BY <2>2 DEF Splits
    <3>2. region'.header = n /\ region'.now = (region.now \ {b}) \cup {n}
      BY <1>6, <2>1, <3>1 DEF Sever, SplitRegion, Fresh
    <3> QED
      BY <1>1, <2>2, <3>2 DEF Splits, GraphOK, Parts
  <2>4. region.now \subseteq DOMAIN fn.code
    BY <1>1, <2>3, RegionType
  <2>5. region'.blocks \in Seq(DOMAIN cfg'.code)
    <3>1. PICK B, D : B = fn.loops[loop].blocks /\ D = DOMAIN cfg'.code
      OBVIOUS
    <3>2. region.blocks \in Seq(B) /\ B \subseteq D
      BY <1>1, <2>3, <3>1, RegionType
    <3>3. region.blocks \in Seq(D)
      BY ONLY <3>2
    <3>4. region'.blocks = region.blocks
      BY <2>2 DEF Splits
    <3> QED
      BY <3>1, <3>3, <3>4
  <2>6. RegionOK'
    BY <2>3, <2>4, <2>5 DEF RegionOK
  <2> QED
    BY <1>1, <1>6, <2>6, SeverGraph DEF StateOK
<1>7. CASE Copy
  <2>1. /\ UNCHANGED <<program, worklist, cfg, loop, region>> /\ pc = "copy"
        /\ pc' \in {"undefined", "abort", "specs"}
    BY <1>7 DEF Copy, cloner, Fails
  <2>2. GraphOK'
    BY <1>1, <2>1, SameGraph
  <2>3. RegionOK'
    BY <1>1, <2>1, SameRegion DEF RegionOK
  <2> QED
    BY <1>1, <2>2, <2>3 DEF StateOK
<1>8. CASE Describe \/ Fail \/ Report
  <2>1. /\ UNCHANGED <<program, cfg>> /\ pc \in {"specs", "fail", "report"}
        /\ \/ pc' = "loops" /\ UNCHANGED worklist
           \/ pc' = "functions"
    BY <1>8 DEF Describe, Fail, Report
  <2>2. GraphOK'
    <3>1. CASE pc' = "loops" /\ UNCHANGED worklist
      BY <1>1, <2>1, <3>1, SameGraph
    <3>2. CASE pc' = "functions"
      BY <1>1, <2>1, <3>2 DEF GraphOK, GraphShape
    <3> QED
      BY <2>1, <3>1, <3>2
  <2> QED
    BY <1>1, <2>1, <2>2 DEF StateOK, RegionOK
<1> QED
  BY <1>2, <1>3, <1>4, <1>5, <1>6, <1>7, <1>8, NextIs

\* Whatever regions are split, also the same block several times: the function
\* they are cloned from takes the paths it took.
THEOREM OriginalGraphStays == Spec => []OriginalGraphKept
<1>1. StateOK => OriginalGraphKept
  <2> SUFFICES ASSUME StateOK, Working PROVE OriginalGraphKept
    BY DEF OriginalGraphKept
  <2>1. EdgesKept /\ OneLast /\ LeadOn /\ NoCircle
    BY DEF StateOK, GraphOK
  <2> QED
    BY <2>1 DEF OriginalGraphKept, EdgesKept, OneLast, LeadOn, NoCircle
<1> QED
  BY <1>1, StateInit, StateKept, PTL DEF Spec

-----------------------------------------------------------------------------
(* The nest of the current loop, and what the analyzer keeps of it *)

LEMMA LoopsNest ==
  ASSUME NEW f, FunctionOK(f), NEW l \in DOMAIN f.loops, NEW m \in OuterLoops(f.loops, l)
  PROVE  /\ m \in DOMAIN f.loops /\ m < l
         /\ f.loops[l].blocks \subseteq f.loops[m].blocks \ {f.loops[m].header}
         /\ f.loops[l].header \in f.loops[l].blocks
<1>1. m \in DOMAIN f.loops /\ m # l /\ f.loops[l].header \in f.loops[m].blocks
  BY DEF OuterLoops
<1>2. LoopOK(f, l)
  BY DEF FunctionOK
<1>3. f.loops[l].header \in f.loops[l].blocks
  BY <1>2 DEF LoopOK
<1>4. \/ m = l \/ f.loops[m].blocks \cap f.loops[l].blocks = {}
      \/ m < l /\ f.loops[l].blocks \subseteq f.loops[m].blocks \ {f.loops[m].header}
      \/ m > l /\ f.loops[m].blocks \subseteq f.loops[l].blocks \ {f.loops[l].header}
  BY <1>1, <1>2 DEF LoopOK
<1> QED
  BY <1>1, <1>3, <1>4

\* A loop around one around another is around it as well.
LEMMA OuterTransitive ==
  ASSUME NEW f, FunctionOK(f), NEW l \in DOMAIN f.loops, NEW m \in OuterLoops(f.loops, l),
         NEW o \in OuterLoops(f.loops, m)
  PROVE  o \in OuterLoops(f.loops, l)
<1>1. /\ m \in DOMAIN f.loops /\ m < l /\ f.loops[l].blocks \subseteq f.loops[m].blocks
      /\ f.loops[l].header \in f.loops[l].blocks
  BY LoopsNest
<1>2. o \in DOMAIN f.loops /\ o < m /\ f.loops[m].blocks \subseteq f.loops[o].blocks
  BY <1>1, LoopsNest
<1>3. l \in Nat /\ m \in Nat /\ o \in Nat
  BY <1>1, <1>2, LoopsOf
<1> QED
  BY <1>1, <1>2, <1>3 DEF OuterLoops

LEMMA TopIs ==
  ASSUME NEW f, FunctionOK(f), NEW l \in DOMAIN f.loops
  PROVE  /\ TopOf(f.loops, l) \in DOMAIN f.loops
         /\ TopOf(f.loops, l) \in {l} \cup OuterLoops(f.loops, l)
         /\ OuterLoops(f.loops, TopOf(f.loops, l)) = {}
         /\ f.loops[l].blocks \subseteq f.loops[TopOf(f.loops, l)].blocks
<1> DEFINE T == {l} \cup OuterLoops(f.loops, l)
<1>1. T \in SUBSET DOMAIN f.loops
  BY DEF OuterLoops
<1>2. T \in SUBSET Nat
  BY <1>1, LoopsOf
<1>3. PICK t \in T : \A n \in T : t <= n
  BY <1>2, Least
<1>4. OuterLoops(f.loops, t) = {}
  <2> SUFFICES ASSUME NEW o \in OuterLoops(f.loops, t) PROVE FALSE
    OBVIOUS
  <2>1. t \in DOMAIN f.loops
    BY <1>1
  <2>2. o < t
    BY <2>1, LoopsNest
  <2>3. o \in OuterLoops(f.loops, l)
    BY OuterTransitive
  <2> QED
    BY <1>2, <1>3, <2>2, <2>3
<1>5. TopOf(f.loops, l) \in T /\ OuterLoops(f.loops, TopOf(f.loops, l)) = {}
  <2>1. \E x \in T : OuterLoops(f.loops, x) = {}
    BY <1>4
  <2> QED
    BY <2>1 DEF TopOf
<1> QED
  BY <1>1, <1>5, LoopsNest

\* The loops of a nest are in the outermost one.
LEMMA NestBlocks ==
  ASSUME NEW f, FunctionOK(f), NEW t \in DOMAIN f.loops, OuterLoops(f.loops, t) = {},
         NEW m \in NestOf(f.loops, t)
  PROVE  /\ m \in DOMAIN f.loops /\ f.loops[m].header \in f.loops[m].blocks
         /\ f.loops[m].blocks \subseteq f.loops[t].blocks
<1>1. m \in DOMAIN f.loops /\ f.loops[m].header \in f.loops[t].blocks
  BY DEF NestOf
<1>2. CASE m = t
  BY <1>1, <1>2 DEF FunctionOK, LoopOK
<1>3. CASE m # t
  <2>1. t \in OuterLoops(f.loops, m)
    BY <1>1, <1>3 DEF OuterLoops
  <2> QED
    BY <1>1, <2>1, LoopsNest
<1> QED
  BY <1>2, <1>3

\* No block of loop t has been split.
Whole(t) == \A p \in DOMAIN cfg.rest : cfg.of[p] \notin fn.loops[t].blocks

Unsplit(b) == b \in DOMAIN fn.code /\ \A p \in DOMAIN cfg.rest : cfg.of[p] # b

\* A block that has not been split is the only part of itself.
LEMMA UnsplitIs ==
  ASSUME GraphOK, Working, NEW b, Unsplit(b)
  PROVE  /\ b \in LastParts /\ cfg.of[b] = b
         /\ \A q \in DOMAIN cfg.code : cfg.of[q] = b => q = b
<1>1. Parts /\ OneLast /\ b \in DOMAIN fn.code
  BY DEF GraphOK, Unsplit
<1>2. b \in DOMAIN cfg.code /\ cfg.of[b] = b
  BY <1>1 DEF Parts
<1>3. b \in LastParts
  BY <1>2 DEF LastParts, Unsplit
<1>4. PICK p \in LastParts : {q \in LastParts : cfg.of[q] = b} = {p}
  BY <1>1 DEF OneLast
<1>5. ASSUME NEW q \in DOMAIN cfg.code, cfg.of[q] = b PROVE q = b
  <2>1. q \in LastParts
    BY <1>5 DEF LastParts, Unsplit
  <2> QED
    BY <1>2, <1>3, <1>4, <1>5, <2>1
<1> QED
  BY <1>2, <1>3, <1>5

LEMMA UnsplitEdges ==
  ASSUME GraphOK, Working, NEW b, Unsplit(b), NEW c, Unsplit(c)
  PROVE  <<b, c>> \in cfg.edges <=> <<b, c>> \in fn.edges
<1>1. GraphShape /\ EdgesKept
  BY DEF GraphOK
<1>2. /\ b \in LastParts /\ cfg.of[b] = b /\ cfg.of[c] = c
      /\ \A q \in DOMAIN cfg.code : cfg.of[q] = b => q = b
      /\ \A q \in DOMAIN cfg.code : cfg.of[q] = c => q = c
  BY UnsplitIs
<1>3. ASSUME <<b, c>> \in cfg.edges PROVE <<b, c>> \in fn.edges
  BY <1>1, <1>2, <1>3 DEF EdgesKept
<1>4. ASSUME <<b, c>> \in fn.edges PROVE <<b, c>> \in cfg.edges
  <2>1. PICK e \in cfg.edges : e[1] \in LastParts /\ <<b, c>> = <<cfg.of[e[1]], cfg.of[e[2]]>>
    BY <1>1, <1>4 DEF EdgesKept
  <2>2. e = <<e[1], e[2]>> /\ e[1] \in DOMAIN cfg.code /\ e[2] \in DOMAIN cfg.code
    BY <1>1 DEF GraphShape
  <2>3. e[1] = b /\ e[2] = c
    BY <1>2, <2>1, <2>2
  <2> QED
    BY <2>2, <2>3
<1> QED
  BY <1>3, <1>4

\* What the analyzer asks about the loops of a nest is as it was as long as the
\* nest is whole.
LEMMA WholeLoop ==
  ASSUME WorkOK, GraphOK, Working, NEW t \in DOMAIN fn.loops, Whole(t), NEW L,
         L.blocks \subseteq fn.loops[t].blocks, L.header \in L.blocks
  PROVE  /\ LoopLatches(cfg.edges, L) = LoopLatches(fn.edges, L)
         /\ ExitingBlocks(cfg.edges, L) = ExitingBlocks(fn.edges, L)
         /\ Cardinality(Entering(cfg.edges, L)) = 1 <=> Cardinality(Entering(fn.edges, L)) = 1
<1>1. FunctionOK(fn) /\ GraphShape /\ Parts /\ EdgesKept /\ OneLast /\ LeadOn
  BY FunctionAtHand DEF WorkOK, GraphOK
<1>2. \A b \in L.blocks : Unsplit(b)
  BY <1>1 DEF Whole, Unsplit, FunctionOK, LoopOK
<1>3. LoopLatches(cfg.edges, L) = LoopLatches(fn.edges, L)
  BY <1>2, UnsplitEdges DEF LoopLatches
<1>4. \A b \in L.blocks : /\ b \in LastParts /\ cfg.of[b] = b
                          /\ \A q \in DOMAIN cfg.code : cfg.of[q] = b => q = b
  BY <1>2, UnsplitIs
<1>5. \A e \in cfg.edges : e[1] \in DOMAIN cfg.code /\ e[2] \in DOMAIN cfg.code /\ e = <<e[1], e[2]>>
  BY <1>1 DEF GraphShape
<1>6. \A e \in cfg.edges : e[1] \in LastParts => <<cfg.of[e[1]], cfg.of[e[2]]>> \in fn.edges
  BY <1>1 DEF EdgesKept
<1>7. \A x \in fn.edges : \E e \in cfg.edges :
         e[1] \in LastParts /\ x = <<cfg.of[e[1]], cfg.of[e[2]]>>
  BY <1>1 DEF EdgesKept
<1>8. \A p \in DOMAIN cfg.code : cfg.of[p] \in L.blocks <=> p \in L.blocks
  BY <1>4
<1>9. ExitingBlocks(cfg.edges, L) = ExitingBlocks(fn.edges, L)
  <2>1. ASSUME NEW b \in L.blocks, NEW e \in cfg.edges, e[1] = b, e[2] \notin L.blocks
        PROVE  \E x \in fn.edges : x[1] = b /\ x[2] \notin L.blocks
    <3>1. <<cfg.of[e[1]], cfg.of[e[2]]>> \in fn.edges
      BY <1>4, <1>6, <2>1
    <3>2. cfg.of[e[1]] = b /\ cfg.of[e[2]] \notin L.blocks
      BY <1>4, <1>5, <1>8, <2>1
    <3> QED
      BY <3>1, <3>2
  <2>2. ASSUME NEW b \in L.blocks, NEW x \in fn.edges, x[1] = b, x[2] \notin L.blocks
        PROVE  \E e \in cfg.edges : e[1] = b /\ e[2] \notin L.blocks
    <3>1. PICK e \in cfg.edges : x = <<cfg.of[e[1]], cfg.of[e[2]]>>
      BY <1>7
    <3>2. cfg.of[e[1]] = b /\ cfg.of[e[2]] \notin L.blocks
      BY <2>2, <3>1
    <3> QED
      BY <1>4, <1>5, <1>8, <3>2
  <2> QED
    BY <2>1, <2>2 DEF ExitingBlocks
<1> DEFINE now == Entering(cfg.edges, L)
           before == Entering(fn.edges, L)
<1>10. \A p \in now : p \in LastParts /\ cfg.of[p] \in before
  <2> SUFFICES ASSUME NEW p \in now PROVE p \in LastParts /\ cfg.of[p] \in before
    OBVIOUS
  <2>1. PICK e \in cfg.edges : e[1] = p /\ e[2] = L.header /\ p \notin L.blocks
    BY DEF Entering
  <2>2. p \in LastParts
    <3> SUFFICES ASSUME p \in DOMAIN cfg.rest PROVE FALSE
      BY <1>5, <2>1 DEF LastParts
    <3>1. e = <<p, cfg.rest[p]>>
      BY <1>1, <2>1 DEF LeadOn
    <3>2. cfg.rest[p] = L.header
      BY <2>1, <3>1
    <3>3. cfg.of[cfg.rest[p]] = cfg.of[p]
      BY <1>1 DEF LeadOn
    <3> QED
      BY <1>4, <1>5, <2>1, <3>2, <3>3
  <2>3. <<cfg.of[p], L.header>> \in fn.edges
    BY <1>4, <1>6, <2>1, <2>2
  <2>4. cfg.of[p] \notin L.blocks
    BY <1>5, <1>8, <2>1
  <2> QED
    BY <2>2, <2>3, <2>4 DEF Entering
<1>11. \A q \in before : \E p \in now : cfg.of[p] = q
  <2> SUFFICES ASSUME NEW q \in before PROVE \E p \in now : cfg.of[p] = q
    OBVIOUS
  <2>1. PICK x \in fn.edges : x[1] = q /\ x[2] = L.header /\ q \notin L.blocks
    BY DEF Entering
  <2>2. PICK e \in cfg.edges : x = <<cfg.of[e[1]], cfg.of[e[2]]>>
    BY <1>7
  <2>3. e[2] = L.header /\ e[1] \notin L.blocks /\ cfg.of[e[1]] = q
    BY <1>4, <1>5, <1>8, <2>1, <2>2
  <2> QED
    BY <2>3 DEF Entering
<1>12. \A p, q \in now : cfg.of[p] = cfg.of[q] => p = q
  <2> SUFFICES ASSUME NEW p \in now, NEW q \in now, cfg.of[p] = cfg.of[q] PROVE p = q
    OBVIOUS
  <2>1. p \in LastParts /\ q \in LastParts /\ cfg.of[p] \in DOMAIN fn.code
    BY <1>1, <1>10 DEF Parts, LastParts
  <2>2. PICK x \in LastParts : {y \in LastParts : cfg.of[y] = cfg.of[p]} = {x}
    BY <1>1, <2>1 DEF OneLast
  <2> QED
    BY <2>1, <2>2
<1>13. IsFiniteSet(now) /\ IsFiniteSet(before)
  <2>1. now \in SUBSET DOMAIN cfg.code /\ before \in SUBSET DOMAIN fn.code
    <3>1. before \subseteq DOMAIN fn.code
      BY <1>1 DEF Entering, FunctionOK
    <3> QED
      BY <1>5, <3>1 DEF Entering
  <2>2. IsFiniteSet(DOMAIN cfg.code) /\ IsFiniteSet(DOMAIN fn.code)
    BY <1>1 DEF Parts, FunctionOK
  <2> QED
    BY <2>1, <2>2, FS_Subset
<1>14. (\E x : now = {x}) <=> (\E x : before = {x})
  <2> HIDE DEF now, before
  <2>1. ASSUME NEW x, now = {x} PROVE \E y : before = {y}
    <3>1. before = {cfg.of[x]}
      BY <1>10, <1>11, <2>1
    <3> QED
      BY <3>1
  <2>2. ASSUME NEW y, before = {y} PROVE \E x : now = {x}
    <3>1. PICK x \in now : cfg.of[x] = y
      BY <1>11, <2>2
    <3>2. now = {x}
      BY <1>10, <1>12, <2>2, <3>1
    <3> QED
      BY <3>2
  <2> QED
    BY <2>1, <2>2
<1>15. Cardinality(now) = 1 <=> Cardinality(before) = 1
  <2> HIDE DEF now, before
  <2> QED
    BY <1>13, <1>14, FS_Singleton
<1> QED
  BY <1>3, <1>9, <1>15

Infos(f, edges, t) == [m \in NestOf(f.loops, t) |-> Info(f.loops, edges, m)]

LEMMA WholeInfos ==
  ASSUME WorkOK, GraphOK, Working, NEW t \in DOMAIN fn.loops, OuterLoops(fn.loops, t) = {},
         Whole(t)
  PROVE  Infos(fn, cfg.edges, t) = Infos(fn, fn.edges, t)
<1>1. FunctionOK(fn)
  BY FunctionAtHand DEF WorkOK
<1>2. ASSUME NEW m \in NestOf(fn.loops, t)
      PROVE  Info(fn.loops, cfg.edges, m) = Info(fn.loops, fn.edges, m)
  <2>1. PICK L : L = fn.loops[m]
    OBVIOUS
  <2>2. L.blocks \subseteq fn.loops[t].blocks /\ L.header \in L.blocks
    BY <1>1, <2>1, NestBlocks
  <2>3. /\ LoopLatches(cfg.edges, L) = LoopLatches(fn.edges, L)
        /\ Cardinality(Entering(cfg.edges, L)) = 1 <=> Cardinality(Entering(fn.edges, L)) = 1
    BY <2>2, WholeLoop
  <2>4. GetInductionVariable(cfg.edges, L) = GetInductionVariable(fn.edges, L)
    BY <2>3 DEF GetInductionVariable
  <2> QED
    BY <2>1, <2>4 DEF Info
<1> QED
  BY <1>2 DEF Infos

\* Either nothing has been analyzed, or all of a nest, which is that of the
\* current loop; and as it was before the first split, if there was none in it.
BoundsOK ==
  Working =>
    /\ lba = [top |-> lba.top, map |-> lba.map]
    /\ pc \in InLoop => lba.top = TopOf(fn.loops, loop)
    /\ \/ lba.top = 0 /\ lba.map = <<>>
       \/ /\ lba.top \in DOMAIN fn.loops /\ OuterLoops(fn.loops, lba.top) = {}
          /\ \E edges : lba.map = Infos(fn, edges, lba.top)
          /\ Whole(lba.top) => lba.map = Infos(fn, fn.edges, lba.top)

LEMMA BoundsInit == Init => BoundsOK
  BY DEF Init, BoundsOK, Working

LEMMA AnalyzeBounds == ASSUME WorkOK, GraphOK, BoundsOK, Analyze PROVE BoundsOK'
<1>1. /\ pc = "loops" /\ pc' = "select" /\ loop <= Len(fn.loops)
      /\ UNCHANGED <<program, worklist, loop, cfg>>
      /\ lba' = Analyzed(lba, fn.loops, cfg.edges, loop)
  BY DEF Analyze, cloner
<1>2. fn' = fn /\ Working
  BY <1>1 DEF fn, Working, Stopped
<1>3. FunctionOK(fn) /\ loop \in DOMAIN fn.loops
  <2>1. worklist # <<>> /\ loop \in Nat /\ loop # 0
    BY <1>1, <1>2 DEF WorkOK
  <2>2. FunctionOK(fn)
    BY <2>1, FunctionAtHand
  <2>3. PICK n \in Nat : DOMAIN fn.loops = 1 .. n /\ n = Len(fn.loops)
    BY <2>2, LoopsOf
  <2> QED
    BY <1>1, <2>1, <2>2, <2>3
<1>4. PICK t : t = TopOf(fn.loops, loop)
  OBVIOUS
<1>5. t \in DOMAIN fn.loops /\ OuterLoops(fn.loops, t) = {} /\ t # 0
  BY <1>3, <1>4, TopIs, LoopsOf
<1>6. Whole(t)' <=> Whole(t)
  BY <1>1, <1>2 DEF Whole
<1>7. CASE lba.top = t
  <2>1. lba' = lba
    BY <1>1, <1>4, <1>7 DEF Analyzed
  <2>2. /\ lba = [top |-> lba.top, map |-> lba.map]
        /\ \E edges : lba.map = Infos(fn, edges, t)
        /\ Whole(t) => lba.map = Infos(fn, fn.edges, t)
    BY <1>2, <1>5, <1>7 DEF BoundsOK
  <2> QED
    BY <1>1, <1>2, <1>4, <1>5, <1>6, <1>7, <2>1, <2>2 DEF BoundsOK
<1>8. CASE lba.top # t
  <2>1. lba' = [top |-> t, map |-> Infos(fn, cfg.edges, t)]
    BY <1>1, <1>4, <1>8 DEF Analyzed, Infos
  <2>2. lba'.top = t /\ lba'.map = Infos(fn, cfg.edges, t) /\ lba' = [top |-> lba'.top, map |-> lba'.map]
    BY <2>1
  <2>3. Whole(t) => lba'.map = Infos(fn, fn.edges, t)
    BY <1>2, <1>5, <2>2, WholeInfos
  <2> QED
    BY <1>1, <1>2, <1>4, <1>5, <1>6, <2>2, <2>3 DEF BoundsOK
<1> QED
  BY <1>7, <1>8

LEMMA BoundsKept == StateOK /\ BoundsOK /\ [Next]_vars => BoundsOK'
<1> SUFFICES ASSUME StateOK, BoundsOK, [Next]_vars PROVE BoundsOK'
  OBVIOUS
<1>1. WorkOK /\ RegionOK /\ GraphOK
  BY DEF StateOK
<1>2. CASE UNCHANGED <<program, worklist, cfg, lba>> /\ (Working' => Working)
           /\ (pc' \in InLoop => pc \in InLoop /\ loop' = loop)
  <2>1. fn' = fn
    BY <1>2 DEF fn
  <2>2. Whole(lba.top)' <=> Whole(lba.top)
    BY <1>2, <2>1 DEF Whole
  <2> QED
    BY <1>2, <2>1, <2>2 DEF BoundsOK
<1> USE DEF Working, Stopped, InLoop
<1>3. CASE Idle
  BY <1>2, <1>3 DEF Idle
<1>4. CASE TakeFunction
  <2>1. lba' = Unanalyzed /\ pc' = "loops"
    BY <1>4 DEF TakeFunction
  <2> QED
    BY <2>1 DEF Unanalyzed, BoundsOK
<1>5. CASE Analyze
  BY <1>1, <1>5, AnalyzeBounds
<1>6. CASE Select
  BY <1>2, <1>6 DEF Select, cloner
<1>7. CASE Sever
  <2>1. PICK b, n, back : Splits(b, n, back)
    <3>1. PICK b, n, back : b = region.header /\ n = Fresh /\ back = PredsOf(b) \cap region.now
      OBVIOUS
    <3> QED
      BY <1>1, <1>7, <3>1, SeverIs
  <2>2. /\ pc = "sever" /\ pc' = "copy" /\ fn' = fn /\ UNCHANGED <<loop, lba>>
        /\ b \in DOMAIN cfg.code /\ b \in region.now /\ b \in DOMAIN fn.code /\ n \notin DOMAIN cfg.code
        /\ b \in DOMAIN cfg'.rest /\ cfg'.of[b] = cfg.of[b]
    BY <2>1 DEF Splits
  <2>3. cfg.of[b] = b
    BY <1>1, <2>2 DEF GraphOK, Parts
  <2>4. loop \in DOMAIN fn.loops /\ FunctionOK(fn)
    BY <1>1, <2>2, FunctionAtHand DEF WorkOK
  <2>5. b \in fn.loops[loop].blocks
    BY <1>1, <2>2, RegionType DEF Chosen
  <2>6. lba.top = TopOf(fn.loops, loop) /\ lba.top \in DOMAIN fn.loops /\ lba.top # 0
    BY <2>2, <2>4, TopIs, LoopsOf DEF BoundsOK
  <2>7. b \in fn.loops[lba.top].blocks
    BY <2>4, <2>5, <2>6, TopIs
  <2>8. ~Whole(lba.top)'
    BY <2>2, <2>3, <2>7 DEF Whole
  <2> QED
    BY <2>2, <2>6, <2>8 DEF BoundsOK
<1>8. CASE Copy
  <2>1. pc = "copy"
    BY <1>8 DEF Copy
  <2> QED
    BY <1>2, <1>8, <2>1 DEF Copy, cloner
<1>9. CASE Describe \/ Fail
  BY <1>2, <1>9 DEF Describe, Fail
<1>10. CASE Report
  BY <1>10 DEF Report, BoundsOK
<1> QED
  BY <1>3, <1>4, <1>5, <1>6, <1>7, <1>8, <1>9, <1>10, NextIs

\* The analyzer answers for the nest of the loop as it would if it had just been
\* made: what it keeps from loop to loop, also across nests, does not show.
THEOREM BoundsStayFresh == Spec => []BoundsFresh
<1>1. StateOK /\ BoundsOK => BoundsFresh
  <2> SUFFICES ASSUME StateOK, BoundsOK, pc \in {"select", "prepare", "copy"}, NestWhole
               PROVE  lba = Analyzed(Unanalyzed, fn.loops, fn.edges, loop)
    BY DEF BoundsFresh
  <2>1. Working /\ pc \in InLoop
    BY DEF Working, Stopped, InLoop
  <2>2. loop \in DOMAIN fn.loops /\ FunctionOK(fn)
    BY <2>1, FunctionAtHand DEF StateOK, WorkOK
  <2>3. PICK t : t = TopOf(fn.loops, loop)
    OBVIOUS
  <2>4. t \in DOMAIN fn.loops /\ t # 0
    BY <2>2, <2>3, TopIs, LoopsOf
  <2>5. Whole(t)
    BY <2>3 DEF NestWhole, Whole
  <2>6. lba = [top |-> lba.top, map |-> lba.map] /\ lba.top = t /\ lba.map = Infos(fn, fn.edges, t)
    BY <2>1, <2>3, <2>4, <2>5 DEF BoundsOK
  <2>7. Analyzed(Unanalyzed, fn.loops, fn.edges, loop) = [top |-> t, map |-> Infos(fn, fn.edges, t)]
    BY <2>3, <2>4 DEF Analyzed, Unanalyzed, Infos
  <2> QED
    BY <2>6, <2>7
<1> QED
  BY <1>1, StateInit, BoundsInit, StateKept, BoundsKept, PTL DEF Spec

-----------------------------------------------------------------------------
\* In a whole nest the traversal gets to all blocks of the loop.
LEMMA WholeReached ==
  ASSUME WorkOK, GraphOK, pc \in InLoop, NestWhole
  PROVE  Reached(loop) = cur.blocks
<1>1. Working
  BY DEF Working, Stopped, InLoop
<1>2. loop \in DOMAIN fn.loops /\ FunctionOK(fn)
  BY <1>1, FunctionAtHand DEF WorkOK
<1>3. PICK B, h : B = fn.loops[loop].blocks /\ h = fn.loops[loop].header
  OBVIOUS
<1>4. Reached(loop) \in SUBSET B /\ h \in Reached(loop) /\ ClosedIn(B, cfg.edges, Reached(loop))
  BY <1>2, <1>3, ReachedIs
<1>5. \A b \in B : Unsplit(b)
  <2>1. B \subseteq fn.loops[TopOf(fn.loops, loop)].blocks /\ B \subseteq DOMAIN fn.code
    BY <1>2, <1>3, TopIs DEF FunctionOK, LoopOK
  <2> QED
    BY <2>1 DEF NestWhole, Unsplit
<1>6. \A b, c \in B : <<b, c>> \in fn.edges => <<b, c>> \in cfg.edges
  BY <1>1, <1>5, UnsplitEdges DEF WorkOK
<1>7. \A e \in fn.edges : e = <<e[1], e[2]>>
  BY <1>2 DEF FunctionOK
<1>8. \A e \in fn.edges : e[1] \in Reached(loop) /\ e[2] \in B => e[2] \in Reached(loop)
  BY <1>4, <1>6, <1>7 DEF ClosedIn
<1>9. LoopOK(fn, loop)
  BY <1>2 DEF FunctionOK
<1> QED
  BY <1>3, <1>4, <1>8, <1>9 DEF LoopOK, cur

\* Putting the blocks in order loses none in a nest that has not been changed.
THEOREM RegionsStayComplete == Spec => []RegionsComplete
<1>1. StateOK => RegionsComplete
  <2> SUFFICES ASSUME StateOK, pc = "calls", NestWhole, program.strategy # "itr"
               PROVE  region.now = Selected(region.blocks)
    BY DEF RegionsComplete
  <2>1. WorkOK /\ GraphOK /\ RegionOK /\ pc \in InLoop /\ Working
    BY DEF StateOK, InLoop, Working, Stopped
  <2>2. Reached(loop) = cur.blocks
    BY <2>1, WholeReached
  <2>3. cur.tree \subseteq cur.blocks
    BY <2>1, FunctionAtHand DEF WorkOK, FunctionOK, LoopOK, cur
  <2>4. program.strategy \in Strategies
    BY <2>1, ProgramAssumption DEF WorkOK
  <2>5. Selected(region.blocks) \subseteq cur.blocks
    BY <2>3, <2>4 DEF Selected, Strategies
  <2> QED
    BY <2>1, <2>2, <2>5 DEF RegionOK
<1> QED
  BY <1>1, StateInit, StateKept, PTL DEF Spec

-----------------------------------------------------------------------------
(* The records *)

Recordable(r) ==
  /\ r.loop \in Nat /\ r.cloned \in BOOLEAN
  /\ \A k \in DOMAIN r.specs : r.specs[k].direction \in Directions

RecordsOK ==
  /\ records \in Seq(Elems(records)) /\ results \in Seq(Elems(results))
  /\ written \in Seq(Elems(written))
  /\ \A i \in DOMAIN records : Recordable(records[i])
  /\ \A i \in DOMAIN results : results[i].cloned \in BOOLEAN
  /\ \A i \in DOMAIN written : written[i].number \in Nat

LEMMA RecordsInit == Init => RecordsOK
<1>1. <<>> \in Seq(Elems(<<>>)) /\ DOMAIN <<>> = {}
  OBVIOUS
<1> QED
  BY <1>1 DEF Init, RecordsOK

LEMMA SeqOfElems ==
  ASSUME NEW S, NEW s \in Seq(S)
  PROVE  s \in Seq(Elems(s))
<1>1. PICK E, n : E = Elems(s) /\ n = Len(s)
  OBVIOUS
<1>2. n \in Nat /\ DOMAIN s = 1 .. n /\ s = [i \in 1 .. n |-> s[i]]
  BY <1>1
<1>3. \A i \in 1 .. n : s[i] \in E
  BY <1>1, <1>2 DEF Elems
<1>4. s \in [1 .. n -> E]
  BY <1>2, <1>3
<1> QED
  BY <1>1, <1>2, <1>4

Lengthened(s, e, t) ==
  /\ t \in Seq(Elems(t)) /\ Elems(t) = Elems(s) \cup {e}
  /\ Len(s) \in Nat /\ DOMAIN s = 1 .. Len(s) /\ DOMAIN t = 1 .. Len(s) + 1 /\ Len(t) = Len(s) + 1
  /\ \A i \in DOMAIN s : t[i] = s[i]
  /\ t[Len(s) + 1] = e

LEMMA AppendKeeps ==
  ASSUME NEW s, s \in Seq(Elems(s)), NEW e, NEW t, t = Append(s, e)
  PROVE  Lengthened(s, e, t)
<1>1. PICK S : S = Elems(s)
  OBVIOUS
<1>2. s \in Seq(S)
  BY <1>1
<1>3. t \in Seq(S \cup {e}) /\ Elems(t) = S \cup {e}
  <2>1. Append(s, e) \in Seq(S \cup {e})
    BY ONLY <1>2
  <2>2. \A k \in DOMAIN t : t[k] \in S \cup {e}
    BY ONLY <2>1, t = Append(s, e)
  <2>3. e \in Elems(t)
    BY ONLY <1>2, t = Append(s, e) DEF Elems
  <2>4. ASSUME NEW x \in S PROVE x \in Elems(t)
    <3>1. PICK k \in DOMAIN s : s[k] = x
      BY <1>1 DEF Elems
    <3>2. k \in DOMAIN t /\ t[k] = s[k]
      BY ONLY <1>2, t = Append(s, e), k \in DOMAIN s
    <3> QED
      BY <3>1, <3>2 DEF Elems
  <2>5. Elems(t) \subseteq S \cup {e}
    BY ONLY <2>2 DEF Elems
  <2> QED
    BY <2>1, <2>3, <2>4, <2>5
<1>4. /\ Len(s) \in Nat /\ DOMAIN s = 1 .. Len(s) /\ DOMAIN t = 1 .. Len(s) + 1
      /\ Len(t) = Len(s) + 1
      /\ \A i \in DOMAIN s : t[i] = s[i]
      /\ t[Len(s) + 1] = e
  <2>1. s \in Seq(S \cup {e}) /\ e \in S \cup {e}
    BY <1>2
  <2> QED
    BY <2>1
<1> QED
  BY <1>1, <1>3, <1>4 DEF Lengthened

\* Steps that add at most one record and one result, of a loop.
LEMMA RecordedKept ==
  ASSUME RecordsOK, UNCHANGED written,
         results' = results \/ \E c \in BOOLEAN : results' = Append(results, Result(c)),
         records' = records \/ records' = <<>>
           \/ \E r : Recordable(r) /\ records' = Append(records, r)
  PROVE  RecordsOK'
<1>1. results' \in Seq(Elems(results')) /\ \A i \in DOMAIN results' : results'[i].cloned \in BOOLEAN
  <2>1. CASE results' = results
    BY <2>1 DEF RecordsOK
  <2>2. ASSUME NEW c \in BOOLEAN, results' = Append(results, Result(c))
        PROVE  /\ results' \in Seq(Elems(results'))
               /\ \A i \in DOMAIN results' : results'[i].cloned \in BOOLEAN
    <3>1. PICK e : e = Result(c)
      OBVIOUS
    <3>2. e.cloned = c
      BY <3>1 DEF Result
    <3>3. results \in Seq(Elems(results)) /\ \A i \in DOMAIN results : results[i].cloned \in BOOLEAN
      BY DEF RecordsOK
    <3>4. /\ results' \in Seq(Elems(results'))
          /\ Len(results) \in Nat /\ DOMAIN results = 1 .. Len(results)
          /\ DOMAIN results' = 1 .. Len(results) + 1
          /\ \A i \in DOMAIN results : results'[i] = results[i]
          /\ results'[Len(results) + 1] = e
      <4>1. PICK t : t = results'
        OBVIOUS
      <4>2. t = Append(results, e) /\ results \in Seq(Elems(results))
        BY <2>2, <3>1, <3>3, <4>1
      <4>3. Lengthened(results, e, t)
        BY <4>2, AppendKeeps
      <4> QED
        BY <4>1, <4>3 DEF Lengthened
    <3>5. ASSUME NEW i \in DOMAIN results' PROVE results'[i].cloned \in BOOLEAN
      <4>1. CASE i \in DOMAIN results
        BY <3>3, <3>4, <4>1
      <4>2. CASE i = Len(results) + 1
        BY <3>2, <3>4, <4>2
      <4> QED
        BY <3>4, <4>1, <4>2
    <3> QED
      BY <3>4, <3>5
  <2> QED
    BY <2>1, <2>2
<1>2. records' \in Seq(Elems(records')) /\ \A i \in DOMAIN records' : Recordable(records'[i])
  <2>1. CASE records' = records
    BY <2>1 DEF RecordsOK
  <2>2. CASE records' = <<>>
    BY <2>2
  <2>3. ASSUME NEW r, Recordable(r), records' = Append(records, r)
        PROVE  records' \in Seq(Elems(records')) /\ \A i \in DOMAIN records' : Recordable(records'[i])
    <3>1. records \in Seq(Elems(records)) /\ \A i \in DOMAIN records : Recordable(records[i])
      BY DEF RecordsOK
    <3>2. /\ records' \in Seq(Elems(records'))
          /\ Len(records) \in Nat /\ DOMAIN records = 1 .. Len(records)
          /\ DOMAIN records' = 1 .. Len(records) + 1
          /\ \A i \in DOMAIN records : records'[i] = records[i]
          /\ records'[Len(records) + 1] = r
      <4>1. PICK t : t = records'
        OBVIOUS
      <4>2. t = Append(records, r) /\ records \in Seq(Elems(records))
        BY <2>3, <3>1, <4>1
      <4>3. Lengthened(records, r, t)
        BY <4>2, AppendKeeps
      <4> QED
        BY <4>1, <4>3 DEF Lengthened
    <3>3. ASSUME NEW i \in DOMAIN records' PROVE Recordable(records'[i])
      <4>1. CASE i \in DOMAIN records
        BY <3>1, <3>2, <4>1
      <4>2. CASE i = Len(records) + 1
        BY <2>3, <3>2, <4>2
      <4> QED
        BY <3>2, <4>1, <4>2
    <3> QED
      BY <3>2, <3>3
  <2> QED
    BY <2>1, <2>2, <2>3
<1> QED
  BY <1>1, <1>2 DEF RecordsOK, Elems

LEMMA NumberType == ASSUME NEW k \in Nat PROVE Number(k) \in Nat
<1>1. PICK S : S = {i \in 1 .. k - 1 : records[i].cloned = records[k].cloned}
  OBVIOUS
<1>2. 1 \in Int /\ k - 1 \in Int
  OBVIOUS
<1>3. IsFiniteSet(1 .. k - 1)
  BY <1>2, FS_Interval
<1>4. S \in SUBSET (1 .. k - 1)
  BY <1>1
<1>5. Cardinality(S) \in Nat
  BY <1>3, <1>4, FS_Subset, FS_CardinalityType
<1> QED
  BY <1>1, <1>5 DEF Number

\* The concatenation of sequences.
LEMMA ConcatIs ==
  ASSUME NEW S, NEW s \in Seq(S), NEW T, NEW t \in Seq(T)
  PROVE  /\ s \o t \in Seq(S \cup T)
         /\ Len(s) \in Nat /\ Len(t) \in Nat /\ DOMAIN s = 1 .. Len(s) /\ DOMAIN t = 1 .. Len(t)
         /\ DOMAIN (s \o t) = 1 .. Len(s) + Len(t) /\ Len(s \o t) = Len(s) + Len(t)
         /\ \A i \in DOMAIN s : (s \o t)[i] = s[i]
         /\ \A i \in DOMAIN t : (s \o t)[Len(s) + i] = t[i]
<1>1. s \in Seq(S \cup T) /\ t \in Seq(S \cup T)
  OBVIOUS
<1> QED
  BY <1>1

LEMMA DescribeRecord ==
  ASSUME WorkOK, Describe
  PROVE  records' = records \/ \E r : Recordable(r) /\ records' = Append(records, r)
<1>1. loop \in Nat
  BY DEF WorkOK
<1>2. PICK answers : /\ answers = DirectionsOf(Passed, Len(PureInputs))
                     /\ Failures(answers) = {}
                     /\ records' = IF ~program.exportResults THEN records
                          ELSE Append(records, [loop |-> loop, cloned |-> TRUE,
                                                specs |-> SpecsOf(Passed, answers, Params)])
  BY DEF Describe
<1>3. DOMAIN answers = DOMAIN Passed
  BY <1>2 DEF DirectionsOf
<1>4. PICK r : r = [loop |-> loop, cloned |-> TRUE, specs |-> SpecsOf(Passed, answers, Params)]
  OBVIOUS
<1>5. PICK specs : specs = SpecsOf(Passed, answers, Params)
  OBVIOUS
<1>6. DOMAIN specs = DOMAIN Passed /\ \A k \in DOMAIN specs : specs[k].direction = answers[k]
  BY <1>5 DEF SpecsOf
<1>7. \A k \in DOMAIN specs : answers[k] \in Directions
  BY <1>2, <1>3, <1>6 DEF Failures
<1>8. r.loop = loop /\ r.cloned = TRUE /\ r.specs = specs
  BY <1>4, <1>5
<1>9. Recordable(r)
  BY <1>1, <1>6, <1>7, <1>8 DEF Recordable
<1> QED
  BY <1>2, <1>4, <1>9

LEMMA RecordsKept == WorkOK /\ RecordsOK /\ [Next]_vars => RecordsOK'
<1> SUFFICES ASSUME WorkOK, RecordsOK, [Next]_vars PROVE RecordsOK'
  OBVIOUS
<1>1. CASE Idle
  BY <1>1, RecordedKept DEF Idle
<1>2. CASE TakeFunction
  BY <1>2, RecordedKept DEF TakeFunction
<1>3. CASE Analyze \/ Select \/ Sever
  BY <1>3, RecordedKept DEF Analyze, Select, Sever, made
<1>4. CASE Copy
  BY <1>4, RecordedKept DEF Copy
<1>5. CASE Describe
  <2>1. UNCHANGED written /\ \E c \in BOOLEAN : results' = Append(results, Result(c))
    BY <1>5 DEF Describe, ResultOfClone
  <2> QED
    BY <1>5, <2>1, DescribeRecord, RecordedKept
<1>6. CASE Fail
  <2>1. UNCHANGED written /\ \E c \in BOOLEAN : results' = Append(results, Result(c))
    BY <1>6 DEF Fail
  <2>2. records' = records \/ \E r : Recordable(r) /\ records' = Append(records, r)
    <3>1. PICK r : r = [loop |-> loop, cloned |-> FALSE, specs |-> <<>>]
      OBVIOUS
    <3>2. r.loop = loop /\ r.cloned = FALSE /\ r.specs = <<>> /\ loop \in Nat
      BY <3>1 DEF WorkOK
    <3>3. DOMAIN r.specs = {}
      BY <3>2
    <3>4. Recordable(r)
      BY <3>2, <3>3 DEF Recordable
    <3> QED
      BY <1>6, <3>1, <3>4 DEF Fail
  <2> QED
    BY <2>1, <2>2, RecordedKept
<1>7. CASE Report
  <2>1. PICK t : t = [k \in DOMAIN records |->
                        [fn |-> Len(worklist), cloned |-> records[k].cloned, number |-> Number(k),
                         loop |-> records[k].loop]]
    OBVIOUS
  <2>2. written' = written \o t /\ UNCHANGED <<results, records>>
    BY <1>7, <2>1 DEF Report
  <2>3. PICK n \in Nat : DOMAIN records = 1 .. n
    BY DEF RecordsOK
  <2>4. DOMAIN t = 1 .. n /\ \A k \in 1 .. n : t[k].number \in Nat
    BY <2>1, <2>3, NumberType
  <2>5. t \in Seq(Elems(t))
    <3>1. t = [k \in 1 .. n |-> t[k]]
      BY <2>1, <2>3
    <3>2. PICK T : T = Elems(t)
      OBVIOUS
    <3>3. \A k \in 1 .. n : t[k] \in T
      BY <2>4, <3>2 DEF Elems
    <3>4. t \in [1 .. n -> T]
      BY <3>1, <3>3
    <3> QED
      BY <3>2, <3>4
  <2>6. written \in Seq(Elems(written)) /\ \A i \in DOMAIN written : written[i].number \in Nat
    BY DEF RecordsOK
  <2>7. PICK S, T : S = Elems(written) /\ T = Elems(t)
    OBVIOUS
  <2>8. /\ written' \in Seq(S \cup T)
        /\ Len(written) \in Nat /\ Len(t) \in Nat /\ DOMAIN written = 1 .. Len(written) /\ DOMAIN t = 1 .. Len(t)
        /\ DOMAIN written' = 1 .. Len(written) + Len(t)
        /\ \A i \in DOMAIN written : written'[i] = written[i]
        /\ \A i \in DOMAIN t : written'[Len(written) + i] = t[i]
    BY <2>2, <2>5, <2>6, <2>7, ConcatIs
  <2>9. \A i \in DOMAIN written' : written'[i].number \in Nat
    <3> SUFFICES ASSUME NEW i \in DOMAIN written' PROVE written'[i].number \in Nat
      OBVIOUS
    <3>1. CASE i \in DOMAIN written
      BY <2>6, <2>8, <3>1
    <3>2. CASE i \notin DOMAIN written
      <4>1. i - Len(written) \in DOMAIN t /\ i = Len(written) + (i - Len(written))
        BY <2>8, <3>2
      <4>2. PICK k \in DOMAIN t : i = Len(written) + k
        BY <4>1
      <4> QED
        BY <2>4, <2>8, <4>2
    <3> QED
      BY <3>1, <3>2
  <2>10. written' \in Seq(Elems(written'))
    BY <2>8, SeqOfElems
  <2> QED
    BY <2>2, <2>9, <2>10 DEF RecordsOK, Elems, Recordable
<1> QED
  BY <1>1, <1>2, <1>3, <1>4, <1>5, <1>6, <1>7, NextIs

\* The loop, its nest and its region are of the function at hand; what is
\* recorded of a loop is complete.
THEOREM CloningTypes == Spec => []CloningTypeOK
<1>1. StateOK /\ BoundsOK /\ RecordsOK => CloningTypeOK
  <2> SUFFICES ASSUME StateOK, BoundsOK, RecordsOK PROVE CloningTypeOK
    OBVIOUS
  <2>1. WorkOK /\ RegionOK /\ GraphOK
    BY DEF StateOK
  <2>2. Elems(worklist) \subseteq 1 .. Len(program.functions)
    <3>1. DOMAIN program.functions = 1 .. Len(program.functions)
      BY <2>1, ProgramOf DEF WorkOK
    <3>2. PICK S : S = DOMAIN program.functions
      OBVIOUS
    <3>3. worklist \in Seq(S)
      BY <2>1, <3>2 DEF WorkOK
    <3>4. Elems(worklist) \subseteq S
      BY <3>3 DEF Elems
    <3> QED
      BY <3>1, <3>2, <3>4
  <2>3. pc \in InLoop =>
          loop \in DOMAIN fn.loops /\ lba.top \in DOMAIN fn.loops /\ DOMAIN lba.map \subseteq DOMAIN fn.loops
    <3> SUFFICES ASSUME pc \in InLoop
                 PROVE  /\ loop \in DOMAIN fn.loops /\ lba.top \in DOMAIN fn.loops
                        /\ DOMAIN lba.map \subseteq DOMAIN fn.loops
      OBVIOUS
    <3>1. Working
      BY DEF Working, Stopped, InLoop
    <3>2. loop \in DOMAIN fn.loops /\ FunctionOK(fn)
      BY <2>1, <3>1, FunctionAtHand DEF WorkOK
    <3>3. lba.top \in DOMAIN fn.loops /\ lba.top # 0
      BY <3>1, <3>2, TopIs, LoopsOf DEF BoundsOK
    <3>4. PICK edges : lba.map = Infos(fn, edges, lba.top)
      BY <3>1, <3>3 DEF BoundsOK
    <3>5. DOMAIN lba.map = NestOf(fn.loops, lba.top)
      BY <3>4 DEF Infos
    <3> QED
      BY <3>2, <3>3, <3>5 DEF NestOf
  <2>4. pc \in {"check", "sever", "copy", "specs"} =>
          /\ region.now \subseteq DOMAIN cfg.code
          /\ region.header \in region.now \/ region.blocks = <<>>
    <3>1. ASSUME pc \in {"check", "sever"}
          PROVE  /\ region.now \subseteq DOMAIN cfg.code
                 /\ region.header \in region.now \/ region.blocks = <<>>
      <4>1. Parts
        BY <2>1, <3>1 DEF GraphOK, Working, Stopped
      <4>2. pc \in Chosen
        BY <3>1 DEF Chosen
      <4> QED
        BY <2>1, <4>1, <4>2, RegionType DEF Parts
    <3> QED
      BY <2>1, <3>1 DEF RegionOK
  <2>5. \A i \in DOMAIN records : /\ records[i].loop \in Nat /\ records[i].cloned \in BOOLEAN
                                  /\ \A k \in DOMAIN records[i].specs :
                                       records[i].specs[k].direction \in Directions
    BY DEF RecordsOK, Recordable
  <2> QED
    BY <2>1, <2>2, <2>3, <2>4, <2>5
    DEF CloningTypeOK, GraphOK, GraphShape, WorkOK, RecordsOK, InLoop, Stopped
<1> QED
  BY <1>1, StateInit, BoundsInit, RecordsInit, StateKept, BoundsKept, RecordsKept, PTL DEF Spec, StateOK

-----------------------------------------------------------------------------
(* The arguments of a clone and their specifications *)

\* Names are not empty and tell inputs and outputs apart.
Apart(ins, outs) ==
  /\ ins \in Seq(Elems(ins)) /\ outs \in Seq(Elems(outs))
  /\ \A i \in DOMAIN ins : ins[i].name # "" /\ ins[i].form \in Forms
  /\ \A i \in DOMAIN outs : outs[i].name # "" /\ outs[i].form \in Forms
  /\ \A i, k \in DOMAIN ins : ins[i].name = ins[k].name => i = k
  /\ \A i \in DOMAIN ins, k \in DOMAIN outs : ins[i].name # outs[k].name

LEMMA ValuesApart == ASSUME NEW L, ValuesOK(L) PROVE Apart(L.inputs, L.outputs)
<1>1. PICK ins, outs : ins = L.inputs /\ outs = L.outputs
  OBVIOUS
<1>2. PICK all : all = ins \o outs
  OBVIOUS
<1>3. ins \in Seq(Elems(ins)) /\ outs \in Seq(Elems(outs))
  BY <1>1 DEF ValuesOK, IsSeq
<1>4. PICK S, T : ins \in Seq(S) /\ outs \in Seq(T)
  BY <1>3
<1>5. PICK n, m : n = Len(ins) /\ m = Len(outs)
  OBVIOUS
<1>6. /\ n \in Nat /\ m \in Nat /\ DOMAIN ins = 1 .. n /\ DOMAIN outs = 1 .. m
      /\ DOMAIN all = 1 .. n + m
      /\ \A i \in 1 .. n : all[i] = ins[i]
      /\ \A i \in 1 .. m : all[n + i] = outs[i]
  BY <1>2, <1>4, <1>5, ConcatIs
<1>7. /\ \A i \in DOMAIN all : all[i].name # "" /\ all[i].form \in Forms
      /\ \A i, k \in DOMAIN all : all[i].name = all[k].name => i = k
  BY <1>1, <1>2 DEF ValuesOK
<1>8. \A i \in 1 .. m : n + i \in 1 .. n + m /\ n + i \notin 1 .. n
  BY <1>6
<1>9. \A i \in 1 .. n : i \in 1 .. n + m
  BY <1>6
<1>10. ASSUME NEW i \in DOMAIN ins, NEW k \in DOMAIN outs PROVE ins[i].name # outs[k].name
  <2>1. all[i] = ins[i] /\ all[n + k] = outs[k] /\ i # n + k
    BY <1>6, <1>8
  <2> QED
    BY <1>6, <1>7, <1>8, <1>9, <2>1
<1>11. \A i \in DOMAIN ins : all[i] = ins[i] /\ i \in DOMAIN all
  BY <1>6, <1>9
<1>12. \A i \in DOMAIN outs : all[n + i] = outs[i] /\ n + i \in DOMAIN all
  BY <1>6, <1>8
<1>13. \A i \in DOMAIN ins : ins[i].name # "" /\ ins[i].form \in Forms
  BY <1>7, <1>11
<1>14. \A i \in DOMAIN outs : outs[i].name # "" /\ outs[i].form \in Forms
  BY <1>7, <1>12
<1>15. \A i, k \in DOMAIN ins : ins[i].name = ins[k].name => i = k
  BY <1>7, <1>11
<1> QED
  BY <1>1, <1>3, <1>10, <1>13, <1>14, <1>15 DEF Apart

LEMMA InputsApart ==
  ASSUME WorkOK, pc \in InLoop
  PROVE  Apart(Inputs, Outputs)
<1>1. Working
  BY DEF Working, Stopped, InLoop
<1>2. ValuesOK(cur)
  BY <1>1, FunctionAtHand DEF WorkOK, FunctionOK, cur
<1>3. CASE Eligible
  BY <1>2, <1>3, ValuesApart DEF Inputs, Outputs
<1>4. CASE ~Eligible
  <2>1. Apart(<<>>, <<>>)
    <3>1. DOMAIN <<>> = {} /\ <<>> \in Seq(Elems(<<>>))
      OBVIOUS
    <3> QED
      BY <3>1 DEF Apart
  <2> QED
    BY <1>4, <2>1 DEF Inputs, Outputs
<1> QED
  BY <1>3, <1>4

\* What is passed are inputs that are not local variables, then the outputs.
PassedOK ==
  /\ PureInputs \in Seq(Elems(PureInputs)) /\ Passed \in Seq(Elems(Passed))
  /\ \A i \in DOMAIN PureInputs : \E k \in DOMAIN Inputs :
       /\ ~Inputs[k].carried /\ ~Allocated(Inputs[k]) /\ PureInputs[i] = Inputs[k]
  /\ \A i \in DOMAIN PureInputs : i \in DOMAIN Passed /\ Passed[i] = PureInputs[i]
  /\ DOMAIN PureInputs = 1 .. Len(PureInputs) /\ Len(PureInputs) \in Nat
  /\ \A i \in DOMAIN Passed :
       \/ i \in DOMAIN PureInputs
       \/ i > Len(PureInputs) /\ \E k \in DOMAIN Outputs : Passed[i] = Outputs[k]

LEMMA PassedIs == ASSUME WorkOK, pc \in InLoop PROVE PassedOK
<1>1. Apart(Inputs, Outputs)
  BY InputsApart
<1>2. PICK ins, outs, pure, all :
        ins = Inputs /\ outs = Outputs /\ pure = PureInputs /\ all = Passed
  OBVIOUS
<1>3. PICK S, T : ins \in Seq(S) /\ outs \in Seq(T)
  BY <1>1, <1>2 DEF Apart
<1>4. PICK P : P = {i \in DOMAIN ins : ~ins[i].carried /\ ~Allocated(ins[i])}
  OBVIOUS
<1>5. pure = Kept(ins, P)
  BY <1>2, <1>4 DEF PureInputs
<1>6. P \in SUBSET DOMAIN ins
  BY <1>4
<1>7. pure \in Seq(S) /\ \A n \in DOMAIN pure : \E p \in P : pure[n] = ins[p]
  BY <1>3, <1>5, <1>6, KeptElements
<1>8. PICK n, m : n = Len(pure) /\ m = Len(outs)
  OBVIOUS
<1>9. all = pure \o outs
  BY <1>2 DEF Passed
<1>10. /\ all \in Seq(S \cup T)
       /\ n \in Nat /\ m \in Nat /\ DOMAIN pure = 1 .. n /\ DOMAIN outs = 1 .. m
       /\ DOMAIN all = 1 .. n + m
       /\ \A i \in 1 .. n : all[i] = pure[i]
       /\ \A i \in 1 .. m : all[n + i] = outs[i]
  BY <1>3, <1>7, <1>8, <1>9, ConcatIs
<1>11. pure \in Seq(Elems(pure)) /\ all \in Seq(Elems(all))
  BY <1>7, <1>10, SeqOfElems
<1>12. \A i \in DOMAIN pure : \E k \in DOMAIN ins :
         ~ins[k].carried /\ ~Allocated(ins[k]) /\ pure[i] = ins[k]
  BY <1>4, <1>7
<1>13. \A i \in DOMAIN pure : i \in DOMAIN all /\ all[i] = pure[i]
  BY <1>10
<1>14. ASSUME NEW i \in DOMAIN all, i \notin DOMAIN pure
       PROVE  i > n /\ \E k \in DOMAIN outs : all[i] = outs[k]
  <2>1. i > n /\ i - n \in 1 .. m /\ i = n + (i - n)
    BY <1>10, <1>14
  <2>2. PICK k \in 1 .. m : i = n + k
    BY <2>1
  <2> QED
    BY <1>10, <2>1, <2>2
<1> QED
  BY <1>2, <1>8, <1>10, <1>11, <1>12, <1>13, <1>14 DEF PassedOK

LEMMA SingleIs ==
  ASSUME NEW e, NEW s, s = <<e>>
  PROVE  /\ Len(s) = 1 /\ DOMAIN s = 1 .. 1 /\ s = [i \in 1 .. 1 |-> s[i]]
         /\ \A i \in DOMAIN s : s[i] = e
<1>1. s \in Seq({e}) /\ Len(s) = 1 /\ s[1] = e
  OBVIOUS
<1>2. DOMAIN s = 1 .. 1 /\ s \in [1 .. 1 -> {e}]
  BY <1>1
<1> QED
  BY <1>1, <1>2

\* A name that is an argument is that of a value that is passed.
LEMMA ParamsAre ==
  ASSUME WorkOK, pc \in InLoop
  PROVE  /\ Params = <<"">> \/ Params = Names(Passed)
         /\ \A x \in Locals : x.of.name \notin Elems(Params)
<1>1. Apart(Inputs, Outputs) /\ PassedOK
  BY InputsApart, PassedIs
<1>2. Params = <<"">> \/ Params = Names(Passed)
  BY DEF Params
<1>3. ASSUME NEW x \in Locals PROVE \E k \in DOMAIN Inputs : x.of = Inputs[k] /\ Allocated(Inputs[k])
  <2>1. x.of \in Elems(Inputs) /\ Allocated(x.of)
    BY <1>3 DEF Locals, Allocated
  <2> QED
    BY <2>1 DEF Elems
<1>4. ASSUME NEW x \in Locals, NEW i \in DOMAIN Passed PROVE x.of.name # Passed[i].name
  <2>1. PICK k \in DOMAIN Inputs : x.of = Inputs[k] /\ Allocated(Inputs[k])
    BY <1>3
  <2>2. CASE i \in DOMAIN PureInputs
    <3>1. PICK j \in DOMAIN Inputs : ~Allocated(Inputs[j]) /\ Passed[i] = Inputs[j]
      BY <1>1, <2>2 DEF PassedOK
    <3>2. j # k
      BY <2>1, <3>1
    <3> QED
      BY <1>1, <2>1, <3>1, <3>2 DEF Apart
  <2>3. CASE i \notin DOMAIN PureInputs
    <3>1. PICK j \in DOMAIN Outputs : Passed[i] = Outputs[j]
      BY <1>1, <2>3 DEF PassedOK
    <3> QED
      BY <1>1, <2>1, <3>1 DEF Apart
  <2> QED
    BY <2>2, <2>3
<1>5. ASSUME NEW x \in Locals PROVE x.of.name \notin Elems(Params)
  <2>1. x.of.name # ""
    BY <1>1, <1>3 DEF Apart
  <2>2. CASE Params = <<"">>
    <3>1. \A i \in DOMAIN Params : Params[i] = ""
      BY <2>2, SingleIs
    <3> QED
      BY <2>1, <3>1 DEF Elems
  <2>3. CASE Params = Names(Passed)
    <3>1. \A y \in Elems(Params) : \E i \in DOMAIN Passed : y = Passed[i].name
      BY <2>3 DEF Elems, Names
    <3> QED
      BY <1>4, <3>1
  <2> QED
    BY <1>2, <2>2, <2>3
<1> QED
  BY <1>2, <1>5

\* The clone made last is that of the current loop until it has been described.
LastClone ==
  pc = "specs" => \E c :
    /\ clones # <<>> /\ clones[Len(clones)] = c
    /\ c.fn = Len(worklist) /\ c.loop = loop /\ c.params = Params
    /\ \A x \in c.locals : x.of.name \notin Elems(c.params)

SpecsOK == clones \in Seq(Elems(clones)) /\ LastClone /\ SpecPerParameter

LEMMA SpecsInit == Init => SpecsOK
<1>1. <<>> \in Seq(Elems(<<>>))
  OBVIOUS
<1> QED
  BY <1>1 DEF Init, SpecsOK, LastClone, SpecPerParameter, Working

LEMMA SameParams ==
  ASSUME UNCHANGED <<program, worklist, cfg, lba, loop, region>>
  PROVE  Params' = Params
<1>1. fn' = fn /\ cur' = cur
  BY DEF fn, cur
<1>2. Inputs' = Inputs /\ Outputs' = Outputs
  BY <1>1 DEF Inputs, Outputs, Eligible
<1>3. \A c : Found(c)' <=> Found(c)
  BY <1>1 DEF Found
<1>4. \A v : Allocated(v)' <=> Allocated(v)
  BY <1>1, <1>3 DEF Allocated, IsOuter, IsInner, OnlyInConditions
<1>5. PICK P : P = {i \in DOMAIN Inputs : ~Inputs[i].carried /\ ~Allocated(Inputs[i])}
  OBVIOUS
<1>6. P = {i \in DOMAIN Inputs : ~Inputs[i].carried /\ ~Allocated(Inputs[i])}'
  BY <1>2, <1>4, <1>5
<1>7. PureInputs = Kept(Inputs, P)
  BY <1>5 DEF PureInputs
<1>8. PureInputs' = Kept(Inputs, P)
  BY <1>2, <1>6 DEF PureInputs
<1>9. Passed' = Passed
  BY <1>2, <1>7, <1>8 DEF Passed
<1> QED
  BY <1>9 DEF Params

\* A record of a clone stays right when there are more clones.
Fits(r) ==
  r.cloned => \E k \in DOMAIN clones :
    /\ clones[k].fn = Len(worklist) /\ clones[k].loop = r.loop
    /\ clones[k].params = Names(r.specs)
    /\ \A local \in clones[k].locals : local.of.name \notin Elems(clones[k].params)

LEMMA DescribedFits ==
  ASSUME WorkOK, SpecsOK, Describe
  PROVE  records' = records \/ \E r : Fits(r) /\ records' = Append(records, r)
<1>1. pc = "specs" /\ pc \in InLoop
  BY DEF Describe, InLoop
<1>2. PICK answers :
        /\ program.exportResults => Len(Params) = Len(Passed)
        /\ records' = IF ~program.exportResults THEN records
             ELSE Append(records, [loop |-> loop, cloned |-> TRUE,
                                   specs |-> SpecsOf(Passed, answers, Params)])
  BY DEF Describe
<1>3. PICK r : r = [loop |-> loop, cloned |-> TRUE, specs |-> SpecsOf(Passed, answers, Params)]
  OBVIOUS
<1>4. PICK specs, params, passed :
        specs = SpecsOf(Passed, answers, Params) /\ params = Params /\ passed = Passed
  OBVIOUS
<1>5. r.loop = loop /\ r.cloned = TRUE /\ r.specs = specs
  BY <1>3, <1>4
<1>6. DOMAIN specs = DOMAIN passed /\ \A i \in DOMAIN passed : specs[i].name = params[i]
  BY <1>4 DEF SpecsOf
<1>7. ASSUME Len(params) = Len(passed) PROVE Names(specs) = params
  <2>1. passed \in Seq(Elems(passed))
    BY <1>1, <1>4, PassedIs DEF PassedOK
  <2>2. PICK n \in Nat : n = Len(passed) /\ DOMAIN passed = 1 .. n
    BY <2>1
  <2>3. params = [i \in 1 .. n |-> params[i]]
    <3>1. CASE params = <<"">>
      <4>1. Len(params) = 1 /\ params = [i \in 1 .. 1 |-> params[i]]
        BY <3>1, SingleIs
      <4> QED
        BY <1>7, <2>2, <4>1
    <3>2. CASE params = Names(passed)
      BY <2>2, <3>2 DEF Names
    <3> QED
      BY <1>1, <1>4, <3>1, <3>2, ParamsAre
  <2>4. Names(specs) = [i \in 1 .. n |-> params[i]]
    BY <1>6, <2>2 DEF Names
  <2> QED
    BY <2>3, <2>4
<1>8. PICK c : /\ clones # <<>> /\ clones[Len(clones)] = c
               /\ c.fn = Len(worklist) /\ c.loop = loop /\ c.params = Params
               /\ \A x \in c.locals : x.of.name \notin Elems(c.params)
  BY <1>1 DEF SpecsOK, LastClone
<1>9. Len(clones) \in DOMAIN clones
  <2>1. PICK S : clones \in Seq(S)
    BY DEF SpecsOK
  <2> QED
    BY <1>8, <2>1
<1>10. program.exportResults => Fits(r)
  BY <1>2, <1>4, <1>5, <1>7, <1>8, <1>9 DEF Fits
<1> QED
  BY <1>2, <1>3, <1>10

AllFit == \A i \in DOMAIN records : Fits(records[i])

\* Records of clones that are there go on fitting.
LEMMA FittingKept ==
  ASSUME records \in Seq(Elems(records)), UNCHANGED worklist,
         \A k \in DOMAIN clones : k \in DOMAIN clones' /\ clones'[k] = clones[k],
         AllFit,
         records' = records \/ \E r : Fits(r) /\ records' = Append(records, r)
  PROVE  AllFit'
<1>1. \A r : Fits(r) => Fits(r)'
  BY DEF Fits
<1>2. \A i \in DOMAIN records' : Fits(records'[i])
  <2>1. CASE records' = records
    BY <2>1 DEF AllFit
  <2>2. ASSUME NEW r, Fits(r), records' = Append(records, r)
        PROVE  \A i \in DOMAIN records' : Fits(records'[i])
    <3>1. Lengthened(records, r, records')
      BY <2>2, AppendKeeps
    <3> SUFFICES ASSUME NEW i \in DOMAIN records' PROVE Fits(records'[i])
      OBVIOUS
    <3>2. CASE i \in DOMAIN records
      BY <3>1, <3>2 DEF Lengthened, AllFit
    <3>3. CASE i = Len(records) + 1
      BY <2>2, <3>1, <3>3 DEF Lengthened
    <3> QED
      BY <3>1, <3>2, <3>3 DEF Lengthened
  <2> QED
    BY <2>1, <2>2
<1>3. PICK next : next = records'
  OBVIOUS
<1>4. \A i \in DOMAIN next : Fits(next[i])'
  BY <1>1, <1>2, <1>3
<1> QED
  BY <1>3, <1>4 DEF AllFit

LEMMA SpecsKept == WorkOK /\ RecordsOK /\ SpecsOK /\ [Next]_vars => SpecsOK'
<1> SUFFICES ASSUME WorkOK, RecordsOK, SpecsOK, [Next]_vars PROVE SpecsOK'
  OBVIOUS
<1>1. clones \in Seq(Elems(clones)) /\ records \in Seq(Elems(records))
  BY DEF SpecsOK, RecordsOK
<1>2. Working => AllFit
  BY DEF SpecsOK, SpecPerParameter, AllFit, Fits
<1>3. ASSUME Working' => AllFit' PROVE SpecPerParameter'
  BY <1>3 DEF SpecPerParameter, AllFit, Fits
<1>4. ASSUME UNCHANGED <<worklist, clones>>, Working' => Working,
             records' = records \/ \E r : Fits(r) /\ records' = Append(records, r)
      PROVE  SpecPerParameter'
  <2>1. Working' => AllFit'
    BY <1>1, <1>2, <1>4, FittingKept
  <2> QED
    BY <1>3, <2>1
<1>5. clones' = clones => clones' \in Seq(Elems(clones'))
  BY <1>1
<1> USE DEF Working, Stopped
<1>6. CASE Idle
  <2>1. Params' = Params
    BY <1>6, SameParams DEF Idle
  <2>2. LastClone'
    BY <1>6, <2>1 DEF Idle, SpecsOK, LastClone
  <2>3. UNCHANGED <<worklist, clones, records>> /\ (Working' => Working)
    BY <1>6 DEF Idle
  <2>4. SpecPerParameter'
    BY <1>4, <2>3
  <2> QED
    BY <1>5, <2>2, <2>3, <2>4 DEF SpecsOK, Elems
<1>7. CASE TakeFunction
  <2>1. records' = <<>> /\ clones' = clones /\ pc' = "loops"
    BY <1>7 DEF TakeFunction
  <2>2. DOMAIN records' = {}
    BY <2>1
  <2> QED
    BY <1>5, <2>1, <2>2 DEF SpecsOK, LastClone, SpecPerParameter, Elems
<1>8. CASE Analyze \/ Select \/ Sever
  <2>1. UNCHANGED <<worklist, clones, records>> /\ (Working' => Working) /\ pc' # "specs"
    BY <1>8 DEF Analyze, Select, Sever, cloner, made
  <2>2. SpecPerParameter'
    BY <1>4, <2>1
  <2> QED
    BY <1>5, <2>1, <2>2 DEF SpecsOK, LastClone, Elems
<1>9. CASE Copy
  <2>1. /\ pc = "copy" /\ clones' = Append(clones, Clone)
        /\ UNCHANGED <<program, worklist, cfg, lba, loop, region, records>>
    BY <1>9 DEF Copy, cloner
  <2>2. PICK c : c = Clone
    OBVIOUS
  <2>3. c.fn = Len(worklist) /\ c.loop = loop /\ c.params = Params /\ c.locals = Locals
    BY <2>2 DEF Clone
  <2>4. \A x \in c.locals : x.of.name \notin Elems(c.params)
    BY <2>1, <2>3, ParamsAre DEF InLoop
  <2>5. Lengthened(clones, c, clones')
    BY <1>1, <2>1, <2>2, AppendKeeps
  <2>6. clones' # <<>> /\ clones'[Len(clones')] = c /\ clones' \in Seq(Elems(clones'))
    BY <2>5 DEF Lengthened
  <2>7. Params' = Params
    BY <2>1, SameParams
  <2>8. LastClone'
    BY <2>1, <2>3, <2>4, <2>6, <2>7 DEF LastClone, Elems
  <2>9. \A k \in DOMAIN clones : k \in DOMAIN clones' /\ clones'[k] = clones[k]
    BY <2>5 DEF Lengthened
  <2>10. AllFit'
    BY <1>1, <1>2, <2>1, <2>9, FittingKept
  <2> QED
    BY <1>3, <2>6, <2>8, <2>10 DEF SpecsOK, Elems
<1>10. CASE Describe
  <2>1. UNCHANGED <<worklist, clones>> /\ pc = "specs" /\ pc' = "loops"
    BY <1>10 DEF Describe
  <2>2. SpecPerParameter'
    BY <1>4, <1>10, <2>1, DescribedFits
  <2> QED
    BY <1>5, <2>1, <2>2 DEF SpecsOK, LastClone, Elems
<1>11. CASE Fail
  <2>1. UNCHANGED <<worklist, clones>> /\ pc = "fail" /\ pc' = "loops"
    BY <1>11 DEF Fail
  <2>2. PICK r : r = [loop |-> loop, cloned |-> FALSE, specs |-> <<>>]
    OBVIOUS
  <2>3. records' = records \/ records' = Append(records, r)
    BY <1>11, <2>2 DEF Fail
  <2>4. Fits(r)
    BY <2>2 DEF Fits
  <2>5. SpecPerParameter'
    BY <1>4, <2>1, <2>3, <2>4
  <2> QED
    BY <1>5, <2>1, <2>5 DEF SpecsOK, LastClone, Elems
<1>12. CASE Report
  BY <1>5, <1>12 DEF Report, SpecsOK, LastClone, SpecPerParameter, Elems
<1> QED
  BY <1>6, <1>7, <1>8, <1>9, <1>10, <1>11, <1>12, NextIs

\* Whatever the inputs and outputs and however they are passed: a reader of the
\* report finds one specification for each argument of the clone, in their order.
THEOREM SpecsAreOfParameters == Spec => []SpecPerParameter
<1>1. SpecsOK => SpecPerParameter
  BY DEF SpecsOK
<1> QED
  BY <1>1, WorkInit, RecordsInit, SpecsInit, WorkKept, RecordsKept, SpecsKept, PTL DEF Spec

-----------------------------------------------------------------------------
(* The directions of arguments *)

Flat(seqs, f) == f = [i \in 1 .. Len(seqs) |-> IF i = 1 THEN seqs[i] ELSE f[i - 1] \o seqs[i]]

LEMMA FlattenType ==
  ASSUME NEW S, NEW D, D = Seq(S), NEW seqs, seqs \in Seq(D)
  PROVE  FlattenSeq(seqs) \in D
<1>1. D = Seq(S)
  OBVIOUS
<1>2. PICK l \in Nat : l = Len(seqs) /\ DOMAIN seqs = 1 .. l /\ \A i \in 1 .. l : seqs[i] \in D
  BY <1>1
<1>3. CASE l = 0
  <2>1. seqs = <<>>
    BY <1>2, <1>3
  <2>2. FlattenSeq(seqs) = seqs
    BY <1>2, <1>3 DEF FlattenSeq
  <2>3. <<>> \in Seq(S)
    OBVIOUS
  <2> QED
    BY ONLY <1>1, <2>1, <2>2, <2>3
<1>4. CASE l # 0
  <2>1. PICK N \in Nat : N = l - 1
    BY <1>4
  <2>2. PICK W : W = [z \in Nat \X D |-> IF z[1] + 1 \in 1 .. l THEN z[2] \o seqs[z[1] + 1] ELSE z[2]]
    OBVIOUS
  <2>3. \A x, y \in D : x \o y \in D
    BY <1>1
  <2>4. W \in [Nat \X D -> D]
    BY <1>2, <2>2, <2>3
  <2>5. seqs[1] \in D
    BY <1>2, <1>4
  <2>6. PICK w : Steps(seqs[1], W, N, w)
    BY <2>4, <2>5, StepsExist
  <2>7. Keeps(W, N, D)
    BY <2>4 DEF Keeps
  <2>8. /\ w[0] = seqs[1] /\ \A n \in 0 .. N : w[n] \in D
        /\ \A n \in 1 .. N : w[n] = W[<<n, w[n - 1]>>]
    BY <2>5, <2>6, <2>7, StepsKeep
  <2>9. PICK g : g = [i \in 1 .. l |-> w[i - 1]]
    OBVIOUS
  <2>10. ASSUME NEW i \in 1 .. l PROVE g[i] = IF i = 1 THEN seqs[i] ELSE g[i - 1] \o seqs[i]
    <3>1. CASE i = 1
      BY <2>8, <2>9, <3>1
    <3>2. CASE i # 1
      <4>1. i - 1 \in 1 .. N /\ i - 1 \in 1 .. l /\ (i - 1) - 1 \in 0 .. N /\ i - 1 \in Nat /\ (i - 1) + 1 = i
        BY <2>1, <3>2
      <4>2. g[i] = w[i - 1] /\ g[i - 1] = w[(i - 1) - 1]
        BY <2>9, <4>1
      <4>3. w[i - 1] = W[<<i - 1, w[(i - 1) - 1]>>]
        BY <2>8, <4>1
      <4>4. W[<<i - 1, w[(i - 1) - 1]>>] = w[(i - 1) - 1] \o seqs[i]
        BY <2>2, <2>8, <4>1
      <4> QED
        BY <3>2, <4>2, <4>3, <4>4
    <3> QED
      BY <3>1, <3>2
  <2>11. g = [i \in 1 .. l |-> IF i = 1 THEN seqs[i] ELSE g[i - 1] \o seqs[i]]
    BY <2>9, <2>10
  <2>12. Flat(seqs, g)
    BY <1>2, <2>11 DEF Flat
  <2>13. PICK f : f = CHOOSE x : Flat(seqs, x)
    OBVIOUS
  <2>14. Flat(seqs, f)
    BY <2>12, <2>13
  <2>15. FlattenSeq(seqs) = f[l]
    BY <1>2, <1>4, <2>13 DEF FlattenSeq, Flat
  <2>16. \A i \in 1 .. l : f[i] = IF i = 1 THEN seqs[i] ELSE f[i - 1] \o seqs[i]
    BY <1>2, <2>14 DEF Flat
  <2> DEFINE P == {n \in Nat : n + 1 <= l => f[n + 1] \in D}
  <2>17. 0 \in P
    BY <1>4, <2>5, <2>16
  <2>18. ASSUME NEW n \in P PROVE n + 1 \in P
    <3> SUFFICES ASSUME (n + 1) + 1 <= l PROVE f[(n + 1) + 1] \in D
      OBVIOUS
    <3>1. n + 1 <= l /\ (n + 1) + 1 \in 1 .. l /\ (n + 1) + 1 # 1 /\ ((n + 1) + 1) - 1 = n + 1
      OBVIOUS
    <3>2. f[n + 1] \in D
      BY <3>1
    <3>3. f[(n + 1) + 1] = f[n + 1] \o seqs[(n + 1) + 1]
      BY <2>16, <3>1
    <3> QED
      BY <1>2, <2>3, <3>1, <3>2, <3>3
  <2>19. P = Nat
    <3> HIDE DEF P
    <3>1. P \in SUBSET Nat
      BY DEF P
    <3> QED
      BY <2>17, <2>18, <3>1, UpTo
  <2>20. N \in P /\ N + 1 <= l /\ N + 1 = l
    <3> HIDE DEF P
    <3> QED
      BY <2>1, <2>19
  <2>21. f[l] \in D
    BY <2>20
  <2> QED
    BY ONLY <2>15, <2>21
<1> QED
  BY <1>3, <1>4

\* The code of blocks the function has.
LEMMA CodeType ==
  ASSUME WorkOK, GraphOK, Working, NEW blocks, blocks \in Seq(DOMAIN cfg.code)
  PROVE  /\ DOMAIN CodeOf(blocks) \subseteq Nat
         /\ \A m \in DOMAIN CodeOf(blocks) : CodeOf(blocks)[m].effect \in Effects
<1>1. FunctionOK(fn) /\ Parts /\ OneLast /\ LeadOn
  BY FunctionAtHand DEF WorkOK, GraphOK
<1>2. PICK S : S = UNION {Elems(fn.code[b]) : b \in DOMAIN fn.code}
  OBVIOUS
<1>12. \A x \in S : x.effect \in Effects
  BY <1>1, <1>2 DEF FunctionOK
<1>3. \A b \in DOMAIN fn.code : fn.code[b] \in Seq(S)
  <2> SUFFICES ASSUME NEW b \in DOMAIN fn.code PROVE fn.code[b] \in Seq(S)
    OBVIOUS
  <2>1. PICK T, s : T = Elems(fn.code[b]) /\ s = fn.code[b]
    OBVIOUS
  <2>2. s \in Seq(T) /\ T \subseteq S
    BY <1>1, <1>2, <2>1 DEF FunctionOK, IsSeq
  <2>3. s \in Seq(S)
    BY ONLY <2>2
  <2> QED
    BY <2>1, <2>3
<1>4. ASSUME NEW p \in DOMAIN cfg.code PROVE cfg.code[p] \in Seq(S)
  <2>1. CASE p \in DOMAIN cfg.rest
    <3>1. cfg.code[p] = <<>>
      BY <1>1, <2>1 DEF LeadOn
    <3> QED
      BY <3>1
  <2>2. CASE p \notin DOMAIN cfg.rest
    <3>1. p \in LastParts /\ cfg.of[p] \in DOMAIN fn.code
      BY <1>1, <2>2 DEF LastParts, Parts
    <3>2. cfg.code[p] = fn.code[cfg.of[p]]
      <4>1. PICK q \in LastParts : /\ {x \in LastParts : cfg.of[x] = cfg.of[p]} = {q}
                                   /\ cfg.code[q] = fn.code[cfg.of[p]]
        BY <1>1, <3>1 DEF OneLast
      <4>2. p = q
        BY <3>1, <4>1
      <4> QED
        BY <4>1, <4>2
    <3> QED
      BY <1>3, <3>1, <3>2
  <2> QED
    BY <2>1, <2>2
<1>5. PICK D, T : D = DOMAIN cfg.code /\ T = Seq(S)
  OBVIOUS
<1>6. PICK seqs : seqs = [i \in DOMAIN blocks |-> cfg.code[blocks[i]]]
  OBVIOUS
<1>7. seqs \in Seq(T)
  <2>1. PICK n \in Nat : DOMAIN blocks = 1 .. n /\ \A i \in 1 .. n : blocks[i] \in D
    BY <1>5
  <2>2. seqs \in [1 .. n -> T]
    BY <1>4, <1>5, <1>6, <2>1
  <2> QED
    BY <2>2
<1>8. FlattenSeq(seqs) \in T
  BY ONLY <1>5, <1>7, FlattenType
<1>9. CodeOf(blocks) = FlattenSeq(seqs)
  BY <1>6 DEF CodeOf
<1>10. PICK code : code = CodeOf(blocks)
  OBVIOUS
<1>11. code \in Seq(S)
  BY <1>5, <1>8, <1>9, <1>10
<1>13. \A m \in DOMAIN code : code[m] \in S
  BY <1>11
<1> QED
  BY <1>10, <1>11, <1>12, <1>13

Refusals == {"null function", "unreachable"}

LEMMA FirstAnswerIs ==
  ASSUME NEW answer, DOMAIN answer \subseteq Nat,
         \A k \in DOMAIN answer : answer[k] \in {"yes", "no"} \cup Refusals
  PROVE  /\ FirstAnswer(answer) \in {"yes", "no"} \cup Refusals
         /\ (\E k \in DOMAIN answer : answer[k] # "no") => FirstAnswer(answer) # "no"
<1>1. PICK settled : settled = {k \in DOMAIN answer : answer[k] # "no"}
  OBVIOUS
<1>2. CASE settled = {}
  <2>1. FirstAnswer(answer) = "no"
    BY <1>1, <1>2 DEF FirstAnswer
  <2> QED
    BY <1>1, <1>2, <2>1
<1>3. CASE settled # {}
  <2>1. settled \in SUBSET Nat
    BY <1>1
  <2>2. Min(settled) \in settled
    BY <1>3, <2>1, MinIsLeast
  <2>3. FirstAnswer(answer) = answer[Min(settled)]
    BY <1>1, <1>3 DEF FirstAnswer
  <2> QED
    BY <1>1, <2>2, <2>3
<1> QED
  BY <1>2, <1>3

\* Without a location more is possible than with one.
LEMMA ModRefWider ==
  ASSUME NEW i, NEW loc
  PROVE  /\ ModRef(i, loc) \subseteq ModRef(i, NoLocation)
         /\ ModRef(i, loc) = {"ref"} => ModRef(i, NoLocation) = {"ref"}
  BY DEF ModRef

LEMMA CallAnswers ==
  ASSUME NEW v, NEW i
  PROVE  /\ IsReadByCall(v, i) \in {"yes", "no"} \cup Refusals
         /\ IsWrittenByCall(v, i) \in {"yes", "no"} \cup Refusals
  BY DEF IsReadByCall, IsWrittenByCall, ByCall, Refusals

LEMMA PointerDirection ==
  ASSUME NEW v, v.form = "pointer", NEW code, DOMAIN code \subseteq Nat, NEW a,
         \A m \in DOMAIN code : code[m].effect \in Effects,
         NEW k \in DOMAIN code, WritesThrough(code[k], v),
         InputDirection(v, code, a) \in Directions
  PROVE  /\ InputDirection(v, code, a) # "Inbound"
         /\ (\E m \in DOMAIN code : ReadsThrough(code[m], v)) => InputDirection(v, code, a) = "Both"
<1>1. LocationOf(v) = NoLocation
  BY DEF LocationOf
<1>2. PICK writes : writes = [m \in DOMAIN code |->
        IF "mod" \in ModRef(code[m], NoLocation) THEN "yes" ELSE IsWrittenByCall(v, code[m])]
  OBVIOUS
<1>3. PICK reads : reads = [m \in DOMAIN code |->
        IF ModRef(code[m], NoLocation) = {"ref"} THEN "yes" ELSE IsReadByCall(v, code[m])]
  OBVIOUS
<1>4. IsWrite(v, code, a) = FirstAnswer(writes) /\ IsRead(v, code, a) = FirstAnswer(reads)
  BY <1>1, <1>2, <1>3 DEF IsWrite, IsRead
<1>5. DOMAIN writes = DOMAIN code /\ \A m \in DOMAIN writes : writes[m] \in {"yes", "no"} \cup Refusals
  BY <1>2, CallAnswers
<1>6. DOMAIN reads = DOMAIN code /\ \A m \in DOMAIN reads : reads[m] \in {"yes", "no"} \cup Refusals
  BY <1>3, CallAnswers
<1>7. "mod" \in ModRef(code[k], NoLocation)
  BY ModRefWider DEF WritesThrough
<1>8. writes[k] = "yes"
  BY <1>2, <1>7
<1>9. IsWrite(v, code, a) \in {"yes"} \cup Refusals
  BY <1>4, <1>5, <1>8, FirstAnswerIs
<1>10. IsRead(v, code, a) \in {"yes", "no"} \cup Refusals
  BY <1>4, <1>6, FirstAnswerIs
<1>11. IsWrite(v, code, a) = "yes"
  BY <1>9 DEF InputDirection, Directions, Refusals, Pointers
<1>12. InputDirection(v, code, a) \in {"Outbound", "Both"}
  BY <1>10, <1>11 DEF InputDirection, Directions, Refusals, Pointers
<1>13. ASSUME NEW m \in DOMAIN code, ReadsThrough(code[m], v)
       PROVE  InputDirection(v, code, a) = "Both"
  <2>1. reads[m] # "no"
    <3>1. CASE ModRef(code[m], v.to) = {"ref"}
      <4>1. reads[m] = "yes"
        BY <1>3, <3>1, ModRefWider
      <4> QED
        BY <4>1
    <3>2. CASE IsCall(code[m]) /\ v.name \in code[m].args /\ "ref" \in ModRef(code[m], v.to)
      <4>1. code[m].effect \in Effects \ {"none", "writes"}
        <5>1. "ref" \in ModRef(code[m], NoLocation)
          BY <3>2, ModRefWider
        <5> QED
          BY <3>2, <5>1 DEF ModRef, IsCall, EffectBits
      <4>2. IsReadByCall(v, code[m]) # "no"
        BY <3>2, <4>1 DEF IsReadByCall, ByCall, Effects
      <4> QED
        BY <1>3, <4>2
    <3> QED
      BY <1>13, <3>1, <3>2 DEF ReadsThrough
  <2>2. IsRead(v, code, a) # "no"
    BY <1>4, <1>6, <2>1, FirstAnswerIs
  <2> QED
    BY <1>10, <1>11, <2>2 DEF InputDirection, Directions, Refusals, Pointers
<1> QED
  BY <1>12, <1>13

\* For every program: what DirectionsSound says of the pointers it is about holds
\* for all code of the region, annotations of its calls and aliasing.
THEOREM DirectionsStaySound == Spec => []DirectionsSound
<1>1. StateOK => DirectionsSound
  <2> SUFFICES ASSUME StateOK, pc = "specs",
                      NEW code, code = CodeOf(region.blocks),
                      NEW answers, answers = DirectionsOf(Passed, Len(PureInputs)),
                      NEW i \in DOMAIN PureInputs,
                      Judged(PureInputs[i]), answers[i] \in Directions,
                      NEW k \in DOMAIN code, WritesThrough(code[k], PureInputs[i])
               PROVE  /\ answers[i] # "Inbound"
                      /\ (\E m \in DOMAIN code : ReadsThrough(code[m], PureInputs[i])) => answers[i] = "Both"
    BY DEF DirectionsSound
  <2>1. WorkOK /\ GraphOK /\ RegionOK /\ Working /\ pc \in InLoop
    BY DEF StateOK, Working, Stopped, InLoop
  <2>2. DOMAIN code \subseteq Nat /\ \A m \in DOMAIN code : code[m].effect \in Effects
    BY <2>1, CodeType DEF RegionOK
  <2>3. /\ i \in DOMAIN Passed /\ Passed[i] = PureInputs[i] /\ i \in 1 .. Len(PureInputs)
        /\ Len(PureInputs) \in Nat
    BY <2>1, PassedIs DEF PassedOK
  <2>4. PICK v, n : v = PureInputs[i] /\ n = Len(PureInputs)
    OBVIOUS
  <2>5. i <= n
    BY <2>3, <2>4
  <2>6. answers[i] = InputDirection(v, code, program.ignoreAliasing)
    BY <2>3, <2>4, <2>5 DEF DirectionsOf
  <2>7. CASE v.form = "pointer"
    BY <2>2, <2>4, <2>6, <2>7, PointerDirection
  <2>8. CASE v.form \in {"argument", "global"} /\ program.ignoreAliasing
    <3>1. InputDirection(v, code, program.ignoreAliasing) = "Both"
      BY <2>8 DEF InputDirection, IsWrite, IsRead, Pointers
    <3> QED
      BY <2>6, <3>1
  <2> QED
    BY <2>4, <2>7, <2>8 DEF Judged
<1> QED
  BY <1>1, StateInit, StateKept, PTL DEF Spec

-----------------------------------------------------------------------------
(* Starts of induction variables *)

Starts(loops) ==
  [known : BOOLEAN, base : Int, recs : Seq([loop : DOMAIN loops, step : Int])]

Solved(s) == [known |-> TRUE, base |-> s.base, recs |-> <<>>]

\* What the recurrences in ks add up to, after the iterations of their loops.
Gains(loops, s, ks) ==
  MapThenSumSet(LAMBDA k : IF loops[s.recs[k].loop].taken = Symbolic THEN 0
                           ELSE s.recs[k].step * loops[s.recs[k].loop].taken, ks)

LEMMA NothingGained == ASSUME NEW loops, NEW s PROVE Gains(loops, s, {}) = 0
<1> DEFINE G(k) == IF loops[s.recs[k].loop].taken = Symbolic THEN 0
                   ELSE s.recs[k].step * loops[s.recs[k].loop].taken
           Made(t) == t = [x \in SUBSET {} |->
             IF x = {} THEN 0
             ELSE G(CHOOSE y \in x : TRUE) + t[x \ {CHOOSE y \in x : TRUE}]]
<1>1. Gains(loops, s, {}) = (CHOOSE t : Made(t))[{}]
  BY DEF Gains, MapThenSumSet, MapThenFoldSet
<1> HIDE DEF G
<1>2. PICK u : u = [x \in SUBSET {} |-> 0]
  OBVIOUS
<1>3. Made(u)
  BY <1>2
<1>4. \A t : Made(t) => t[{}] = 0
  OBVIOUS
<1> HIDE DEF Made
<1>5. Made(CHOOSE t : Made(t))
  BY <1>3
<1> QED
  BY <1>1, <1>4, <1>5

Counted(loops, s) == {k \in DOMAIN s.recs : loops[s.recs[k].loop].taken # Uncountable}

LEMMA AtScopeIs ==
  ASSUME NEW loops, NEW s
  PROVE  /\ AtScope(loops, s).base = s.base + Gains(loops, s, Counted(loops, s))
         /\ AtScope(loops, s).recs = Kept(s.recs, DOMAIN s.recs \ Counted(loops, s))
         /\ Counted(loops, s) = {} /\ s.known = TRUE => AtScope(loops, s).known = TRUE
         /\ AtScope(loops, s) = [known |-> AtScope(loops, s).known, base |-> AtScope(loops, s).base,
                                 recs |-> AtScope(loops, s).recs]
<1>1. AtScope(loops, s).base = s.base + Gains(loops, s, Counted(loops, s))
  BY DEF AtScope, Gains, Counted
<1>2. AtScope(loops, s).recs = Kept(s.recs, DOMAIN s.recs \ Counted(loops, s))
  BY DEF AtScope, Counted
<1>3. ASSUME Counted(loops, s) = {}, s.known = TRUE PROVE AtScope(loops, s).known = TRUE
  <2>1. AtScope(loops, s).known = (s.known /\ \A k \in Counted(loops, s) : loops[s.recs[k].loop].taken # Symbolic)
    BY DEF AtScope, Counted
  <2> QED
    BY <1>3, <2>1
<1>4. AtScope(loops, s) = [known |-> AtScope(loops, s).known, base |-> AtScope(loops, s).base,
                           recs |-> AtScope(loops, s).recs]
  BY DEF AtScope
<1> QED
  BY <1>1, <1>2, <1>3, <1>4

LEMMA IterationIs ==
  ASSUME NEW b \in Int, NEW q, q # <<>>, Head(q).step \in Int, Tail(q) = <<>>,
         NEW s, s = [known |-> TRUE, base |-> b, recs |-> q]
  PROVE  AtIteration(s, 0) = [known |-> TRUE, base |-> b, recs |-> <<>>]
<1>1. PICK g : g = Head(q).step
  OBVIOUS
<1>2. s.recs = q /\ s.base = b /\ s.known = TRUE
  OBVIOUS
<1>3. b + 0 * g = b
  BY ONLY <1>1, b \in Int, Head(q).step \in Int
<1>4. AtIteration(s, 0) = [[s EXCEPT !.base = b + 0 * g] EXCEPT !.recs = <<>>]
  BY <1>1, <1>2 DEF AtIteration
<1> QED
  BY <1>3, <1>4

\* With a recurrence of one loop at most: evaluating for the first iteration
\* leaves the start alone or takes the recurrence away.
LEMMA InnerIs ==
  ASSUME NEW loops, NEW s, s \in Starts(loops), s.known = TRUE, Len(s.recs) <= 1
  PROVE  EvaluateInner(loops, s, 0) \in {s, Solved(s)}
<1>1. PICK b, r : b = s.base /\ r = s.recs
  OBVIOUS
<1>2. b \in Int /\ r \in Seq([loop : DOMAIN loops, step : Int])
  BY <1>1 DEF Starts
<1>3. PICK scoped : scoped = AtScope(loops, s)
  OBVIOUS
<1>4. EvaluateInner(loops, s, 0) = IF scoped.recs = <<>> THEN s ELSE AtIteration(scoped, 0)
  BY <1>3 DEF EvaluateInner
<1>5. CASE DOMAIN r \ Counted(loops, s) = {}
  <2>1. scoped.recs = <<>>
    BY <1>1, <1>3, <1>5, AtScopeIs, KeptNothing
  <2> QED
    BY <1>4, <2>1
<1>6. CASE DOMAIN r \ Counted(loops, s) # {}
  <2>1. DOMAIN r = 1 .. 1 /\ r[1] \in [loop : DOMAIN loops, step : Int]
    <3>1. PICK k : k \in DOMAIN r
      BY <1>6
    <3>2. PICK n \in Nat : n = Len(r) /\ DOMAIN r = 1 .. n
      BY <1>2
    <3>3. n <= 1 /\ k \in 1 .. n
      BY ONLY <1>1, <3>1, <3>2, Len(s.recs) <= 1
    <3>4. n = 1
      BY ONLY <3>2, <3>3
    <3>5. PICK R : R = [loop : DOMAIN loops, step : Int]
      OBVIOUS
    <3>6. r \in Seq(R)
      BY <1>2, <3>5
    <3>7. DOMAIN r = 1 .. 1
      BY ONLY <3>2, <3>4
    <3>8. r[1] \in R
      BY ONLY <3>2, <3>4, <3>6, ElementOfSeq
    <3> QED
      BY <3>5, <3>7, <3>8
  <2>2. Counted(loops, s) = {}
    BY <1>1, <1>6, <2>1 DEF Counted
  <2>3. PICK one : one = Kept(r, {1})
    OBVIOUS
  <2>4. one = <<r[1]>>
    <3>1. PICK R : R = [loop : DOMAIN loops, step : Int]
      OBVIOUS
    <3>2. r \in Seq(R) /\ {1} \in SUBSET DOMAIN r
      BY <1>2, <2>1, <3>1
    <3>3. Cardinality({1}) = 1
      BY FS_Singleton
    <3>4. PICK P : P = {1}
      OBVIOUS
    <3>5. P \in SUBSET DOMAIN r /\ Cardinality(P) = 1 /\ one = Kept(r, P)
      BY <2>3, <3>2, <3>3, <3>4
    <3>6. /\ DOMAIN one = 1 .. 1 /\ Len(one) = 1 /\ one \in Seq(R)
          /\ \A n \in DOMAIN one : \E p \in P : one[n] = r[p]
      <4>1. r \in Seq(R) /\ P \in SUBSET DOMAIN r
        BY <3>2, <3>5
      <4>2. /\ DOMAIN Kept(r, P) = 1 .. Cardinality(P) /\ Len(Kept(r, P)) = Cardinality(P)
            /\ Kept(r, P) \in Seq(R)
        BY ONLY <4>1, KeptElements
      <4>3. \A n \in DOMAIN Kept(r, P) : \E p \in P : Kept(r, P)[n] = r[p]
        BY ONLY <4>1, KeptElements
      <4> QED
        BY ONLY <3>5, <4>2, <4>3
    <3>7. one[1] = r[1]
      BY ONLY <3>4, <3>6
    <3> QED
      BY ONLY <3>6, <3>7
  <2>5. scoped.recs = <<r[1]>>
    <3>1. DOMAIN r \ Counted(loops, s) = {1}
      BY <2>1, <2>2
    <3> QED
      BY <1>1, <1>3, <2>3, <2>4, <3>1, AtScopeIs
  <2>6. scoped.base = b
    <3>1. scoped.base = b + Gains(loops, s, {})
      BY <1>1, <1>3, <2>2, AtScopeIs
    <3>2. Gains(loops, s, {}) = 0
      BY NothingGained
    <3>3. scoped.base = b + 0
      BY ONLY <3>1, <3>2
    <3> QED
      BY ONLY <1>2, <3>3
  <2>7. scoped.known = TRUE
    BY <1>3, <2>2, AtScopeIs
  <2>8. scoped = [known |-> TRUE, base |-> b, recs |-> <<r[1]>>]
    BY <1>3, <2>5, <2>6, <2>7, AtScopeIs
  <2>9. scoped.recs # <<>>
    BY <2>5
  <2>10. Head(scoped.recs) = r[1] /\ Tail(scoped.recs) = <<>>
    <3>1. PICK e : e = r[1]
      OBVIOUS
    <3>2. Head(<<e>>) = e /\ Tail(<<e>>) = <<>>
      OBVIOUS
    <3> QED
      BY <2>5, <3>1, <3>2
  <2>11. r[1].step \in Int /\ b + 0 * r[1].step = b
    BY <1>2, <2>1
  <2>12. AtIteration(scoped, 0) = [known |-> TRUE, base |-> b, recs |-> <<>>]
    <3>1. PICK q : q = scoped.recs
      OBVIOUS
    <3>2. scoped = [known |-> TRUE, base |-> b, recs |-> q] /\ q # <<>>
      BY <2>5, <2>8, <2>9, <3>1
    <3>3. Head(q).step \in Int /\ Tail(q) = <<>>
      BY <2>10, <2>11, <3>1
    <3> QED
      BY ONLY <1>2, <3>2, <3>3, IterationIs
  <2> QED
    BY <1>1, <1>4, <2>9, <2>12 DEF Solved
<1> QED
  BY <1>5, <1>6

LEMMA SolvedIs ==
  ASSUME NEW loops, NEW s, s \in Starts(loops)
  PROVE  /\ Solved(s) \in Starts(loops) /\ Solved(s).known = TRUE /\ Solved(s).recs = <<>>
         /\ Len(Solved(s).recs) <= 1 /\ Solved(s).base = s.base /\ Solved(Solved(s)) = Solved(s)
         /\ s.known = TRUE /\ s.recs = <<>> => Solved(s) = s
<1>1. <<>> \in Seq([loop : DOMAIN loops, step : Int]) /\ Len(<<>>) = 0
  OBVIOUS
<1>2. PICK e : e = Solved(s)
  OBVIOUS
<1>3. e.known = TRUE /\ e.base = s.base /\ e.recs = <<>> /\ s.base \in Int
  BY <1>2 DEF Solved, Starts
<1>4. e = [known |-> TRUE, base |-> s.base, recs |-> <<>>]
  BY <1>2 DEF Solved
<1>5. e \in Starts(loops)
  BY <1>1, <1>3, <1>4 DEF Starts
<1>6. Solved(e) = e
  BY <1>3, <1>4 DEF Solved
<1>7. s.known = TRUE /\ s.recs = <<>> => e = s
  <2>1. s = [known |-> s.known, base |-> s.base, recs |-> s.recs]
    BY DEF Starts
  <2> QED
    BY <1>4, <2>1
<1> QED
  BY <1>1, <1>2, <1>3, <1>5, <1>6, <1>7

Stepped(loops, s, N, f) ==
  f = [i \in 0 .. N |-> IF i = 0 THEN s ELSE EvaluateInner(loops, f[i - 1], 0)]

LEMMA SteppedIs ==
  ASSUME NEW loops, NEW s, s \in Starts(loops), s.known = TRUE, Len(s.recs) <= 1, NEW N \in Nat
  PROVE  (CHOOSE f : Stepped(loops, s, N, f))[N] \in {s, Solved(s)}
<1> DEFINE D == {s, Solved(s)}
<1>1. \A x \in D : EvaluateInner(loops, x, 0) \in D
  <2>1. EvaluateInner(loops, s, 0) \in D
    BY InnerIs
  <2>2. PICK e : e = Solved(s)
    OBVIOUS
  <2>3. e \in Starts(loops) /\ e.known = TRUE /\ Len(e.recs) <= 1 /\ Solved(e) = e
    BY <2>2, SolvedIs
  <2>4. EvaluateInner(loops, e, 0) \in {e, Solved(e)}
    BY <2>3, InnerIs
  <2> QED
    BY <2>1, <2>2, <2>3, <2>4
<1>2. s \in D
  OBVIOUS
<1> HIDE DEF D
<1>3. PICK W : W = [z \in Nat \X D |-> EvaluateInner(loops, z[2], 0)]
  OBVIOUS
<1>4. W \in [Nat \X D -> D] /\ \A n \in Nat, x \in D : W[<<n, x>>] = EvaluateInner(loops, x, 0)
  BY <1>1, <1>3
<1>5. PICK w : Steps(s, W, N, w)
  BY <1>2, <1>4, StepsExist
<1>6. Keeps(W, N, D)
  <2>1. \A n \in 1 .. N : n \in Nat
    OBVIOUS
  <2>2. \A x \in D : EvaluateInner(loops, x, 0) \in D
    BY <1>1
  <2> QED
    BY ONLY <1>4, <2>1, <2>2 DEF Keeps
<1>7. /\ w[0] = s /\ \A n \in 0 .. N : w[n] \in D
      /\ \A n \in 1 .. N : w[n] = W[<<n, w[n - 1]>>]
  BY <1>2, <1>5, <1>6, StepsKeep
<1>8. ASSUME NEW i \in 0 .. N PROVE w[i] = IF i = 0 THEN s ELSE EvaluateInner(loops, w[i - 1], 0)
  <2> SUFFICES ASSUME i # 0 PROVE w[i] = EvaluateInner(loops, w[i - 1], 0)
    BY <1>7
  <2>1. i \in 1 .. N /\ i - 1 \in 0 .. N /\ i \in Nat
    OBVIOUS
  <2> QED
    BY <1>4, <1>7, <2>1
<1>9. w = [i \in 0 .. N |-> w[i]]
  BY <1>5 DEF Steps
<1>10. Stepped(loops, s, N, w)
  BY <1>8, <1>9 DEF Stepped
<1>11. PICK f : f = CHOOSE x : Stepped(loops, s, N, x)
  OBVIOUS
<1>12. Stepped(loops, s, N, f)
  BY <1>10, <1>11
<1>13. \A i \in 0 .. N : f[i] = IF i = 0 THEN s ELSE EvaluateInner(loops, f[i - 1], 0)
  BY <1>12 DEF Stepped
<1> DEFINE P == {n \in Nat : n <= N => f[n] \in D}
<1>14. 0 \in P
  BY <1>2, <1>13
<1>15. ASSUME NEW n \in P PROVE n + 1 \in P
  <2> SUFFICES ASSUME n + 1 <= N PROVE f[n + 1] \in D
    OBVIOUS
  <2>1. n + 1 \in 0 .. N /\ n + 1 # 0 /\ (n + 1) - 1 = n /\ f[n] \in D
    OBVIOUS
  <2> QED
    BY <1>1, <1>13, <2>1
<1>16. P = Nat
  <2> HIDE DEF P
  <2>1. P \in SUBSET Nat
    BY DEF P
  <2> QED
    BY <1>14, <1>15, <2>1, UpTo
<1>17. f[N] \in D
  BY <1>16
<1> QED
  BY <1>11, <1>17 DEF D

LEMMA EvaluateIs ==
  ASSUME NEW loops, IsFiniteSet(DOMAIN loops), NEW target, NEW m, NEW s, s \in Starts(loops),
         s.known = TRUE, Len(s.recs) <= 1, m \in Visited(loops, target) \/ s.recs = <<>>
  PROVE  EvaluateExpr(loops, target, m, s, 0) = Solved(s)
<1>1. PICK N : N = Cardinality(OuterLoops(loops, m) \cap Visited(loops, target))
  OBVIOUS
<1>2. N \in Nat
  <2>1. OuterLoops(loops, m) \cap Visited(loops, target) \in SUBSET DOMAIN loops
    BY DEF OuterLoops
  <2> QED
    BY <1>1, <2>1, FS_Subset, FS_CardinalityType
<1>3. PICK f : f = CHOOSE x : Stepped(loops, s, N, x)
  OBVIOUS
<1>4. EvaluateExpr(loops, target, m, s, 0)
        = IF m \in Visited(loops, target) THEN EvaluateAt(f[N], 0) ELSE f[N]
  BY <1>1, <1>3 DEF EvaluateExpr, Stepped
<1>5. f[N] \in {s, Solved(s)}
  BY <1>2, <1>3, SteppedIs
<1>6. /\ Solved(s).recs = <<>>
      /\ s.recs = <<>> => Solved(s) = s
  BY SolvedIs
<1>7. EvaluateAt(s, 0) = Solved(s)
  <2>1. CASE s.recs = <<>>
    BY <1>6, <2>1 DEF EvaluateAt
  <2>2. CASE s.recs # <<>>
    <3>1. PICK b, r : b = s.base /\ r = s.recs
      OBVIOUS
    <3>2. /\ b \in Int /\ r \in Seq([loop : DOMAIN loops, step : Int])
          /\ s = [known |-> s.known, base |-> s.base, recs |-> s.recs]
      BY <3>1 DEF Starts
    <3>3. PICK R : R = [loop : DOMAIN loops, step : Int]
      OBVIOUS
    <3>4. r \in Seq(R) /\ r # <<>> /\ Len(r) <= 1
      BY <2>2, <3>1, <3>2, <3>3
    <3>5. Head(r) \in R /\ Tail(r) = <<>>
      BY ONLY <3>4
    <3>6. Head(r).step \in Int
      BY <3>3, <3>5
    <3>7. s = [known |-> TRUE, base |-> b, recs |-> r]
      BY <3>1, <3>2
    <3>8. AtIteration(s, 0) = [known |-> TRUE, base |-> b, recs |-> <<>>]
      BY ONLY <3>2, <3>4, <3>5, <3>6, <3>7, IterationIs
    <3> QED
      BY <2>2, <3>1, <3>8 DEF EvaluateAt, Solved
  <2> QED
    BY <2>1, <2>2
<1>8. EvaluateAt(Solved(s), 0) = Solved(s)
  BY <1>6 DEF EvaluateAt
<1> QED
  BY <1>4, <1>5, <1>6, <1>7, <1>8

\* The analyzer has a loop and one of its phi nodes, or nothing.
InfoOK(f, m, info) ==
  /\ info = [ind |-> info.ind, start |-> info.start, end |-> info.end]
  /\ info.ind # NoValue =>
       \E k \in DOMAIN f.loops[m].phis :
          /\ info.ind = <<m, k>> /\ info.start = f.loops[m].phis[k].start
          /\ info.start \in Starts(f.loops)

LEMMA InfoIs ==
  ASSUME NEW f, FunctionOK(f), NEW m \in DOMAIN f.loops, NEW edges
  PROVE  InfoOK(f, m, Info(f.loops, edges, m))
<1>1. PICK L : L = f.loops[m]
  OBVIOUS
<1>2. PICK k : k = GetInductionVariable(edges, L)
  OBVIOUS
<1>3. CASE k = 0
  <2>1. Info(f.loops, edges, m) = NoInfo
    BY <1>1, <1>2, <1>3 DEF Info
  <2> QED
    BY <2>1 DEF NoInfo, InfoOK
<1>4. CASE k # 0
  <2>1. PICK found : found \subseteq DOMAIN L.phis /\ found # {} /\ k = Min(found)
    BY <1>2, <1>4 DEF GetInductionVariable, OfKind
  <2>2. L.phis \in Seq(Elems(L.phis))
    BY <1>1 DEF FunctionOK, ValuesOK, IsSeq
  <2>3. DOMAIN L.phis \subseteq Nat
    BY <2>2
  <2>4. k \in DOMAIN L.phis
    BY <2>1, <2>3, MinIsLeast
  <2>5. PICK s : s = L.phis[k].start
    OBVIOUS
  <2>6. s \in Starts(f.loops)
    BY <1>1, <2>4, <2>5 DEF FunctionOK, StartsOK, Starts
  <2>7. Info(f.loops, edges, m) = [ind |-> <<m, k>>, start |-> s, end |-> s]
    BY <1>1, <1>2, <1>4, <2>5 DEF Info
  <2> QED
    BY <1>1, <2>4, <2>5, <2>6, <2>7 DEF InfoOK
<1> QED
  BY <1>3, <1>4

LEMMA MapIs ==
  ASSUME WorkOK, BoundsOK, pc \in InLoop
  PROVE  /\ FunctionOK(fn) /\ loop \in DOMAIN fn.loops
         /\ lba.top = TopOf(fn.loops, loop) /\ DOMAIN lba.map = NestOf(fn.loops, lba.top)
         /\ \A m \in DOMAIN lba.map : m \in DOMAIN fn.loops /\ InfoOK(fn, m, lba.map[m])
         /\ lba = [top |-> lba.top, map |-> lba.map]
<1>1. Working
  BY DEF Working, Stopped, InLoop
<1>2. FunctionOK(fn) /\ loop \in DOMAIN fn.loops
  BY <1>1, FunctionAtHand DEF WorkOK
<1>3. lba.top \in DOMAIN fn.loops /\ lba.top # 0
  BY <1>1, <1>2, TopIs, LoopsOf DEF BoundsOK
<1>4. PICK edges : lba.map = Infos(fn, edges, lba.top)
  BY <1>1, <1>3 DEF BoundsOK
<1>5. DOMAIN lba.map = NestOf(fn.loops, lba.top)
  BY <1>4 DEF Infos
<1>6. \A m \in DOMAIN lba.map : m \in DOMAIN fn.loops /\ lba.map[m] = Info(fn.loops, edges, m)
  BY <1>4, <1>5 DEF Infos, NestOf
<1> QED
  BY <1>1, <1>2, <1>5, <1>6, InfoIs DEF BoundsOK

\* An induction variable of the nest is that of one loop; and what the analyzer
\* makes of its start for the first iteration.
LEMMA StartIs ==
  ASSUME WorkOK, BoundsOK, pc \in InLoop, NEW m, m \in DOMAIN lba.map, NEW v, v # NoValue,
         lba.map[m].ind = v
  PROVE  /\ InfoOf(lba, v) = lba.map[m]
         /\ InfoOf(Evaluation, v).start = EvaluateExpr(fn.loops, loop, m, lba.map[m].start, 0)
         /\ lba.map[m].start \in Starts(fn.loops)
         /\ \E k \in DOMAIN fn.loops[m].phis :
               v = <<m, k>> /\ lba.map[m].start = fn.loops[m].phis[k].start
<1>1. \A i \in DOMAIN lba.map : InfoOK(fn, i, lba.map[i])
  BY MapIs
<1>2. ASSUME NEW i \in DOMAIN lba.map, lba.map[i].ind = v PROVE i = m
  <2>1. InfoOK(fn, i, lba.map[i]) /\ InfoOK(fn, m, lba.map[m])
    BY <1>1
  <2>2. PICK k : v = <<i, k>>
    BY <1>2, <2>1 DEF InfoOK
  <2>3. PICK j : v = <<m, j>>
    BY <2>1 DEF InfoOK
  <2> QED
    BY ONLY <2>2, <2>3
<1>3. InfoOf(lba, v) = lba.map[m]
  BY <1>2 DEF InfoOf
<1>4. PICK map : map = lba.map
  OBVIOUS
<1>5. lba = [top |-> lba.top, map |-> map]
  BY <1>4, MapIs
<1>6. Evaluation.map = [i \in DOMAIN map |->
        [map[i] EXCEPT !.start = EvaluateExpr(fn.loops, loop, i, @, 0),
                       !.end = EvaluateExpr(fn.loops, loop, i, @, 5)]]
  BY <1>4, <1>5 DEF Evaluation, Evaluated
<1>7. ASSUME NEW i \in DOMAIN map
      PROVE  /\ Evaluation.map[i].ind = map[i].ind
             /\ Evaluation.map[i].start = EvaluateExpr(fn.loops, loop, i, map[i].start, 0)
  <2>1. PICK info : info = map[i]
    OBVIOUS
  <2>2. info = [ind |-> info.ind, start |-> info.start, end |-> info.end]
    BY <1>1, <1>4, <2>1 DEF InfoOK
  <2>3. PICK first, last : /\ first = EvaluateExpr(fn.loops, loop, i, info.start, 0)
                           /\ last = EvaluateExpr(fn.loops, loop, i, info.end, 5)
    OBVIOUS
  <2>4. Evaluation.map[i] = [info EXCEPT !.start = first, !.end = last]
    BY <1>6, <2>1, <2>3
  <2> QED
    BY <2>1, <2>2, <2>3, <2>4
<1>8. DOMAIN Evaluation.map = DOMAIN map
  BY <1>6
<1>9. InfoOf(Evaluation, v) = Evaluation.map[m]
  <2>1. \A i \in DOMAIN Evaluation.map : Evaluation.map[i].ind = v => i = m
    BY <1>2, <1>4, <1>7, <1>8
  <2>2. m \in DOMAIN Evaluation.map /\ Evaluation.map[m].ind = v
    BY <1>4, <1>7, <1>8
  <2> QED
    BY <2>1, <2>2 DEF InfoOf
<1> QED
  BY <1>1, <1>3, <1>4, <1>7, <1>9 DEF InfoOK

\* For every start that is a number, and a recurrence of one loop at most: the
\* variable of a loop around the region starts with it, however the loops of the
\* nest are counted and in whichever order they are visited.
THEOREM StartsStayFixed == Spec => []StartsFixed
<1>1. StateOK /\ BoundsOK => StartsFixed
  <2> SUFFICES ASSUME StateOK, BoundsOK, pc = "copy", NEW x \in Locals,
                      x.init \in {"start", "guess"},
                      NEW start, start = InfoOf(lba, x.of.ind).start,
                      start.known, Len(start.recs) <= 1
               PROVE  x.init = "start" /\ x.value = start.base
    BY DEF StartsFixed
  <2>1. WorkOK /\ pc \in InLoop
    BY DEF StateOK, InLoop
  <2>2. PICK v : /\ IsOuter(v)
                 /\ x = IF ConstantStart(InfoOf(Evaluation, v.ind))
                        THEN [of |-> v, init |-> "start", value |-> InfoOf(Evaluation, v.ind).start.base]
                        ELSE [of |-> v, init |-> "guess", value |-> 354]
    BY DEF Locals
  <2>3. x.of = v
    BY <2>2
  <2>4. PICK i : i = v.ind
    OBVIOUS
  <2>5. PICK m \in DOMAIN lba.map : lba.map[m].ind = i /\ i # NoValue /\ m \in OuterLoops(fn.loops, loop)
    BY <2>2, <2>4 DEF IsOuter, IsOuterInduction
  <2>6. InfoOf(lba, i) = lba.map[m]
    BY <2>1, <2>5, StartIs
  <2>7. start = lba.map[m].start
    BY <2>3, <2>4, <2>6
  <2>8. InfoOf(Evaluation, i).start = EvaluateExpr(fn.loops, loop, m, start, 0)
    BY <2>1, <2>5, <2>7, StartIs
  <2>9. start \in Starts(fn.loops)
    BY <2>1, <2>5, <2>7, StartIs
  <2>10. m \in Visited(fn.loops, loop)
    BY <2>5 DEF Visited
  <2>11. IsFiniteSet(DOMAIN fn.loops)
    <3>1. PICK n \in Nat : DOMAIN fn.loops = 1 .. n
      BY <2>1, MapIs, LoopsOf
    <3> QED
      BY <3>1, FS_Interval
  <2>12. start.known = TRUE
    BY <2>9 DEF Starts
  <2>13. PICK loops, target : loops = fn.loops /\ target = loop
    OBVIOUS
  <2>14. EvaluateExpr(loops, target, m, start, 0) = Solved(start)
    <3>1. /\ IsFiniteSet(DOMAIN loops) /\ start \in Starts(loops) /\ start.known = TRUE
          /\ Len(start.recs) <= 1 /\ m \in Visited(loops, target)
      BY <2>9, <2>10, <2>11, <2>12, <2>13
    <3> QED
      BY ONLY <3>1, EvaluateIs
  <2>15. InfoOf(Evaluation, i).start = Solved(start)
    BY <2>8, <2>13, <2>14
  <2>16. Solved(start).known = TRUE /\ Solved(start).recs = <<>> /\ Solved(start).base = start.base
    BY <2>9, SolvedIs
  <2>17. ConstantStart(InfoOf(Evaluation, i))
    BY <2>15, <2>16 DEF ConstantStart
  <2> QED
    BY <2>2, <2>4, <2>15, <2>16, <2>17
<1> QED
  BY <1>1, StateInit, BoundsInit, StateKept, BoundsKept, PTL DEF Spec

-----------------------------------------------------------------------------
(* Nothing stops prepare for a tame nest *)

\* A loop inside one of the nest is in the nest.
LEMMA InNest ==
  ASSUME NEW f, FunctionOK(f), NEW l \in DOMAIN f.loops, NEW m \in DOMAIN f.loops,
         l \in OuterLoops(f.loops, m)
  PROVE  m \in NestOf(f.loops, TopOf(f.loops, l)) /\ m # TopOf(f.loops, l)
<1>1. /\ f.loops[m].blocks \subseteq f.loops[l].blocks /\ f.loops[m].header \in f.loops[m].blocks
      /\ l \in DOMAIN f.loops
  BY LoopsNest
<1>2. /\ f.loops[l].blocks \subseteq f.loops[TopOf(f.loops, l)].blocks
      /\ OuterLoops(f.loops, TopOf(f.loops, l)) = {}
  BY <1>1, TopIs
<1> QED
  BY <1>1, <1>2 DEF NestOf

LEMMA AtTop ==
  ASSUME NEW f, FunctionOK(f), NEW l \in DOMAIN f.loops
  PROVE  l \in NestOf(f.loops, TopOf(f.loops, l))
<1>1. f.loops[l].header \in f.loops[l].blocks
  BY DEF FunctionOK, LoopOK
<1> QED
  BY <1>1, TopIs DEF NestOf

LEMMA TamePreparation ==
  ASSUME StateOK, BoundsOK, pc = "prepare", Eligible, Tame
  PROVE  Preparation = "check"
<1>1. WorkOK /\ GraphOK /\ Working /\ pc \in InLoop
  BY DEF StateOK, Working, Stopped, InLoop
<1>2. PICK t : t = TopOf(fn.loops, loop)
  OBVIOUS
<1>3. FunctionOK(fn) /\ loop \in DOMAIN fn.loops
  BY <1>1, MapIs
<1>4. /\ t \in DOMAIN fn.loops /\ OuterLoops(fn.loops, t) = {}
      /\ fn.loops[loop].blocks \subseteq fn.loops[t].blocks
  BY <1>2, <1>3, TopIs
<1>5. Inputs = cur.inputs
  BY DEF Inputs
<1>6. \E i \in DOMAIN Inputs : Inputs[i].iterator
  BY <1>5 DEF Tame
<1>7. /\ \A m \in NestOf(fn.loops, t) : SingleExiting(fn.edges, fn.loops[m])
      /\ \A m \in NestOf(fn.loops, t) \ {t} :
           OuterLoops(fn.loops, m) = {t} /\ GetInductionVariable(fn.edges, fn.loops[m]) # 0
  BY <1>2 DEF Tame
<1>8. Whole(t) /\ NestWhole
  BY <1>2 DEF Tame, NestWhole, Whole
<1>9. ~EvaluateFails(lba)
  <2>1. lba.top = t /\ DOMAIN lba.map = NestOf(fn.loops, t)
    BY <1>1, <1>2, MapIs
  <2>2. lba.map = Infos(fn, fn.edges, t)
    BY <1>1, <1>4, <1>8, <2>1, LoopsOf, <1>3 DEF BoundsOK
  <2>3. ASSUME NEW m \in NestOf(fn.loops, t) \ {t} PROVE lba.map[m].ind # NoValue
    <3>1. PICK k : k = GetInductionVariable(fn.edges, fn.loops[m])
      OBVIOUS
    <3>2. k # 0
      BY <1>7, <2>3, <3>1
    <3>3. lba.map[m] = Info(fn.loops, fn.edges, m)
      BY <2>2, <2>3 DEF Infos
    <3>4. lba.map[m].ind = <<m, k>>
      BY <3>1, <3>2, <3>3 DEF Info
    <3> QED
      BY <3>2, <3>4 DEF NoValue
  <2> QED
    BY <2>1, <2>3 DEF EvaluateFails
<1>10. \A m \in SubLoops(fn.loops, loop) : SubLoops(fn.loops, m) = {}
  <2> SUFFICES ASSUME NEW m \in SubLoops(fn.loops, loop), NEW n \in SubLoops(fn.loops, m)
               PROVE  FALSE
    OBVIOUS
  <2>1. /\ m \in DOMAIN fn.loops /\ loop \in OuterLoops(fn.loops, m)
        /\ n \in DOMAIN fn.loops /\ m \in OuterLoops(fn.loops, n)
    BY DEF SubLoops
  <2>2. loop \in OuterLoops(fn.loops, n)
    BY <1>3, <2>1, OuterTransitive
  <2>3. /\ n \in NestOf(fn.loops, t) \ {t} /\ m # t
    BY <1>2, <1>3, <2>1, <2>2, InNest
  <2> QED
    BY <1>7, <2>1, <2>3
<1>11. ~GrowsInWalk(fn.loops, loop)
  BY <1>10 DEF GrowsInWalk
<1>14. ASSUME NEW L, NEW m \in DOMAIN fn.loops, L = fn.loops[m], L.header \in L.blocks,
              L.blocks \subseteq fn.loops[t].blocks
       PROVE  ConditionalExit(cfg.edges, L)
  <2>1. FunctionOK(fn) /\ GraphShape /\ Parts /\ EdgesKept /\ OneLast /\ LeadOn
    BY <1>1, FunctionAtHand DEF WorkOK, GraphOK
  <2>2. \A b \in L.blocks : Unsplit(b)
    BY <1>4, <1>8, <1>14, <2>1 DEF Whole, Unsplit, FunctionOK, LoopOK
  <2>3. ASSUME NEW b \in ExitingBlocks(cfg.edges, L)
        PROVE  \E d, e \in cfg.edges : d # e /\ d[1] = b /\ e[1] = b
    <3>1. PICK d \in cfg.edges : b \in L.blocks /\ d[1] = b /\ d[2] \notin L.blocks
      BY DEF ExitingBlocks
    <3>2. PICK x \in fn.edges : x[1] = b /\ x[2] \in L.blocks
      BY <1>3, <1>14, <3>1 DEF FunctionOK, LoopOK
    <3>3. x = <<b, x[2]>> /\ b \in DOMAIN fn.code /\ x[2] \in DOMAIN fn.code
      BY <1>3, <3>2 DEF FunctionOK
    <3>4. <<b, x[2]>> \in cfg.edges
      BY <1>1, <2>1, <2>2, <3>1, <3>2, <3>3, UnsplitEdges
    <3>5. PICK e : e = <<b, x[2]>>
      OBVIOUS
    <3>6. e \in cfg.edges /\ e[1] = b /\ e[2] = x[2]
      BY <3>4, <3>5
    <3> QED
      BY <3>1, <3>2, <3>6
  <2> QED
    BY <2>3 DEF ConditionalExit
<1>12. ASSUME NEW m \in ConditionLoops(fn.loops, loop)
       PROVE  SingleExiting(cfg.edges, fn.loops[m]) /\ ConditionalExit(cfg.edges, fn.loops[m])
  <2>1. m = loop \/ m \in SubLoops(fn.loops, loop)
    BY <1>10 DEF ConditionLoops
  <2>2. m \in NestOf(fn.loops, t)
    BY <1>2, <1>3, <2>1, InNest, AtTop DEF SubLoops
  <2>3. PICK L : L = fn.loops[m]
    OBVIOUS
  <2>4. L.blocks \subseteq fn.loops[t].blocks /\ L.header \in L.blocks
    BY <1>3, <1>4, <2>2, <2>3, NestBlocks
  <2>5. ExitingBlocks(cfg.edges, L) = ExitingBlocks(fn.edges, L)
    BY <1>1, <1>4, <1>8, <2>4, WholeLoop
  <2>6. SingleExiting(fn.edges, L)
    BY <1>7, <2>2, <2>3
  <2>7. m \in DOMAIN fn.loops
    BY <2>2 DEF NestOf
  <2>8. ConditionalExit(cfg.edges, L)
    BY <1>14, <2>3, <2>4, <2>7
  <2> QED
    BY <2>3, <2>5, <2>6, <2>8 DEF SingleExiting
<1>13. ASSUME NEW i \in DOMAIN Inputs PROVE ~RolesClash(Inputs[i]) /\ ~NoConstant(Inputs[i])
  <2>1. PICK v : v = Inputs[i]
    OBVIOUS
  <2>2. TameInput(v)
    BY <1>5, <2>1 DEF Tame
  <2>3. \A m \in DOMAIN lba.map : lba.map[m].ind = v.ind /\ v.ind # NoValue => v.ind[1] = m
    <3> SUFFICES ASSUME NEW m \in DOMAIN lba.map, lba.map[m].ind = v.ind, v.ind # NoValue
                 PROVE  v.ind[1] = m
      OBVIOUS
    <3>1. PICK x, s : x = v.ind /\ s = lba.map[m].start
      OBVIOUS
    <3>2. PICK k : x = <<m, k>> /\ s = fn.loops[m].phis[k].start
      BY <1>1, <3>1, StartIs
    <3> QED
      BY <3>1, <3>2
  <2>13. IsOuter(v) => v.ind # NoValue /\ v.ind[1] \in OuterLoops(fn.loops, loop)
    BY <2>3 DEF IsOuter, IsOuterInduction
  <2>14. IsInner(v) => v.ind # NoValue /\ loop \in OuterLoops(fn.loops, v.ind[1])
    BY <2>3 DEF IsInner, IsInnerInduction
  <2>15. OnlyInConditions(v) => v.limits # {} /\ ~v.elsewhere
    BY DEF OnlyInConditions
  <2>4. ~(OnlyInConditions(v) /\ (IsOuter(v) \/ IsInner(v)))
    BY <2>2, <2>13, <2>14, <2>15 DEF TameInput
  <2>6. ~NoConstant(v)
    BY <2>2, <2>13, <2>15 DEF TameInput, NoConstant
  <2>5. ASSUME IsInner(v) PROVE ConstantStart(InfoOf(Evaluation, v.ind))
    <3>1. PICK x : x = v.ind
      OBVIOUS
    <3>2. PICK m : m \in DOMAIN lba.map /\ lba.map[m].ind = x /\ x # NoValue
      BY <2>5, <3>1 DEF IsInner, IsInnerInduction
    <3>3. PICK s : s = lba.map[m].start
      OBVIOUS
    <3>4. InfoOf(Evaluation, x).start = EvaluateExpr(fn.loops, loop, m, s, 0) /\ s \in Starts(fn.loops)
      BY <1>1, <3>2, <3>3, StartIs
    <3>5. PICK k : x = <<m, k>> /\ s = fn.loops[m].phis[k].start
      BY <1>1, <3>2, <3>3, StartIs
    <3>6. x[1] = m /\ x[2] = k
      BY <3>5
    <3>7. s.known /\ s.recs = <<>>
      <4>1. fn.loops[v.ind[1]].phis[v.ind[2]].start = s
        BY <3>1, <3>5, <3>6
      <4> QED
        BY <2>2, <2>5, <2>14, <4>1 DEF TameInput
    <3>8. s.known = TRUE
      BY <3>4, <3>7 DEF Starts
    <3>9. PICK loops, target : loops = fn.loops /\ target = loop
      OBVIOUS
    <3>10. /\ IsFiniteSet(DOMAIN loops) /\ s \in Starts(loops) /\ s.known = TRUE
           /\ Len(s.recs) <= 1 /\ s.recs = <<>>
      <4>1. PICK n \in Nat : DOMAIN fn.loops = 1 .. n
        BY <1>3, LoopsOf
      <4>2. IsFiniteSet(1 .. n)
        BY <4>1, FS_Interval
      <4>3. PICK e : e = <<>>
        OBVIOUS
      <4>4. Len(e) <= 1 /\ s.recs = e
        BY ONLY <3>7, <4>3
      <4> QED
        BY ONLY <3>4, <3>7, <3>8, <3>9, <4>1, <4>2, <4>4
    <3>11. EvaluateExpr(loops, target, m, s, 0) = Solved(s)
      BY ONLY <3>10, EvaluateIs
    <3>12. InfoOf(Evaluation, x).start = Solved(s)
      BY <3>4, <3>9, <3>11
    <3>13. Solved(s).known = TRUE /\ Solved(s).recs = <<>>
      BY <3>10, SolvedIs
    <3> QED
      BY <3>1, <3>12, <3>13 DEF ConstantStart
  <2> QED
    BY <2>1, <2>4, <2>5, <2>6 DEF RolesClash
<1> QED
  BY <1>6, <1>9, <1>11, <1>12, <1>13 DEF Preparation

\* For every program: what Tame asks for is enough for prepare to get through.
THEOREM TameGetsThrough == Spec => TameNeverStops
<1>1. StateOK /\ BoundsOK /\ [Next]_vars =>
        [pc = "prepare" /\ Eligible /\ Tame => pc' = "check"]_vars
  <2> SUFFICES ASSUME StateOK, BoundsOK, Next, pc = "prepare", Eligible, Tame
               PROVE  pc' = "check"
    OBVIOUS
  <2>1. Prepare
    BY DEF Next, ReportsDirectoryMissing, Begin, TakeFunction, FinishModule, Analyze, EndLoops,
       SelectNothing, Select, SkipCalls, PassCalls, Check, Keep, Sever, Copy, Describe,
       DescribeFails, Fail, Report, ReportFails, Stay, Stopped
  <2> QED
    BY <2>1, TamePreparation DEF Prepare
<1> QED
  BY <1>1, StateInit, BoundsInit, StateKept, BoundsKept, PTL DEF Spec, TameNeverStops

-----------------------------------------------------------------------------
(* What is recorded *)

OfPositions(f) == {k \in DOMAIN results : results[k].fn = f}

RecordPositions(f) ==
  {k \in DOMAIN results :
     /\ results[k].fn = f
     /\ IF results[k].cloned THEN program.exportResults ELSE program.exportFailResults}

Alike(r, s) ==
  DOMAIN r = DOMAIN s /\ \A k \in DOMAIN r : r[k].cloned = s[k].cloned /\ r[k].loop = s[k].loop

\* The results of the current function are of the loops before the current one,
\* and the records are of those among them that are to be recorded.
LoopsCounted ==
  pc \in {"loops", "report"} \cup InLoop =>
    /\ Len(Kept(results, OfPositions(Len(worklist)))) = loop - 1
    /\ loop - 1 <= Len(fn.loops) /\ (pc = "report" => loop - 1 = Len(fn.loops))
    /\ Alike(records, Kept(results, RecordPositions(Len(worklist))))

LEMMA CountedInit == Init => LoopsCounted
  BY DEF Init, LoopsCounted, InLoop

\* One result more is kept at the end or not at all.
KeepsOneMore(s, e, t, P) ==
  /\ Kept(t, P) = Kept(s, P)
  /\ Kept(t, P \cup {Len(s) + 1}) = Append(Kept(s, P), e)
  /\ Kept(s, P) \in Seq(Elems(s))

LEMMA OneMore ==
  ASSUME NEW s, s \in Seq(Elems(s)), NEW e, NEW t, t = Append(s, e), NEW P, P \in SUBSET DOMAIN s
  PROVE  KeepsOneMore(s, e, t, P)
<1>1. PICK S : S = Elems(s) \cup {e}
  OBVIOUS
<1>2. s \in Seq(S) /\ e \in S
  <2>1. PICK R : R = Elems(s)
    OBVIOUS
  <2>2. s \in Seq(R) /\ R \subseteq S
    BY <1>1, <2>1
  <2> QED
    BY <1>1, <2>2
<1>3. /\ Kept(Append(s, e), P) = Kept(s, P)
      /\ Kept(Append(s, e), P \cup {Len(s) + 1}) = Append(Kept(s, P), e)
  BY ONLY <1>2, P \in SUBSET DOMAIN s, KeptAppended
<1>4. PICK R : R = Elems(s)
  OBVIOUS
<1>5. s \in Seq(R)
  BY <1>4
<1>6. Kept(s, P) \in Seq(R)
  BY ONLY <1>5, P \in SUBSET DOMAIN s, KeptElements
<1> QED
  BY <1>3, <1>4, <1>6 DEF KeepsOneMore

LEMMA AlikeLonger ==
  ASSUME NEW R, NEW r \in Seq(R), NEW S, NEW s \in Seq(S), Alike(r, s),
         NEW d, NEW e, d.cloned = e.cloned, d.loop = e.loop
  PROVE  Alike(Append(r, d), Append(s, e))
<1>1. PICK n \in Nat : DOMAIN r = 1 .. n /\ DOMAIN s = 1 .. n /\ Len(r) = n /\ Len(s) = n
  <2>1. DOMAIN r = 1 .. Len(r) /\ DOMAIN s = 1 .. Len(s) /\ Len(r) \in Nat /\ Len(s) \in Nat
    OBVIOUS
  <2>2. DOMAIN r = DOMAIN s
    BY DEF Alike
  <2>3. PICK a, b : a = Len(r) /\ b = Len(s)
    OBVIOUS
  <2>4. a \in Nat /\ b \in Nat /\ \A x : x \in 1 .. a <=> x \in 1 .. b
    BY ONLY <2>1, <2>2, <2>3
  <2>5. a = b
    <3>1. (a \in 1 .. a <=> a \in 1 .. b) /\ (b \in 1 .. a <=> b \in 1 .. b)
      BY ONLY <2>4
    <3> QED
      BY ONLY <2>4, <3>1
  <2> QED
    BY <2>1, <2>3, <2>5
<1>2. PICK u, v : u = Append(r, d) /\ v = Append(s, e)
  OBVIOUS
<1>3. /\ DOMAIN u = 1 .. n + 1 /\ u[n + 1] = d /\ \A k \in 1 .. n : u[k] = r[k]
  <2>1. r \in Seq(R \cup {d})
    OBVIOUS
  <2> QED
    BY <1>1, <1>2, <2>1
<1>4. /\ DOMAIN v = 1 .. n + 1 /\ v[n + 1] = e /\ \A k \in 1 .. n : v[k] = s[k]
  <2>1. s \in Seq(S \cup {e})
    OBVIOUS
  <2> QED
    BY <1>1, <1>2, <2>1
<1>5. \A k \in 1 .. n : r[k].cloned = s[k].cloned /\ r[k].loop = s[k].loop
  BY <1>1 DEF Alike
<1>6. \A k \in 1 .. n + 1 : k = n + 1 \/ k \in 1 .. n
  OBVIOUS
<1>7. Alike(u, v)
  BY <1>3, <1>4, <1>5, <1>6 DEF Alike
<1> QED
  BY <1>2, <1>7

\* A loop is through.
LEMMA LoopThrough ==
  ASSUME WorkOK, RecordsOK, LoopsCounted, pc \in {"specs", "fail"}, pc' = "loops",
         UNCHANGED <<program, worklist>>, loop' = loop + 1,
         NEW c \in BOOLEAN, results' = Append(results, Result(c)),
         IF IF c THEN program.exportResults ELSE program.exportFailResults
           THEN \E r : r.cloned = c /\ r.loop = loop /\ records' = Append(records, r)
           ELSE records' = records
  PROVE  LoopsCounted'
<1>1. PICK f, e : f = Len(worklist) /\ e = Result(c)
  OBVIOUS
<1>2. e.fn = f /\ e.loop = loop /\ e.cloned = c
  BY <1>1 DEF Result
<1>3. PICK s, t : s = results /\ t = results'
  OBVIOUS
<1>4. Lengthened(s, e, t) /\ s \in Seq(Elems(s)) /\ t = Append(s, e)
  BY <1>1, <1>3, AppendKeeps DEF RecordsOK
<1>5. PICK n \in Nat : n = Len(s) /\ DOMAIN s = 1 .. n /\ DOMAIN t = 1 .. n + 1
  BY <1>4 DEF Lengthened
<1>6. t[n + 1] = e /\ \A k \in DOMAIN s : t[k] = s[k]
  BY <1>4, <1>5 DEF Lengthened
<1>7. \A k \in DOMAIN t : k \in DOMAIN s \/ k = n + 1
  BY <1>5
<1>8. fn' = fn /\ loop \in Nat /\ loop \in DOMAIN fn.loops /\ FunctionOK(fn)
  BY FunctionAtHand DEF fn, WorkOK, InLoop, Working, Stopped
<1>9. PICK P, Q : P = OfPositions(f) /\ Q = RecordPositions(f)
  OBVIOUS
<1>10. P \in SUBSET DOMAIN s /\ Q \in SUBSET DOMAIN s
  BY <1>3, <1>9 DEF OfPositions, RecordPositions
<1>11. KeepsOneMore(s, e, t, P) /\ KeepsOneMore(s, e, t, Q)
  BY <1>4, <1>10, OneMore
<1>12. OfPositions(f)' = P \cup {Len(s) + 1}
  <2>1. OfPositions(f)' = {k \in DOMAIN t : t[k].fn = f}
    BY <1>3 DEF OfPositions
  <2>2. P = {k \in DOMAIN s : s[k].fn = f}
    BY <1>3, <1>9 DEF OfPositions
  <2> QED
    BY ONLY <1>2, <1>5, <1>6, <1>7, <2>1, <2>2
<1>13. RecordPositions(f)'
         = IF IF c THEN program.exportResults ELSE program.exportFailResults
           THEN Q \cup {Len(s) + 1} ELSE Q
  <2> DEFINE Wanted(x) == IF x.cloned THEN program.exportResults ELSE program.exportFailResults
  <2>1. RecordPositions(f)' = {k \in DOMAIN t : t[k].fn = f /\ Wanted(t[k])}
    BY <1>3 DEF RecordPositions
  <2>2. Q = {k \in DOMAIN s : s[k].fn = f /\ Wanted(s[k])}
    BY <1>3, <1>9 DEF RecordPositions
  <2>3. Wanted(e) <=> IF c THEN program.exportResults ELSE program.exportFailResults
    BY <1>2
  <2> HIDE DEF Wanted
  <2>4. Wanted(e) => RecordPositions(f)' = Q \cup {Len(s) + 1}
    BY ONLY <1>2, <1>5, <1>6, <1>7, <2>1, <2>2
  <2>5. ~Wanted(e) => RecordPositions(f)' = Q
    BY ONLY <1>2, <1>5, <1>6, <1>7, <2>1, <2>2
  <2> QED
    BY <2>3, <2>4, <2>5
<1>14. /\ Len(Kept(s, P)) = loop - 1 /\ Alike(records, Kept(s, Q))
       /\ Kept(s, P) \in Seq(Elems(s)) /\ Kept(s, Q) \in Seq(Elems(s))
  BY <1>1, <1>3, <1>4, <1>9, <1>10, OneMore DEF LoopsCounted, InLoop, KeepsOneMore
<1>15. Len(Kept(t, OfPositions(f)')) = (loop + 1) - 1
  <2>1. Kept(t, P \cup {Len(s) + 1}) = Append(Kept(s, P), e)
    BY <1>11 DEF KeepsOneMore
  <2>2. PICK k, S : k = Kept(s, P) /\ S = Elems(s)
    OBVIOUS
  <2>3. k \in Seq(S) /\ Len(k) = loop - 1
    BY <1>14, <2>2
  <2>4. k \in Seq(S \cup {e})
    BY ONLY <2>3
  <2>5. Len(Append(k, e)) = Len(k) + 1
    BY ONLY <2>4
  <2> QED
    BY ONLY <1>8, <1>12, <2>1, <2>2, <2>3, <2>5
<1>16. Alike(records', Kept(t, RecordPositions(f)'))
  <2>1. CASE IF c THEN program.exportResults ELSE program.exportFailResults
    <3>1. PICK r : r.cloned = c /\ r.loop = loop /\ records' = Append(records, r)
      BY <2>1
    <3>2. Kept(t, RecordPositions(f)') = Append(Kept(s, Q), e)
      <4>1. Kept(t, Q \cup {Len(s) + 1}) = Append(Kept(s, Q), e)
        BY <1>11 DEF KeepsOneMore
      <4> QED
        BY <1>13, <2>1, <4>1
    <3>3. PICK k, S, R : k = Kept(s, Q) /\ S = Elems(s) /\ R = Elems(records)
      OBVIOUS
    <3>4. k \in Seq(S) /\ records \in Seq(R) /\ Alike(records, k)
      BY <1>14, <3>3 DEF RecordsOK
    <3>5. Alike(Append(records, r), Append(k, e))
      BY ONLY <1>2, <3>1, <3>4, AlikeLonger
    <3> QED
      BY <3>1, <3>2, <3>3, <3>5
  <2>2. CASE ~IF c THEN program.exportResults ELSE program.exportFailResults
    <3>1. Kept(t, RecordPositions(f)') = Kept(s, Q) /\ records' = records
      <4>1. Kept(t, Q) = Kept(s, Q)
        BY <1>11 DEF KeepsOneMore
      <4> QED
        BY <1>13, <2>2, <4>1
    <3> QED
      BY <1>14, <3>1
  <2> QED
    BY <2>1, <2>2
<1>17. (loop + 1) - 1 <= Len(fn.loops)
  <2>1. PICK m \in Nat : DOMAIN fn.loops = 1 .. m /\ m = Len(fn.loops)
    BY <1>8, LoopsOf
  <2> QED
    BY <1>8, <2>1
<1>18. f = Len(worklist')
  BY <1>1
<1> QED
  BY <1>3, <1>8, <1>15, <1>16, <1>17, <1>18 DEF LoopsCounted

\* Steps that leave alone what is recorded.
LEMMA SameCounted ==
  ASSUME LoopsCounted, UNCHANGED <<program, worklist, loop, results, records>>,
         pc' \in {"loops", "report"} \cup InLoop => pc \in {"loops", "report"} \cup InLoop,
         pc' = "report" => pc = "report" \/ loop > Len(fn.loops),
         loop \in Nat, Len(fn.loops) \in Nat
  PROVE  LoopsCounted'
<1>1. fn' = fn
  BY DEF fn
<1>2. /\ OfPositions(Len(worklist))' = OfPositions(Len(worklist))
      /\ RecordPositions(Len(worklist))' = RecordPositions(Len(worklist))
  BY DEF OfPositions, RecordPositions
<1>3. PICK counted, all : /\ counted = Kept(results, OfPositions(Len(worklist)))
                          /\ all = Kept(results, RecordPositions(Len(worklist)))
  OBVIOUS
<1>4. /\ counted = Kept(results', OfPositions(Len(worklist))')
      /\ all = Kept(results', RecordPositions(Len(worklist))')
  BY <1>2, <1>3
<1> QED
  BY <1>1, <1>3, <1>4 DEF LoopsCounted

LEMMA CountedKept == IInv /\ WorkOK /\ RecordsOK /\ LoopsCounted /\ [Next]_vars => LoopsCounted'
<1> SUFFICES ASSUME IInv, WorkOK, RecordsOK, LoopsCounted, [Next]_vars PROVE LoopsCounted'
  OBVIOUS
<1>1. ASSUME pc \in {"loops", "report"} \cup InLoop PROVE Len(fn.loops) \in Nat /\ loop \in Nat
  <2>1. FunctionOK(fn)
    BY <1>1, FunctionAtHand DEF WorkOK, Working, InLoop, Stopped
  <2> QED
    BY <2>1, LoopsOf DEF WorkOK
<1>2. CASE Idle
  <2>1. CASE pc' \in {"loops", "report"} \cup InLoop
    <3>1. pc \in {"loops", "report"} \cup InLoop
      BY <1>2, <2>1 DEF Idle, InLoop
    <3>2. pc' = "report" => pc \in {"loops", "report"}
      BY <1>2 DEF Idle, InLoop
    <3>3. ASSUME pc = "loops", pc' = "report" PROVE loop > Len(fn.loops)
      <4>1. EndLoops
        BY <3>3 DEF Next, vars, ReportsDirectoryMissing, Begin, TakeFunction, FinishModule, Analyze,
           SelectNothing, Select, SkipCalls, PassCalls, Prepare, Check, Keep, Sever, Copy, Describe,
           DescribeFails, Fail, Report, ReportFails, Stay, Stopped
      <4> QED
        BY <4>1 DEF EndLoops
    <3> QED
      BY <1>1, <1>2, <3>1, <3>2, <3>3, SameCounted DEF Idle
  <2>2. CASE pc' \notin {"loops", "report"} \cup InLoop
    BY <2>2 DEF LoopsCounted, InLoop
  <2> QED
    BY <2>1, <2>2
<1>3. CASE TakeFunction
  <2>1. /\ pc = "functions" /\ worklist # <<>> /\ records' = <<>> /\ loop' = 1 /\ pc' = "loops"
        /\ UNCHANGED <<program, worklist, results>> /\ fn' = fn
    BY <1>3 DEF TakeFunction, fn
  <2>2. PICK f : f = Len(worklist)
    OBVIOUS
  <2>3. \A r \in Elems(results) : r.fn \in Nat /\ r.fn > f
    BY <2>1, <2>2 DEF IInv, ResultsPast
  <2>4. f \in Nat
    BY <2>2 DEF WorkOK
  <2>5. \A k \in DOMAIN results : results[k].fn # f
    BY <2>3, <2>4 DEF Elems
  <2>6. OfPositions(f)' = {} /\ RecordPositions(f)' = {}
    BY <2>1, <2>5 DEF OfPositions, RecordPositions
  <2>7. Kept(results', OfPositions(f)') = <<>> /\ Kept(results', RecordPositions(f)') = <<>>
    BY <2>6, KeptNothing
  <2>8. Len(fn.loops) \in Nat
    BY <2>1, FunctionAtHand, LoopsOf
  <2>9. PICK none : none = <<>>
    OBVIOUS
  <2>10. Len(none) = 0 /\ Alike(none, none)
    BY <2>9 DEF Alike
  <2>11. f = Len(worklist')
    BY <2>1, <2>2
  <2>12. /\ Len(Kept(results', OfPositions(f)')) = loop' - 1 /\ loop' - 1 <= Len(fn'.loops)
         /\ Alike(records', Kept(results', RecordPositions(f)'))
    BY <2>1, <2>7, <2>8, <2>9, <2>10
  <2> QED
    BY <2>1, <2>11, <2>12 DEF LoopsCounted
<1>4. CASE Analyze \/ Select \/ Sever \/ Copy
  <2>1. /\ UNCHANGED <<program, worklist, loop, results, records>>
        /\ pc \in {"loops", "select", "sever", "copy"} /\ pc' # "report"
    BY <1>4 DEF Analyze, Select, Sever, Copy, Fails, cloner, made
  <2>2. pc \in {"loops", "report"} \cup InLoop
    BY <2>1 DEF InLoop
  <2> QED
    BY <1>1, <2>1, <2>2, SameCounted
<1>5. CASE Describe
  <2>1. /\ pc = "specs" /\ pc' = "loops" /\ loop' = loop + 1 /\ UNCHANGED <<program, worklist>>
        /\ results' = Append(results, Result(TRUE))
    BY <1>5 DEF Describe, ResultOfClone
  <2>2. PICK c \in BOOLEAN : c = TRUE
    OBVIOUS
  <2>3. IF program.exportResults
        THEN \E r : r.cloned = c /\ r.loop = loop /\ records' = Append(records, r)
        ELSE records' = records
    <3>1. \E specs : records' = IF ~program.exportResults THEN records
                       ELSE Append(records, [loop |-> loop, cloned |-> TRUE, specs |-> specs])
      BY <1>5 DEF Describe
    <3>2. PICK specs : records' = IF ~program.exportResults THEN records
                       ELSE Append(records, [loop |-> loop, cloned |-> TRUE, specs |-> specs])
      BY <3>1
    <3>3. PICK r : r = [loop |-> loop, cloned |-> TRUE, specs |-> specs]
      OBVIOUS
    <3>4. r.cloned = c /\ r.loop = loop
      BY <2>2, <3>3
    <3> QED
      BY <3>2, <3>3, <3>4
  <2> QED
    BY <2>1, <2>2, <2>3, LoopThrough
<1>6. CASE Fail
  <2>1. /\ pc = "fail" /\ pc' = "loops" /\ loop' = loop + 1 /\ UNCHANGED <<program, worklist>>
        /\ results' = Append(results, Result(FALSE))
        /\ records' = IF ~program.exportFailResults THEN records
                      ELSE Append(records, [loop |-> loop, cloned |-> FALSE, specs |-> <<>>])
    BY <1>6 DEF Fail
  <2>2. PICK c \in BOOLEAN : c = FALSE
    OBVIOUS
  <2>3. IF program.exportFailResults
        THEN \E r : r.cloned = c /\ r.loop = loop /\ records' = Append(records, r)
        ELSE records' = records
    <3>1. PICK r : r = [loop |-> loop, cloned |-> FALSE, specs |-> <<>>]
      OBVIOUS
    <3>2. r.cloned = c /\ r.loop = loop
      BY <2>2, <3>1
    <3> QED
      BY <2>1, <3>1, <3>2
  <2> QED
    BY <2>1, <2>2, <2>3, LoopThrough
<1>7. CASE Report
  BY <1>7 DEF Report, LoopsCounted, InLoop
<1> QED
  BY <1>2, <1>3, <1>4, <1>5, <1>6, <1>7, NextIs

LoopsLeft == [i \in DOMAIN worklist |-> Len(program.functions[worklist[i]].loops)]

LEMMA LoopsLeftIs ==
  ASSUME WorkOK
  PROVE  /\ LoopsLeft \in Seq(Nat) /\ Len(LoopsLeft) = Len(worklist)
         /\ Len(worklist) \in Nat /\ DOMAIN LoopsLeft = 1 .. Len(worklist)
         /\ \A i \in DOMAIN LoopsLeft : LoopsLeft[i] = Len(program.functions[worklist[i]].loops)
         /\ worklist # <<>> => Len(worklist) # 0 /\ LoopsLeft # <<>> /\ LoopsLeft[Len(worklist)] = Len(fn.loops)
<1>1. PICK n \in Nat : n = Len(worklist) /\ DOMAIN worklist = 1 .. n
  BY DEF WorkOK
<1>2. \A i \in 1 .. n : worklist[i] \in DOMAIN program.functions
  BY <1>1 DEF WorkOK
<1>3. ASSUME NEW i \in 1 .. n PROVE Len(program.functions[worklist[i]].loops) \in Nat
  <2>1. FunctionOK(program.functions[worklist[i]])
    BY <1>2, ProgramOf DEF WorkOK
  <2> QED
    BY <2>1, LoopsOf
<1>4. LoopsLeft = [i \in 1 .. n |-> Len(program.functions[worklist[i]].loops)]
  BY <1>1 DEF LoopsLeft
<1>5. LoopsLeft \in [1 .. n -> Nat] /\ DOMAIN LoopsLeft = 1 .. n
  BY <1>3, <1>4
<1>6. LoopsLeft \in Seq(Nat) /\ Len(LoopsLeft) = n
  BY <1>5
<1>7. \A i \in 1 .. n : LoopsLeft[i] = Len(program.functions[worklist[i]].loops)
  BY <1>4
<1>8. ASSUME worklist # <<>>
      PROVE  n # 0 /\ LoopsLeft # <<>> /\ LoopsLeft[n] = Len(fn.loops)
  <2>1. n # 0
    <3>1. PICK S : worklist \in Seq(S)
      BY DEF WorkOK
    <3> QED
      BY <1>1, <1>8, <3>1
  <2>2. LoopsLeft # <<>>
    BY <1>6, <2>1
  <2>3. n \in 1 .. n
    BY <2>1
  <2> QED
    BY <1>1, <1>7, <2>1, <2>2, <2>3 DEF fn
<1> QED
  BY <1>1, <1>5, <1>6, <1>7, <1>8

LEMMA SameCardinality == \A S : LR!Cardinality(S) = Cardinality(S)
  BY DEF LR!Cardinality, Cardinality

LEMMA SameKept == \A s, P : LR!Kept(s, P) = Kept(s, P)
<1>1. \A P, p : LR!UpToMember(P, p) = UpToMember(P, p)
  BY DEF LR!UpToMember, UpToMember
<1>2. \A P, n : LR!Nth(P, n) = Nth(P, n)
  BY <1>1, SameCardinality DEF LR!Nth, Nth
<1> QED
  BY <1>2, SameCardinality DEF LR!Kept, Kept

LEMMA SameOfFunction == \A f : LR!OfFunction(f) = Kept(results, OfPositions(f))
  BY SameKept DEF LR!OfFunction, OfPositions

LEMMA SameRecorded == \A f : LR!Recorded(f) = Kept(results, RecordPositions(f))
<1> SUFFICES ASSUME NEW f PROVE LR!Recorded(f) = Kept(results, RecordPositions(f))
  OBVIOUS
<1>1. PICK P : P = RecordPositions(f)
  OBVIOUS
<1>2. P = {k \in DOMAIN results :
             /\ results[k].fn = f
             /\ IF results[k].cloned
                THEN [cloned |-> program.exportResults, failed |-> program.exportFailResults].cloned
                ELSE [cloned |-> program.exportResults, failed |-> program.exportFailResults].failed}
  BY <1>1 DEF RecordPositions
<1>3. LR!Recorded(f) = LR!Kept(results, P)
  BY <1>2 DEF LR!Recorded
<1> QED
  BY <1>1, <1>3, SameKept

LEMMA HandlesLoop ==
  ASSUME WorkOK, LoopsCounted, pc \in {"specs", "fail"},
         UNCHANGED <<program, worklist, written>>,
         NEW c \in BOOLEAN, results' = Append(results, Result(c))
  PROVE  LR!HandleLoop
<1>1. worklist # <<>> /\ loop \in DOMAIN fn.loops /\ FunctionOK(fn) /\ pc \in InLoop
  BY FunctionAtHand DEF WorkOK, Working, InLoop, Stopped
<1>2. PICK n \in Nat : n = Len(fn.loops) /\ DOMAIN fn.loops = 1 .. n
  BY <1>1, LoopsOf
<1>3. PICK f : f = Len(worklist)
  OBVIOUS
<1>4. LoopsLeft # <<>> /\ Len(LoopsLeft) = f /\ LoopsLeft[f] = n
  BY <1>1, <1>2, <1>3, LoopsLeftIs
<1>5. Len(LR!OfFunction(f)) + 1 = loop
  <2>1. Len(LR!OfFunction(f)) = loop - 1
    BY <1>1, <1>3, SameOfFunction DEF LoopsCounted
  <2> QED
    BY <1>1, <1>2, <2>1
<1>6. loop <= n
  BY <1>1, <1>2
<1>7. results' = Append(results, [fn |-> f, loop |-> loop, cloned |-> c])
  BY <1>3 DEF Result
<1>8. LoopsLeft' = LoopsLeft
  BY DEF LoopsLeft
<1>9. /\ LoopsLeft # <<>>
      /\ Len(LR!OfFunction(Len(LoopsLeft))) + 1 <= LoopsLeft[Len(LoopsLeft)]
      /\ \E cloned \in BOOLEAN :
           results' = Append(results, [fn |-> Len(LoopsLeft),
                                       loop |-> Len(LR!OfFunction(Len(LoopsLeft))) + 1,
                                       cloned |-> cloned])
  BY <1>4, <1>5, <1>6, <1>7
<1> QED
  BY <1>8, <1>9 DEF LR!HandleLoop, LoopsLeft

ReportsOf(f, s) ==
  [k \in DOMAIN s |->
     [fn |-> f, cloned |-> s[k].cloned,
      number |-> Cardinality({i \in 1 .. k - 1 : s[i].cloned = s[k].cloned}), loop |-> s[k].loop]]

LEMMA EndsFunction ==
  ASSUME WorkOK, RecordsOK, LoopsCounted, Report
  PROVE  LR!EndFunction
<1>1. /\ pc = "report" /\ worklist # <<>> /\ UNCHANGED <<program, results>>
      /\ worklist' = Front(worklist)
      /\ written' = written \o
           [k \in DOMAIN records |-> [fn |-> Len(worklist), cloned |-> records[k].cloned,
                                      number |-> Number(k), loop |-> records[k].loop]]
  BY DEF Report, WorkOK, Working, Stopped
<1>2. PICK f \in Nat : f = Len(worklist) /\ f # 0
  BY <1>1, LoopsLeftIs
<1>3. /\ LoopsLeft # <<>> /\ Len(LoopsLeft) = f /\ LoopsLeft[f] = Len(fn.loops)
      /\ LoopsLeft \in Seq(Nat) /\ DOMAIN LoopsLeft = 1 .. f
  BY <1>1, <1>2, LoopsLeftIs
<1>4. Len(LR!OfFunction(f)) = LoopsLeft[f]
  BY <1>1, <1>2, <1>3, SameOfFunction DEF LoopsCounted
<1>5. PICK all : all = LR!Recorded(f)
  OBVIOUS
<1>6. Alike(records, all)
  BY <1>1, <1>2, <1>5, SameRecorded DEF LoopsCounted
<1>7. LR!Reports(f) = [k \in DOMAIN records |->
         [fn |-> Len(worklist), cloned |-> records[k].cloned, number |-> Number(k),
          loop |-> records[k].loop]]
  <2>1. LR!Reports(f) = [k \in DOMAIN all |->
          [fn |-> f, cloned |-> all[k].cloned,
           number |-> Cardinality({i \in 1 .. k - 1 : all[i].cloned = all[k].cloned}),
           loop |-> all[k].loop]]
    <3>1. LR!Reports(f) = ReportsOf(f, LR!Recorded(f))
      BY SameCardinality DEF LR!Reports, ReportsOf
    <3>2. LR!Reports(f) = ReportsOf(f, all)
      BY ONLY <1>5, <3>1
    <3> QED
      BY ONLY <3>2 DEF ReportsOf
  <2>2. DOMAIN records = DOMAIN all
    BY <1>6 DEF Alike
  <2>3. PICK n \in Nat : DOMAIN records = 1 .. n
    BY DEF RecordsOK
  <2>4. ASSUME NEW k \in DOMAIN records
        PROVE  /\ all[k].cloned = records[k].cloned /\ all[k].loop = records[k].loop
               /\ Cardinality({i \in 1 .. k - 1 : all[i].cloned = all[k].cloned}) = Number(k)
    <3>1. \A i \in 1 .. k : all[i].cloned = records[i].cloned /\ all[i].loop = records[i].loop
      BY <1>6, <2>3, <2>4 DEF Alike
    <3>2. k \in 1 .. k /\ \A i \in 1 .. k - 1 : i \in 1 .. k
      BY <2>3, <2>4
    <3>3. {i \in 1 .. k - 1 : all[i].cloned = all[k].cloned}
            = {i \in 1 .. k - 1 : records[i].cloned = records[k].cloned}
      BY <3>1, <3>2
    <3> QED
      BY <3>1, <3>2, <3>3 DEF Number
  <2> QED
    BY <1>2, <2>1, <2>2, <2>4
<1>8. LoopsLeft' = SubSeq(LoopsLeft, 1, f - 1)
  <2>1. PICK n \in Nat : n = f - 1 /\ n <= f
    BY <1>2
  <2>2. PICK S : S = DOMAIN program.functions
    OBVIOUS
  <2>3. worklist \in Seq(S) /\ \A i \in 1 .. n : worklist[i] \in S
    BY <1>2, <2>1, <2>2 DEF WorkOK
  <2>4. PICK w : w = SubSeq(worklist, 1, n)
    OBVIOUS
  <2>5. w \in Seq(S) /\ Len(w) = n /\ \A i \in 1 .. n : w[i] = worklist[i]
    BY <2>1, <2>3, <2>4, SubSeqProperties
  <2>6. worklist' = w
    BY <1>1, <1>2, <2>1, <2>4 DEF Front
  <2>7. DOMAIN w = 1 .. n
    BY <2>5
  <2>8. LoopsLeft' = [i \in 1 .. n |-> Len(program.functions[w[i]].loops)]
    BY <1>1, <2>6, <2>7 DEF LoopsLeft
  <2>9. \A i \in 1 .. n : LoopsLeft[i] = Len(program.functions[w[i]].loops)
    <3>1. \A i \in 1 .. f : LoopsLeft[i] = Len(program.functions[worklist[i]].loops)
      BY <1>3, LoopsLeftIs
    <3>2. \A i \in 1 .. n : i \in 1 .. f
      BY <2>1
    <3> QED
      BY ONLY <2>5, <3>1, <3>2
  <2>10. LoopsLeft' = [i \in 1 .. n |-> LoopsLeft[i]]
    BY <2>8, <2>9
  <2>11. SubSeq(LoopsLeft, 1, n) = [i \in 1 .. n |-> LoopsLeft[i]]
    BY <1>3, <2>1
  <2> QED
    BY <2>1, <2>10, <2>11
<1> QED
  BY <1>1, <1>2, <1>3, <1>4, <1>7, <1>8 DEF LR!EndFunction, LoopsLeft

\* The cloner implements LoopRecords: for every program, also one it does not get
\* through, each loop of each function is handled once and in order, and what is
\* reported of a function is what was recorded of its loops, each kind numbered
\* from zero.
THEOREM RecordsAsPromised == Spec => Recording
<1>1. Init => LR!Init
  <2> SUFFICES ASSUME Init PROVE LR!Init
    OBVIOUS
  <2>1. LoopsLeft \in Seq(Nat)
    BY WorkInit, LoopsLeftIs
  <2>2. program.exportResults \in BOOLEAN /\ program.exportFailResults \in BOOLEAN
    BY ProgramAssumption DEF Init
  <2>3. results = <<>> /\ written = <<>>
    BY DEF Init
  <2> QED
    BY <2>1, <2>2, <2>3 DEF LR!Init, LoopsLeft
<1>2. WorkOK /\ RecordsOK /\ LoopsCounted /\ [Next]_vars => [LR!Next]_(LR!vars)
  <2> SUFFICES ASSUME WorkOK, RecordsOK, LoopsCounted, [Next]_vars
               PROVE  [LR!Next]_(LR!vars)
    OBVIOUS
  <2>1. CASE UNCHANGED <<program, worklist, results, written>>
    BY <2>1 DEF LR!vars
  <2>2. CASE Idle \/ TakeFunction \/ Analyze \/ Select \/ Sever \/ Copy
    BY <2>1, <2>2 DEF Idle, TakeFunction, Analyze, Select, Sever, Copy, cloner, made
  <2>3. CASE Describe
    <3>1. /\ pc = "specs" /\ UNCHANGED <<program, worklist, written>>
          /\ results' = Append(results, Result(TRUE))
      BY <2>3 DEF Describe, ResultOfClone
    <3> QED
      BY <3>1, HandlesLoop DEF LR!Next
  <2>4. CASE Fail
    <3>1. /\ pc = "fail" /\ UNCHANGED <<program, worklist, written>>
          /\ results' = Append(results, Result(FALSE))
      BY <2>4 DEF Fail
    <3> QED
      BY <3>1, HandlesLoop DEF LR!Next
  <2>5. CASE Report
    BY <2>5, EndsFunction DEF LR!Next
  <2> QED
    BY <2>2, <2>3, <2>4, <2>5, NextIs
<1> QED
  BY <1>1, <1>2, InitInv, NextInv, WorkInit, WorkKept, RecordsInit, RecordsKept, CountedInit,
     CountedKept, PTL DEF Spec, Recording, LR!Spec

-----------------------------------------------------------------------------
(* The graph of a clone *)

\* An edge between blocks the function had is one it had.
LEMMA OriginalEdge ==
  ASSUME GraphOK, Working, NEW e \in cfg.edges, e[1] \in DOMAIN fn.code, e[2] \in DOMAIN fn.code
  PROVE  e = <<e[1], e[2]>> /\ e \in fn.edges
<1>1. GraphShape /\ Parts /\ EdgesKept /\ LeadOn
  BY DEF GraphOK
<1>2. e = <<e[1], e[2]>>
  BY <1>1 DEF GraphShape
<1>3. e[1] \notin DOMAIN cfg.rest
  <2> SUFFICES ASSUME e[1] \in DOMAIN cfg.rest PROVE FALSE
    OBVIOUS
  <2>1. {x \in cfg.edges : x[1] = e[1]} = {<<e[1], cfg.rest[e[1]]>>}
    BY <1>1 DEF LeadOn
  <2>2. e = <<e[1], cfg.rest[e[1]]>>
    BY <2>1
  <2>3. e[2] = cfg.rest[e[1]]
    BY <1>2, <2>2
  <2> QED
    BY <1>1, <2>3 DEF Parts
<1>4. e[1] \in LastParts
  BY <1>1, <1>3 DEF LastParts, Parts
<1>5. cfg.of[e[1]] = e[1] /\ cfg.of[e[2]] = e[2]
  BY <1>1 DEF Parts
<1>6. <<cfg.of[e[1]], cfg.of[e[2]]>> \in fn.edges
  BY <1>1, <1>4 DEF EdgesKept
<1> QED
  BY <1>2, <1>5, <1>6

\* Apart from the header of the loop, the first block of a region has a way in
\* from outside: from a block before it in the traversal.
LEMMA FirstEntered ==
  ASSUME WorkOK, RegionOK, pc = "sever", region.header # cur.header
  PROVE  region.header \in Entries
<1>1. PICK D, h : D = Reached(loop) /\ h = fn.loops[loop].header
  OBVIOUS
<1>2. PICK order : /\ Ordered(D, h, order)
                   /\ \E P \in SUBSET DOMAIN order : region.blocks = Kept(order, P)
  BY <1>1 DEF RegionOK, Chosen
<1>3. PICK P \in SUBSET DOMAIN order : region.blocks = Kept(order, P)
  BY <1>2
<1>4. order \in Seq(D)
  BY <1>2 DEF Ordered
<1>5. PICK k : k = region.blocks
  OBVIOUS
<1>6. PICK l \in Nat : DOMAIN order = 1 .. l
  BY <1>4
<1>7. /\ Cardinality(P) \in Nat /\ DOMAIN k = 1 .. Cardinality(P) /\ k \in Seq(D)
      /\ \A i \in DOMAIN k : \E p \in P : p = Nth(P, i) /\ k[i] = order[p]
  <2>1. P \in SUBSET DOMAIN order
    OBVIOUS
  <2>2. /\ Cardinality(P) \in Nat /\ DOMAIN Kept(order, P) = 1 .. Cardinality(P)
        /\ Kept(order, P) \in Seq(D)
    BY ONLY <1>4, <2>1, KeptElements
  <2>3. \A i \in DOMAIN Kept(order, P) : \E p \in P : p = Nth(P, i) /\ Kept(order, P)[i] = order[p]
    BY ONLY <1>4, <2>1, KeptElements
  <2> QED
    BY ONLY <1>3, <1>5, <2>2, <2>3
<1>8. P \in SUBSET (1 .. l)
  BY <1>6
<1>9. \A i, j \in 1 .. Cardinality(P) : i < j => Nth(P, i) < Nth(P, j)
  BY ONLY <1>6, <1>8, NthMember
<1>10. k # <<>> /\ k[1] = region.header /\ region.now = Elems(k)
  BY <1>5 DEF RegionOK, Chosen
<1>11. 1 \in DOMAIN k
  BY <1>7, <1>10
<1>12. PICK p \in P : p = Nth(P, 1) /\ region.header = order[p]
  BY <1>7, <1>10, <1>11
<1>13. region.header \in region.now
  BY <1>10, <1>11 DEF Elems
<1>14. order[p] # h /\ p \in DOMAIN order
  BY <1>1, <1>6, <1>8, <1>12 DEF cur
<1>15. PICK i \in DOMAIN order : i < p /\ <<order[i], order[p]>> \in cfg.edges
  BY <1>2, <1>14 DEF Ordered
<1>16. order[i] \notin region.now
  <2> SUFFICES ASSUME NEW j \in DOMAIN k, k[j] = order[i] PROVE FALSE
    BY <1>10 DEF Elems
  <2>1. PICK q \in P : q = Nth(P, j) /\ k[j] = order[q]
    BY <1>7
  <2>2. p \in Nat /\ q \in Nat /\ q \in DOMAIN order
    BY <1>6, <1>8
  <2>3. p <= q
    <3>1. j = 1 \/ 1 < j
      BY <1>7
    <3> QED
      BY <1>7, <1>9, <1>11, <1>12, <2>1, <2>2, <3>1
  <2>4. i < q
    BY <1>6, <1>15, <2>2, <2>3
  <2>5. order[i] # order[q]
    BY <1>2, <2>2, <2>4 DEF Ordered
  <2> QED
    BY <2>1, <2>5
<1>17. PICK e \in cfg.edges : e = <<order[i], region.header>>
  BY <1>12, <1>15
<1>18. e[1] = order[i] /\ e[2] = region.header
  BY <1>17
<1>19. order[i] \in PredsOf(region.header)
  BY <1>17, <1>18 DEF PredsOf
<1> QED
  BY <1>13, <1>16, <1>19 DEF Entries

\* The header of the loop has one as well, if it is not the whole region.
LEMMA HeaderEntered ==
  ASSUME WorkOK, RegionOK, GraphOK, pc = "sever", cur.header \in region.now
  PROVE  region.now = {cur.header} \/ cur.header \in Entries
<1>1. PICK B, H, D : B = cur.blocks /\ H = cur.header /\ D = Reached(loop)
  OBVIOUS
<1>2. FunctionOK(fn) /\ loop \in DOMAIN fn.loops /\ Working
  BY FunctionAtHand DEF WorkOK, Working, Stopped, InLoop
<1>3. region.now \subseteq D /\ D \subseteq B /\ B \subseteq DOMAIN fn.code
  BY <1>1, RegionType DEF Chosen, cur
<1>4. H \in D /\ \A S : H \in S /\ ClosedIn(B, cfg.edges, S) => D \subseteq S
  BY <1>1, <1>2, ReachedIs DEF cur
<1>5. Parts /\ EdgesKept /\ OneLast /\ LeadOn /\ GraphShape
  BY <1>2 DEF GraphOK
<1>6. CASE H \in DOMAIN cfg.rest
  <2>1. {x \in cfg.edges : x[1] = H} = {<<H, cfg.rest[H]>>}
    BY <1>5, <1>6 DEF LeadOn
  <2>2. cfg.rest[H] \notin DOMAIN fn.code
    BY <1>5, <1>6 DEF Parts
  <2>3. ClosedIn(B, cfg.edges, {H})
    <3> SUFFICES ASSUME NEW b \in B, <<H, b>> \in cfg.edges PROVE FALSE
      BY DEF ClosedIn
    <3>1. <<H, b>> = <<H, cfg.rest[H]>>
      BY <2>1
    <3>2. b = cfg.rest[H]
      BY <3>1
    <3> QED
      BY <1>3, <2>2, <3>2
  <2>4. D \subseteq {H}
    BY <1>4, <2>3
  <2> QED
    BY <1>1, <1>3, <2>4
<1>7. CASE H \notin DOMAIN cfg.rest
  <2>1. H \in DOMAIN fn.code
    BY <1>3, <1>4
  <2>2. \A p \in DOMAIN cfg.rest : cfg.of[p] # H
    <3> SUFFICES ASSUME NEW p \in DOMAIN cfg.rest, cfg.of[p] = H PROVE FALSE
      OBVIOUS
    <3>1. p \in DOMAIN cfg.code
      BY <1>5 DEF GraphShape
    <3>2. CASE p \in DOMAIN fn.code
      BY <1>5, <1>7, <3>2 DEF Parts
    <3>3. CASE p \notin DOMAIN fn.code
      BY <1>5, <1>7, <3>1, <3>3 DEF Parts
    <3> QED
      BY <3>2, <3>3
  <2>3. Unsplit(H)
    BY <2>1, <2>2 DEF Unsplit
  <2>4. PICK e \in fn.edges : e[2] = H /\ e[1] \notin B
    BY <1>1, <1>2 DEF FunctionOK, LoopOK, cur
  <2>5. PICK x \in cfg.edges : e = <<cfg.of[x[1]], cfg.of[x[2]]>>
    BY <1>5 DEF EdgesKept
  <2>6. e[1] = cfg.of[x[1]] /\ e[2] = cfg.of[x[2]]
    BY <2>5
  <2>7. x[1] \in DOMAIN cfg.code /\ x[2] \in DOMAIN cfg.code
    BY <1>5 DEF GraphShape
  <2>8. x[2] = H
    BY <1>2, <2>3, <2>4, <2>6, <2>7, UnsplitIs
  <2>9. x[1] \notin region.now
    <3> SUFFICES ASSUME x[1] \in region.now PROVE FALSE
      OBVIOUS
    <3>1. x[1] \in B /\ x[1] \in DOMAIN fn.code
      BY <1>3
    <3>2. cfg.of[x[1]] = x[1]
      BY <1>5, <3>1 DEF Parts
    <3> QED
      BY <2>4, <2>6, <3>1, <3>2
  <2>10. x[1] \in PredsOf(H)
    BY <2>8 DEF PredsOf
  <2> QED
    BY <1>1, <2>9, <2>10 DEF Entries
<1> QED
  BY <1>6, <1>7

\* A region with one way in is entered at its first block, from which all of it
\* can be reached.
EnteredAtFirst ==
  /\ Entries = {region.header} /\ region.header \in region.now
  /\ \A S : region.header \in S /\ ClosedIn(region.now, cfg.edges, S) => region.now \subseteq S

LEMMA SingleEntry ==
  ASSUME WorkOK, RegionOK, GraphOK, pc = "sever", Cardinality(Entries) = 1
  PROVE  EnteredAtFirst
<1>1. PICK h, B, H, D, R : /\ h = region.header /\ B = cur.blocks /\ H = cur.header
                           /\ D = Reached(loop) /\ R = region.now
  OBVIOUS
<1>2. FunctionOK(fn) /\ loop \in DOMAIN fn.loops /\ Working
  BY FunctionAtHand DEF WorkOK, Working, Stopped, InLoop
<1>3. h \in R /\ R \subseteq D /\ D \subseteq B /\ B \subseteq DOMAIN fn.code
  BY <1>1, RegionType DEF RegionOK, Chosen, cur
<1>4. H \in D /\ ClosedIn(B, cfg.edges, D)
      /\ \A S : H \in S /\ ClosedIn(B, cfg.edges, S) => D \subseteq S
  BY <1>1, <1>2, ReachedIs DEF cur
<1>5. \E x : Entries = {x}
  <2>1. IsFiniteSet(Entries)
    <3>1. Entries \subseteq DOMAIN fn.code
      BY <1>1, <1>3 DEF Entries
    <3> QED
      BY <1>2, <3>1, FS_Subset DEF FunctionOK
  <2> QED
    BY <2>1, FS_Singleton
<1>6. Entries = {h} /\ (H \in R => H = h)
  <2>1. Entries \subseteq R /\ Entries # {}
    BY <1>1, <1>5 DEF Entries
  <2>2. CASE R = {H}
    BY <1>3, <1>5, <2>1, <2>2
  <2>3. CASE R # {H}
    <3>1. H \in R => H \in Entries
      BY <1>1, <2>3, HeaderEntered
    <3>2. h # H => h \in Entries
      BY <1>1, FirstEntered
    <3> QED
      BY <1>3, <1>5, <3>1, <3>2
  <2> QED
    BY <2>2, <2>3
<1>7. ASSUME NEW S, h \in S, ClosedIn(R, cfg.edges, S) PROVE R \subseteq S
  <2> DEFINE T == (D \ R) \cup (S \cap R)
  <2>1. H \in T
    BY <1>4, <1>6, <1>7
  <2>2. ClosedIn(B, cfg.edges, T)
    <3> SUFFICES ASSUME NEW p \in T, NEW b \in B, <<p, b>> \in cfg.edges PROVE b \in T
      BY DEF ClosedIn
    <3>1. b \in D
      BY <1>3, <1>4 DEF ClosedIn
    <3>2. CASE b \notin R
      BY <3>1, <3>2
    <3>3. CASE b \in R /\ p \in R
      BY <1>7, <3>3 DEF ClosedIn
    <3>4. CASE b \in R /\ p \notin R
      <4>1. PICK e \in cfg.edges : e = <<p, b>>
        OBVIOUS
      <4>2. e[1] = p /\ e[2] = b
        BY <4>1
      <4>3. p \in PredsOf(b)
        BY <4>2 DEF PredsOf
      <4>4. b \in Entries
        BY <1>1, <3>4, <4>3 DEF Entries
      <4> QED
        BY <1>6, <1>7, <3>4, <4>4
    <3> QED
      BY <3>2, <3>3, <3>4
  <2>3. D \subseteq T
    BY <1>4, <2>1, <2>2
  <2> QED
    BY <1>3, <2>3
<1> QED
  BY <1>1, <1>3, <1>6, <1>7 DEF EnteredAtFirst

\* And, before the region is copied, from one block only if there are phi nodes.
Severed ==
  pc = "copy" /\ Cardinality(Entries) = 1 =>
    /\ EnteredAtFirst
    /\ region.header \in cfg.phis => \E p : PredsOf(region.header) \ region.now = {p}

LEMMA KeepSevered == ASSUME WorkOK, RegionOK, GraphOK, Keep PROVE Severed'
<1>1. pc = "sever" /\ ~Merges /\ UNCHANGED <<cfg, region>>
  BY DEF Keep
<1>2. Entries' = Entries /\ EnteredAtFirst' = EnteredAtFirst
  BY <1>1 DEF Entries, EnteredAtFirst, PredsOf, ClosedIn
<1> SUFFICES ASSUME Cardinality(Entries) = 1
             PROVE  /\ EnteredAtFirst
                    /\ region.header \in cfg.phis => \E p : PredsOf(region.header) \ region.now = {p}
  BY <1>1, <1>2 DEF Severed, PredsOf
<1>3. EnteredAtFirst
  BY <1>1, SingleEntry
<1>4. ASSUME region.header \in cfg.phis PROVE \E p : PredsOf(region.header) \ region.now = {p}
  <2>1. PICK P : P = PredsOf(region.header) \ region.now
    OBVIOUS
  <2>2. P # {}
    BY <1>3, <2>1 DEF EnteredAtFirst, Entries
  <2>3. ~(Cardinality(P) > 1)
    BY <1>1, <1>4, <2>1 DEF Merges
  <2>4. IsFiniteSet(P)
    <3>1. GraphShape /\ Parts
      BY <1>1 DEF GraphOK, Working, Stopped
    <3>2. P \subseteq DOMAIN cfg.code
      BY <2>1, <3>1 DEF GraphShape, PredsOf
    <3> QED
      BY <3>1, <3>2, FS_Subset DEF Parts
  <2>5. Cardinality(P) \in Nat /\ Cardinality(P) # 0
    BY <2>2, <2>4, FS_CardinalityType, FS_EmptySet
  <2>6. Cardinality(P) = 1
    BY ONLY <2>3, <2>5
  <2>7. \E p : P = {p}
    BY <2>4, <2>6, FS_Singleton
  <2> QED
    BY <2>1, <2>7
<1> QED
  BY <1>3, <1>4

LEMMA SeverSevered == ASSUME WorkOK, RegionOK, GraphOK, Sever PROVE Severed'
<1>1. PICK b, n, back : b = region.header /\ n = Fresh /\ back = PredsOf(b) \cap region.now
  OBVIOUS
<1>2. Splits(b, n, back)
  BY <1>1, SeverIs
<1>3. PICK R, E, F : R = region.now /\ E = cfg.edges /\ F = cfg'.edges
  OBVIOUS
<1>4. PICK Q : Q = (R \ {b}) \cup {n}
  OBVIOUS
<1>5. pc = "sever" /\ Working /\ GraphShape
  BY <1>2 DEF Splits, GraphOK
<1>6. region'.now = Q /\ region'.header = n /\ cfg'.edges = F
  <2>1. \E x : region = [blocks |-> region.blocks, now |-> x, header |-> region.header] \/ TRUE
    OBVIOUS
  <2> QED
    BY <1>2, <1>3, <1>4 DEF Splits
<1>7. b \in R /\ b \in DOMAIN cfg.code /\ n \notin DOMAIN cfg.code /\ R \subseteq DOMAIN cfg.code /\ n # b
  BY <1>2, <1>3, <1>5, RegionType DEF Splits, GraphOK, Parts, Chosen
<1>8. \A e \in E : e = <<e[1], e[2]>> /\ e[1] \in DOMAIN cfg.code /\ e[2] \in DOMAIN cfg.code
  BY <1>3, <1>5 DEF GraphShape
<1>9. F = {Moved(e, b, n, back) : e \in E} \cup {<<b, n>>}
  BY <1>2, <1>3 DEF Splits
<1>10. \A p : p \in back <=> p \in R /\ <<p, b>> \in E
  BY <1>1, <1>3, <1>8 DEF PredsOf
<1>11. ASSUME NEW c, NEW p PROVE c \in R \ {b} /\ p # b /\ p # n => (<<p, c>> \in F <=> <<p, c>> \in E)
  <2> SUFFICES ASSUME c \in R \ {b}, p # b, p # n PROVE <<p, c>> \in F <=> <<p, c>> \in E
    OBVIOUS
  <2>1. ASSUME <<p, c>> \in F PROVE <<p, c>> \in E
    <3>1. <<p, c>> # <<b, n>>
      OBVIOUS
    <3>2. PICK e \in E : <<p, c>> = Moved(e, b, n, back)
      BY <1>9, <2>1, <3>1
    <3>3. /\ p = IF e[1] = b THEN n ELSE e[1]
          /\ c = IF e[2] = b /\ e[1] \in back THEN n ELSE e[2]
      BY <3>2 DEF Moved
    <3>4. p = e[1] /\ c = e[2]
      BY <1>7, <3>3
    <3> QED
      BY <1>8, <3>4
  <2>2. ASSUME <<p, c>> \in E PROVE <<p, c>> \in F
    <3>1. PICK e \in E : e = <<p, c>>
      BY <2>2
    <3>2. e[1] = p /\ e[2] = c
      BY <3>1
    <3>3. Moved(e, b, n, back) = <<p, c>>
      BY <3>2 DEF Moved
    <3> QED
      BY <1>9, <3>3
  <2> QED
    BY <2>1, <2>2
<1>12. ASSUME NEW c \in R \ {b} PROVE <<n, c>> \in F <=> <<b, c>> \in E
  <2>1. ASSUME <<n, c>> \in F PROVE <<b, c>> \in E
    <3>1. <<n, c>> # <<b, n>>
      BY <1>7
    <3>2. PICK e \in E : <<n, c>> = Moved(e, b, n, back)
      BY <1>9, <2>1, <3>1
    <3>3. /\ n = IF e[1] = b THEN n ELSE e[1]
          /\ c = IF e[2] = b /\ e[1] \in back THEN n ELSE e[2]
      BY <3>2 DEF Moved
    <3>4. b = e[1] /\ c = e[2]
      BY <1>7, <1>8, <3>3
    <3> QED
      BY <1>8, <3>4
  <2>2. ASSUME <<b, c>> \in E PROVE <<n, c>> \in F
    <3>1. PICK e \in E : e = <<b, c>>
      BY <2>2
    <3>2. e[1] = b /\ e[2] = c
      BY <3>1
    <3>3. Moved(e, b, n, back) = <<n, c>>
      BY <3>2 DEF Moved
    <3> QED
      BY <1>9, <3>3
  <2> QED
    BY <2>1, <2>2
<1>13. ASSUME NEW p PROVE <<p, n>> \in F => p = b \/ p \in Q
  <2> SUFFICES ASSUME <<p, n>> \in F, p # b PROVE p \in Q
    OBVIOUS
  <2>1. <<p, n>> # <<b, n>>
    OBVIOUS
  <2>2. PICK e \in E : <<p, n>> = Moved(e, b, n, back)
    BY <1>9, <2>1
  <2>3. /\ p = IF e[1] = b THEN n ELSE e[1]
        /\ n = IF e[2] = b /\ e[1] \in back THEN n ELSE e[2]
    BY <2>2 DEF Moved
  <2>4. e[1] \in back
    BY <1>7, <1>8, <2>3
  <2>5. e[1] \in R
    BY <1>10, <2>4
  <2> QED
    BY <1>4, <2>3, <2>5
<1>14. \A c, p : p \in PredsOf(c)' <=> <<p, c>> \in F
  <2>1. \A e \in F : e = <<e[1], e[2]>>
    BY <1>9 DEF Moved
  <2>2. \A c : PredsOf(c)' = {e[1] : e \in {x \in F : x[2] = c}}
    BY <1>6 DEF PredsOf
  <2> QED
    BY ONLY <2>1, <2>2
<1>15. <<b, n>> \in F /\ b \notin Q
  BY <1>4, <1>7, <1>9
<1>16. PredsOf(n)' \ Q = {b}
  BY <1>13, <1>14, <1>15
<1>17. n \in Entries'
  BY <1>4, <1>6, <1>14, <1>15 DEF Entries
<1> SUFFICES ASSUME Cardinality(Entries') = 1 PROVE EnteredAtFirst'
  BY <1>6, <1>16 DEF Severed
<1>18. Entries' = {n}
  <2>1. IsFiniteSet(Entries')
    <3>1. IsFiniteSet(DOMAIN cfg.code) /\ R \subseteq DOMAIN cfg.code
      BY <1>5, <1>7 DEF GraphOK, Parts
    <3>2. IsFiniteSet(R)
      BY <3>1, FS_Subset
    <3>3. IsFiniteSet(R \cup {n})
      BY <3>2, FS_AddElement
    <3>4. Entries' \subseteq R \cup {n}
      BY <1>4, <1>6 DEF Entries
    <3> QED
      BY <3>3, <3>4, FS_Subset
  <2> QED
    BY <1>17, <2>1, FS_Singleton
<1>19. Entries = {b}
  <2>1. b \in Entries
    <3>1. Merges
      BY DEF Sever
    <3>2. PICK P : P = PredsOf(b) \ region.now
      OBVIOUS
    <3>3. Cardinality(P) > 1
      BY <1>1, <3>1, <3>2 DEF Merges
    <3>4. P # {}
      BY <3>3, FS_EmptySet
    <3> QED
      BY <1>3, <1>7, <3>2, <3>4 DEF Entries
  <2>2. ASSUME NEW c \in Entries, c # b PROVE FALSE
    <3>1. PICK p : c \in R /\ p \in PredsOf(c) /\ p \notin R
      BY <1>3 DEF Entries
    <3>2. <<p, c>> \in E /\ p # b /\ p # n
      BY <1>3, <1>7, <1>8, <3>1 DEF PredsOf
    <3>3. <<p, c>> \in F
      BY <1>11, <2>2, <3>1, <3>2
    <3>4. c \in Q /\ p \notin Q /\ c # n
      BY <1>4, <1>7, <2>2, <3>1, <3>2
    <3>5. c \in Entries'
      BY <1>6, <1>14, <3>3, <3>4 DEF Entries
    <3> QED
      BY <1>18, <3>4, <3>5
  <2> QED
    BY <2>1, <2>2
<1>20. \A S : b \in S /\ ClosedIn(R, E, S) => R \subseteq S
  <2>1. Cardinality(Entries) = 1
    BY <1>19, FS_Singleton
  <2> QED
    BY <1>1, <1>3, <1>5, <2>1, SingleEntry DEF EnteredAtFirst
<1>21. ASSUME NEW S, n \in S, ClosedIn(Q, F, S) PROVE Q \subseteq S
  <2> DEFINE T == {x \in R \ {b} : x \in S} \cup {b}
  <2>1. ClosedIn(R, E, T)
    <3> SUFFICES ASSUME NEW p \in T, NEW c \in R, <<p, c>> \in E, c # b PROVE c \in S
      BY DEF ClosedIn
    <3>1. c \in Q
      BY <1>4
    <3>2. CASE p = b
      BY <1>12, <1>21, <3>1, <3>2 DEF ClosedIn
    <3>3. CASE p # b
      <4>1. p \in S /\ p \in R /\ p # n
        BY <1>7, <3>3
      <4>2. <<p, c>> \in F
        BY <1>11, <3>3, <4>1
      <4> QED
        BY <1>21, <3>1, <4>1, <4>2 DEF ClosedIn
    <3> QED
      BY <3>2, <3>3
  <2>2. R \subseteq T
    BY <1>20, <2>1
  <2> QED
    BY <1>4, <1>21, <2>2
<1>22. n \in Q
  BY <1>4
<1> QED
  BY <1>6, <1>18, <1>21, <1>22 DEF EnteredAtFirst, ClosedIn

LEMMA SeveredKept == StateOK /\ Severed /\ [Next]_vars => Severed'
<1> SUFFICES ASSUME StateOK, Severed, [Next]_vars, pc' = "copy" PROVE Severed'
  BY DEF Severed
<1>1. WorkOK /\ RegionOK /\ GraphOK
  BY DEF StateOK
<1>2. CASE Idle
  <2>1. UNCHANGED <<cfg, region>> /\ (pc = "copy" \/ (pc = "sever" /\ ~Merges))
    BY <1>2 DEF Idle
  <2>2. CASE pc = "copy"
    BY <2>1, <2>2 DEF Severed, EnteredAtFirst, Entries, PredsOf, ClosedIn
  <2>3. CASE pc = "sever" /\ ~Merges
    BY <1>1, <1>2, <2>3, KeepSevered DEF Keep, Idle, cloner, made
  <2> QED
    BY <2>1, <2>2, <2>3
<1>3. CASE Sever
  BY <1>1, <1>3, SeverSevered
<1>4. ASSUME TakeFunction \/ Analyze \/ Select \/ Copy \/ Describe \/ Fail \/ Report PROVE FALSE
  BY <1>4 DEF TakeFunction, Analyze, Select, Copy, Describe, Fail, Report, Fails
<1> QED
  BY <1>2, <1>3, <1>4, NextIs

LEMMA SeveredInit == Init => Severed
  BY DEF Init, Severed

\* The blocks of a clone that lead to another, and those that can be reached.
ClonePreds(c, b) == {e[1] : e \in {x \in c.edges : x[2] = b}}

CloneWithin(c, w) ==
  w = [n \in 0 .. Cardinality(c.blocks) |->
         IF n = 0 THEN {c.header}
         ELSE UNION {{p} \cup {b \in c.blocks : p \in ClonePreds(c, b)} : p \in w[n - 1]}]

LEMMA CloneWithinIs ==
  ASSUME NEW c, \A e \in c.edges : e = <<e[1], e[2]>>, NEW w
  PROVE  CloneWithin(c, w) <=> Within(c.blocks, c.edges, c.header, w)
<1>1. ASSUME NEW s
      PROVE  UNION {{p} \cup {b \in c.blocks : p \in ClonePreds(c, b)} : p \in s}
               = Grown(c.blocks, c.edges, s)
  <2>1. \A p, b : p \in ClonePreds(c, b) <=> <<p, b>> \in c.edges
    BY DEF ClonePreds
  <2>2. PICK grown : grown = UNION {{p} \cup {b \in c.blocks : p \in ClonePreds(c, b)} : p \in s}
    OBVIOUS
  <2>3. \A x : x \in grown <=> \E p \in s : x = p \/ (x \in c.blocks /\ p \in ClonePreds(c, x))
    BY <2>2
  <2>4. \A x : x \in Grown(c.blocks, c.edges, s) <=>
                \E p \in s : x = p \/ (x \in c.blocks /\ <<p, x>> \in c.edges)
    <3>1. PICK B, E : B = c.blocks /\ E = c.edges
      OBVIOUS
    <3>2. \A x : x \in Grown(B, E, s) <=> \E p \in s : x \in {p} \cup {b \in B : <<p, b>> \in E}
      BY ONLY DEF Grown
    <3>3. \A x, p : x \in {p} \cup {b \in B : <<p, b>> \in E} <=> x = p \/ (x \in B /\ <<p, x>> \in E)
      BY ONLY TRUE
    <3> QED
      BY ONLY <3>1, <3>2, <3>3
  <2>5. \A x : x \in grown <=> x \in Grown(c.blocks, c.edges, s)
    BY ONLY <2>1, <2>3, <2>4
  <2> QED
    BY <2>2, <2>5
<1> QED
  BY <1>1 DEF CloneWithin, Within

\* From a graph to the sets it is checked by.
LEMMA CloneReached ==
  ASSUME NEW c, \A e \in c.edges : e = <<e[1], e[2]>>, IsFiniteSet(c.blocks), c.header \in c.blocks,
         \A S : c.header \in S /\ ClosedIn(c.blocks, c.edges, S) => c.blocks \subseteq S
  PROVE  LET within == CHOOSE w : CloneWithin(c, w) IN c.blocks = within[Cardinality(c.blocks)]
<1>1. PICK B, E, h : B = c.blocks /\ E = c.edges /\ h = c.header
  OBVIOUS
<1>2. \E w : Within(B, E, h, w)
  BY <1>1, WithinExists
<1>3. PICK v : v = CHOOSE w : CloneWithin(c, w)
  OBVIOUS
<1>4. CloneWithin(c, v)
  BY <1>1, <1>2, <1>3, CloneWithinIs
<1>5. Within(B, E, h, v)
  BY <1>1, <1>4, CloneWithinIs
<1>6. /\ v[Cardinality(B)] \in SUBSET B /\ h \in v[Cardinality(B)]
      /\ ClosedIn(B, E, v[Cardinality(B)])
  BY <1>1, <1>5, WithinCloses
<1>7. B \subseteq v[Cardinality(B)]
  BY <1>1, <1>6
<1> QED
  BY <1>1, <1>3, <1>6, <1>7

\* What a set of blocks has in common with one it can be matched with.
LEMMA Matched ==
  ASSUME NEW S, NEW T, NEW f, IsFiniteSet(T), f \in [T -> S],
         \A x, y \in T : f[x] = f[y] => x = y, S = {f[x] : x \in T}
  PROVE  Cardinality(S) = Cardinality(T)
<1>1. f \in Bijection(T, S)
  BY DEF Bijection, Injection, Surjection, IsInjective
<1> QED
  BY <1>1, FS_Bijection DEF ExistsBijection

CloneSound(c) ==
  LET within == CHOOSE w : CloneWithin(c, w)
  IN  /\ c.blocks = within[Cardinality(c.blocks)]
      /\ \A b \in DOMAIN c.incoming :
           /\ {v.from : v \in c.incoming[b]} = ClonePreds(c, b)
           /\ Cardinality(c.incoming[b]) = Cardinality(ClonePreds(c, b))

\* The edges to a block of the clone: from the root to its first, and those the
\* region has.
LEMMA CloneEdges ==
  ASSUME WorkOK, RegionOK, GraphOK, pc = "copy", NEW E, E = Clone.edges
  PROVE  /\ \A e \in E : e = <<e[1], e[2]>>
         /\ \A p, b : b \in region.now =>
              (<<p, b>> \in E <=> \/ p = Root /\ b = region.header
                                  \/ p \in region.now /\ p \in PredsOf(b))
<1>1. PICK R, h, F : R = region.now /\ h = region.header /\ F = cfg.edges
  OBVIOUS
<1>2. R \subseteq Nat \ {0} /\ \A e \in F : e = <<e[1], e[2]>>
  <2>1. GraphShape /\ Parts
    BY DEF GraphOK, Working, Stopped
  <2> QED
    BY <1>1, <2>1 DEF RegionOK, GraphShape, Parts
<1>3. E = {<<Root, h>>} \cup {<<e[1], IF e[2] \in R THEN e[2] ELSE Exit>> : e \in {x \in F : x[1] \in R}}
  BY <1>1 DEF Clone, Inside
<1>4. \A e \in E : e = <<e[1], e[2]>>
  BY <1>3
<1>5. Exit \notin R
  BY <1>2 DEF Exit
<1>6. \A p, b : p \in PredsOf(b) <=> <<p, b>> \in F
  BY <1>1, <1>2 DEF PredsOf
<1>7. ASSUME NEW p, NEW b, b \in R
      PROVE  <<p, b>> \in E <=> (p = Root /\ b = h) \/ (p \in R /\ <<p, b>> \in F)
  <2>1. ASSUME <<p, b>> \in E PROVE (p = Root /\ b = h) \/ (p \in R /\ <<p, b>> \in F)
    <3>1. CASE <<p, b>> = <<Root, h>>
      BY <3>1
    <3>2. CASE <<p, b>> # <<Root, h>>
      <4>1. PICK e \in F : e[1] \in R /\ <<p, b>> = <<e[1], IF e[2] \in R THEN e[2] ELSE Exit>>
        BY <1>3, <2>1, <3>2
      <4>2. p = e[1] /\ b = IF e[2] \in R THEN e[2] ELSE Exit
        BY <4>1
      <4>3. b = e[2]
        BY <1>5, <1>7, <4>2
      <4> QED
        BY <1>2, <4>1, <4>2, <4>3
    <3> QED
      BY <3>1, <3>2
  <2>2. ASSUME p \in R, <<p, b>> \in F PROVE <<p, b>> \in E
    <3>1. PICK e \in F : e = <<p, b>>
      BY <2>2
    <3>2. e[1] = p /\ e[2] = b
      BY <3>1
    <3> QED
      BY <1>3, <1>7, <2>2, <3>2
  <2> QED
    BY <1>3, <2>1, <2>2
<1> QED
  BY <1>1, <1>4, <1>6, <1>7

\* Every block of a clone is reached.
LEMMA CloneWhole ==
  ASSUME StateOK, Severed, pc = "copy", Cardinality(Entries) = 1
  PROVE  LET within == CHOOSE w : CloneWithin(Clone, w)
         IN  Clone.blocks = within[Cardinality(Clone.blocks)]
<1>1. PICK c : c = Clone
  OBVIOUS
<1>2. PICK R, h, E, F : R = region.now /\ h = region.header /\ E = c.edges /\ F = cfg.edges
  OBVIOUS
<1>3. c.blocks = R /\ c.header = h
  BY <1>1, <1>2 DEF Clone
<1>4. /\ \A e \in E : e = <<e[1], e[2]>>
      /\ \A p, b : b \in R => (<<p, b>> \in E <=> (p = Root /\ b = h) \/ (p \in R /\ p \in PredsOf(b)))
  BY <1>1, <1>2, CloneEdges DEF StateOK
<1>5. h \in R /\ \A S : h \in S /\ ClosedIn(R, F, S) => R \subseteq S
  BY <1>2 DEF Severed, EnteredAtFirst
<1>6. GraphShape /\ Parts /\ R \subseteq DOMAIN cfg.code
  BY <1>2 DEF StateOK, GraphOK, Working, Stopped, RegionOK
<1>7. IsFiniteSet(R)
  BY <1>6, FS_Subset DEF Parts
<1>8. \A p, b : <<p, b>> \in F => p \in PredsOf(b)
  <2> SUFFICES ASSUME NEW p, NEW b, <<p, b>> \in F PROVE p \in PredsOf(b)
    OBVIOUS
  <2>1. PICK e \in cfg.edges : e = <<p, b>>
    BY <1>2
  <2>2. e[1] = p /\ e[2] = b
    BY <2>1
  <2> QED
    BY <2>2 DEF PredsOf
<1>9. ASSUME NEW S, h \in S, ClosedIn(R, E, S) PROVE R \subseteq S
  <2>1. ClosedIn(R, F, S \cap R)
    <3> SUFFICES ASSUME NEW p \in S \cap R, NEW b \in R, <<p, b>> \in F PROVE b \in S
      BY DEF ClosedIn
    <3>1. <<p, b>> \in E
      BY <1>4, <1>8
    <3> QED
      BY <1>9, <3>1 DEF ClosedIn
  <2> QED
    BY <1>5, <1>9, <2>1
<1>10. /\ \A e \in c.edges : e = <<e[1], e[2]>>
       /\ IsFiniteSet(c.blocks) /\ c.header \in c.blocks
       /\ \A S : c.header \in S /\ ClosedIn(c.blocks, c.edges, S) => c.blocks \subseteq S
  BY <1>2, <1>3, <1>4, <1>5, <1>7, <1>9
<1>11. LET within == CHOOSE w : CloneWithin(c, w) IN c.blocks = within[Cardinality(c.blocks)]
  BY <1>10, CloneReached
<1> QED
  BY <1>1, <1>11

\* And its phi nodes have one value for each way into their block.
LEMMA CloneMerges ==
  ASSUME StateOK, Severed, pc = "copy", Cardinality(Entries) = 1,
         NEW b \in cfg.phis \cap region.now
  PROVE  /\ {v.from : v \in Incoming(b)} = ClonePreds(Clone, b)
         /\ Cardinality(Incoming(b)) = Cardinality(ClonePreds(Clone, b))
<1>1. PICK R, h, E, P, Q : /\ R = region.now /\ h = region.header /\ E = Clone.edges
                           /\ P = PredsOf(b) /\ Q = ClonePreds(Clone, b)
  OBVIOUS
<1>2. /\ \A e \in E : e = <<e[1], e[2]>>
      /\ \A p : <<p, b>> \in E <=> (p = Root /\ b = h) \/ (p \in R /\ p \in P)
  BY <1>1, CloneEdges DEF StateOK
<1>3. \A p : p \in Q <=> (p = Root /\ b = h) \/ (p \in R /\ p \in P)
  <2>1. Q = {e[1] : e \in {x \in E : x[2] = b}}
    BY <1>1 DEF ClonePreds
  <2>2. \A p : p \in Q <=> <<p, b>> \in E
    BY ONLY <1>2, <2>1
  <2> QED
    BY <1>2, <2>2
<1>4. GraphShape /\ Parts /\ R \subseteq DOMAIN cfg.code
  BY <1>1 DEF StateOK, GraphOK, Working, Stopped, RegionOK
<1>5. P \subseteq DOMAIN cfg.code
  BY <1>1, <1>4 DEF GraphShape, PredsOf
<1>6. IsFiniteSet(P) /\ P \subseteq Nat \ {0}
  BY <1>4, <1>5, FS_Subset DEF Parts
<1>7. /\ b # h => P \subseteq R
      /\ b = h => \E p : P \ R = {p}
  BY <1>1 DEF Severed, EnteredAtFirst, Entries
<1>8. PICK from : from = [p \in P |-> IF b = h /\ p \notin R THEN Root ELSE p]
  OBVIOUS
<1>9. \A p \in P : from[p] = IF b = h /\ p \notin R THEN Root ELSE p
  BY <1>8
<1>10. \A p, q \in P : from[p] = from[q] => p = q
  BY <1>6, <1>7, <1>9 DEF Root
<1>11. Q = {from[p] : p \in P}
  <2>1. ASSUME NEW q \in Q PROVE \E p \in P : from[p] = q
    BY <1>3, <1>7, <1>9, <2>1
  <2>2. ASSUME NEW p \in P PROVE from[p] \in Q
    BY <1>3, <1>7, <1>9, <2>2
  <2> QED
    BY <2>1, <2>2
<1>12. from \in [P -> Q]
  BY <1>8, <1>11
<1>13. Cardinality(Q) = Cardinality(P)
  BY <1>6, <1>10, <1>11, <1>12, Matched
<1>14. PICK V : V = Incoming(b)
  OBVIOUS
<1>15. PICK value : value = [p \in P |-> [of |-> p, from |-> from[p]]]
  OBVIOUS
<1>16. V = {value[p] : p \in P}
  BY <1>1, <1>9, <1>14, <1>15 DEF Incoming, Inside
<1>17. \A p \in P : value[p].of = p /\ value[p].from = from[p]
  BY <1>15
<1>18. Cardinality(V) = Cardinality(P)
  <2>1. value \in [P -> V] /\ \A p, q \in P : value[p] = value[q] => p = q
    BY <1>15, <1>16, <1>17
  <2> QED
    BY <1>6, <1>16, <2>1, Matched
<1>19. {v.from : v \in V} = Q
  BY <1>11, <1>16, <1>17
<1> QED
  BY <1>1, <1>13, <1>14, <1>18, <1>19

\* Whatever the graph is, and however often it has been split: a clone of a
\* region with one way in can be reached as a whole, and its phi nodes have one
\* value for each way into their block.
THEOREM CloneGraphsSound == Spec => []CloneGraphSound
<1>1. StateOK /\ Severed => CloneGraphSound
  <2> SUFFICES ASSUME StateOK, Severed, pc = "copy", Cardinality(Entries) = 1
               PROVE  CloneSound(Clone)
    BY DEF CloneGraphSound, CloneSound, CloneWithin, ClonePreds
  <2>1. Clone.incoming = [b \in cfg.phis \cap region.now |-> Incoming(b)]
    BY DEF Clone
  <2> QED
    BY <2>1, CloneWhole, CloneMerges DEF CloneSound
<1> QED
  BY <1>1, StateInit, SeveredInit, StateKept, SeveredKept, PTL DEF Spec
=============================================================================
