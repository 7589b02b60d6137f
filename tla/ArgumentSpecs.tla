---------------------------- MODULE ArgumentSpecs ----------------------------
(***************************************************************************)
(* What the specification of a cloned function says of its arguments:      *)
(* MemoryAccessInfo's answers about reads and writes, and the direction    *)
(* GenerateArgDirection derives from them.                                 *)
(*                                                                         *)
(* code is the sequence of the instructions that matter here, each         *)
(*   [op, callee, effect, args, locs, used]                                *)
(* with op one of load, store, call and marker (a call of an intrinsic     *)
(* that IsIgnoredIntrinsic names); what a call does to memory by the       *)
(* annotation of the function (effect), the names of its pointer           *)
(* arguments, the locations it, a load or a store goes to through          *)
(* pointers, and whether the value of a marker is used.  Two accesses      *)
(* alias if they go to the same location.                                  *)
(*                                                                         *)
(* A value is [name, form, from, to]: a scalar, a pointer that is          *)
(* computed, a pointer that is loaded, an argument or a global variable;   *)
(* from is the location it is loaded from, if it is, and to the one it     *)
(* points to, if it does.                                                  *)
(***************************************************************************)
EXTENDS Integers, Sequences, FiniteSets, FiniteSetsExt

NoLocation == "none"

Effects == {"none", "writes", "reads", "readsArgs", "accessesArgs", "inaccessible",
            "inaccessibleOrArgs", "unknown"}

Forms == {"scalar", "pointer", "loaded scalar", "loaded pointer", "argument", "global"}

Pointers == {"pointer", "loaded pointer", "argument", "global"}

Directions == {"Inbound", "Outbound", "Both"}

IsCall(i) == i.op \in {"call", "marker"}

\* What a call may do: FunctionModRefBehavior, as bits.
EffectBits(effect) ==
  CASE effect = "none" -> {}
    [] effect = "writes" -> {"mod"}
    [] effect \in {"reads", "readsArgs"} -> {"ref"}
    [] OTHER -> {"ref", "mod"}

\* AAResults::getModRefInfo.  Without a location everything but the kind of
\* access is left open.
ModRef(i, loc) ==
  LET bits == CASE i.op = "load" -> {"ref"} [] i.op = "store" -> {"mod"}
                [] OTHER -> EffectBits(i.effect)
      aliases ==
        IF IsCall(i) THEN \/ i.effect \in {"writes", "reads", "unknown"}
                          \/ (i.effect # "inaccessible" /\ loc \in i.locs)
        ELSE loc \in i.locs
  IN  IF loc = NoLocation \/ aliases THEN bits ELSE {}

\* MemoryLocation::getOrNone: the location an instruction accesses itself, not
\* the one its value points to.
LocationOf(v) == IF v.form \in {"loaded scalar", "loaded pointer"} THEN v.from ELSE NoLocation

\* Whether the annotation of the called function settles a question about
\* value v; the answer if it does not access other memory.
ByCall(v, i, answers) ==
  IF ~IsCall(i) \/ i.effect = "none" THEN "no"
  ELSE IF i.callee = "indirect" THEN "null function"
  ELSE IF i.effect \in {"unknown", "inaccessible", "inaccessibleOrArgs"} THEN "unreachable"
  ELSE IF i.effect \in answers.always \/ (i.effect \in answers.args /\ v.name \in i.args)
       THEN "yes" ELSE "no"

IsReadByCall(v, i) ==
  ByCall(v, i, [always |-> {"reads"}, args |-> {"readsArgs", "accessesArgs"}])

IsWrittenByCall(v, i) == ByCall(v, i, [always |-> {}, args |-> {"accessesArgs"}])

\* The first instruction that settles the question ends the walk.
FirstAnswer(answer) ==
  LET settled == {k \in DOMAIN answer : answer[k] # "no"}
  IN  IF settled = {} THEN "no" ELSE answer[Min(settled)]

\* MemoryAccessInfo::isRead and isWrite.  Nothing is known of arguments and
\* globals but what the option atrox-ignore-aliasing says.
IsRead(v, code, ignoreAliasing) ==
  IF v.form \in {"argument", "global"} THEN IF ignoreAliasing THEN "yes" ELSE "no"
  ELSE FirstAnswer([k \in DOMAIN code |->
         IF ModRef(code[k], LocationOf(v)) = {"ref"} THEN "yes" ELSE IsReadByCall(v, code[k])])

\* Mutant: an access that may also read is no write.
IsWriteOnly(v, code, ignoreAliasing) ==
  IF v.form \in {"argument", "global"} THEN IF ignoreAliasing THEN "yes" ELSE "no"
  ELSE FirstAnswer([k \in DOMAIN code |->
         IF ModRef(code[k], LocationOf(v)) = {"mod"} THEN "yes" ELSE IsWrittenByCall(v, code[k])])

IsWrite(v, code, ignoreAliasing) ==
  IF v.form \in {"argument", "global"} THEN IF ignoreAliasing THEN "yes" ELSE "no"
  ELSE FirstAnswer([k \in DOMAIN code |->
         IF "mod" \in ModRef(code[k], LocationOf(v)) THEN "yes" ELSE IsWrittenByCall(v, code[k])])

\* GenerateArgDirection for an input: a direction, or how it fails.
InputDirection(v, code, ignoreAliasing) ==
  LET write == IsWrite(v, code, ignoreAliasing)
      read == IsRead(v, code, ignoreAliasing)
  IN  IF v.form \notin Pointers \/ write = "no" THEN "Inbound"
      ELSE IF write # "yes" THEN write
      ELSE CASE read = "no" -> "Outbound" [] read = "yes" -> "Both" [] OTHER -> read

OutputDirection(v, code, ignoreAliasing) ==
  LET read == IsRead(v, code, ignoreAliasing)
  IN  CASE read = "no" -> "Outbound" [] read = "yes" -> "Both" [] OTHER -> read

-----------------------------------------------------------------------------
\* CallDetector, with a module: calls of functions that have a body, or that
\* are not known.  Intrinsics are declarations.
DetectsCall(code) ==
  \E k \in DOMAIN code : code[k].op = "call" /\ code[k].callee \in {"defined", "indirect"}

\* InstructionEraser: an instruction whose value is used cannot be erased.
EraserFails(code) == \E k \in DOMAIN code : code[k].op = "marker" /\ code[k].used
=============================================================================
