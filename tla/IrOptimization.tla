--------------------------- MODULE IrOptimization ---------------------------
(***************************************************************************)
(* The four passes over verified IR and the helpers they share.  Each is a *)
(* function from IR to IR; the pipeline that verifies after every pass is  *)
(* in JitPipeline.  Facts are partial functions from values to words.      *)
(***************************************************************************)
EXTENDS Ir

Folds(i) == i.op = "arithmetic" /\ i.type = "i64" /\ i.operator \in {"add", "sub", "mul"}
Compares(i) == i.op = "compare" /\ i.type = "i64"

\* Seeded fault: a division is thought to have no effect but its result.
IsPureWithDivision(i) ==
  \/ i.op = "constant" /\ i.type = "i64"
  \/ i.op = "load"
  \/ i.op = "negate" /\ i.type = "i64"
  \/ i.op = "arithmetic" /\ i.type = "i64"
  \/ Compares(i)

IsPure(i) ==
  \/ i.op = "constant" /\ i.type = "i64"
  \/ i.op = "load"
  \/ i.op = "negate" /\ i.type = "i64"
  \/ Folds(i)
  \/ Compares(i)

EachInstruction(fn, Replace(_)) ==
  [fn EXCEPT !.blocks = [b \in DOMAIN fn.blocks |->
     [fn.blocks[b] EXCEPT !.instructions = [n \in DOMAIN @ |-> Replace(@[n])]]]]

\* A map with one more key, or another value for one that it has.
Assigned(map, key, value) ==
  [k \in DOMAIN map \cup {key} |-> IF k = key THEN value ELSE map[k]]

-----------------------------------------------------------------------------
(* Constant facts: what the i64 constants of a function imply.             *)

Learn(facts, i) ==
  LET known == i.uses # <<>> /\ ToSet(i.uses) \subseteq DOMAIN facts.i64
      word(k) == facts.i64[i.uses[k]]
  IN IF i.op = "constant" /\ i.type = "i64"
     THEN [facts EXCEPT !.i64 = Assigned(@, i.result, i.word)]
     ELSE IF ~known THEN facts
     ELSE IF i.op = "negate" THEN [facts EXCEPT !.i64 = Assigned(@, i.result, Wrap(-word(1)))]
     ELSE IF Folds(i)
     THEN [facts EXCEPT !.i64 = Assigned(@, i.result, I64(i.operator, word(1), word(2)))]
     ELSE IF Compares(i)
     THEN [facts EXCEPT !.boolean = Assigned(@, i.result, Related(i.operator, word(1), word(2)))]
     ELSE facts

ConstantFacts(fn) ==
  FoldLeft(Learn, [i64 |-> <<>>, boolean |-> <<>>], Instructions(fn))

FoldConstants(fn) ==
  LET facts == ConstantFacts(fn)
      folded(i) == IF (i.op = "negate" \/ Folds(i)) /\ i.result \in DOMAIN facts.i64
                   THEN Constant(i.result, "i64", facts.i64[i.result])
                   ELSE i
  IN EachInstruction(fn, folded)

-----------------------------------------------------------------------------
(* Constant propagation through the locals of one block.                   *)

\* The constants held by values, and by locals in the current epoch.
PropagateInstruction(s, i) ==
  IF i.op = "constant" /\ i.type = "i64"
  THEN [s EXCEPT !.values = Assigned(@, i.result, i.word), !.instructions = Append(@, i)]
  ELSE IF i.op = "load" /\ i.local \in DOMAIN s.locals
  THEN [s EXCEPT !.values = Assigned(@, i.result, s.locals[i.local]),
                 !.instructions = Append(@, Constant(i.result, "i64", s.locals[i.local]))]
  ELSE IF i.op = "store"
  THEN [s EXCEPT !.locals = IF i.uses[1] \in DOMAIN s.values
                            THEN Assigned(@, i.local, s.values[i.uses[1]])
                            ELSE [l \in DOMAIN @ \ {i.local} |-> @[l]],
                 !.instructions = Append(@, i)]
  ELSE [s EXCEPT !.instructions = Append(@, i)]

\* Seeded fault: what a block knows of the locals is believed in the next one.
PropagateBlockOnward(s, block) ==
  LET t == FoldLeft(PropagateInstruction, [s EXCEPT !.instructions = <<>>], block.instructions)
  IN [t EXCEPT !.blocks = Append(@, [block EXCEPT !.instructions = t.instructions])]

\* Every block is an epoch: it knows nothing of the locals when it begins.
PropagateBlock(s, block) ==
  LET t == FoldLeft(PropagateInstruction,
                    [s EXCEPT !.instructions = <<>>, !.locals = <<>>],
                    block.instructions)
  IN [t EXCEPT !.blocks = Append(@, [block EXCEPT !.instructions = t.instructions])]

PropagateConstants(fn) ==
  LET s == FoldLeft(PropagateBlock,
                    [values |-> <<>>, locals |-> <<>>, instructions |-> <<>>, blocks |-> <<>>],
                    fn.blocks)
  IN [fn EXCEPT !.blocks = s.blocks]

-----------------------------------------------------------------------------
(* Removing blocks and instructions, and numbering what is left.           *)

\* The values that are still defined are numbered in layout order; a value
\* that is not defined any more is no value.
CompactValues(fn) ==
  LET old == Definitions(fn)
      new(v) == IF v \in ToSet(old) THEN CHOOSE k \in DOMAIN old : old[k] = v ELSE NoValue
      renamed(i) == [i EXCEPT !.result = new(@), !.uses = [k \in DOMAIN @ |-> new(@[k])]]
      blocks == EachInstruction(fn, renamed).blocks
  IN [fn EXCEPT !.valueTypes = [k \in DOMAIN old |-> fn.valueTypes[old[k]]],
                !.blocks = [b \in DOMAIN blocks |->
                              [blocks[b] EXCEPT !.terminator.value = new(@)]]]

\* Seeded fault: the two targets of a decided branch are confused.
DecideSwapped(t, facts) ==
  IF t.kind # "branchIfFalse" THEN t
  ELSE IF t.value \in DOMAIN facts.boolean
  THEN Branch(IF facts.boolean[t.value] THEN t.falseTarget ELSE t.trueTarget)
  ELSE IF t.falseTarget = t.trueTarget THEN Branch(t.trueTarget)
  ELSE t

Decide(t, facts) ==
  IF t.kind # "branchIfFalse" THEN t
  ELSE IF t.value \in DOMAIN facts.boolean
  THEN Branch(IF facts.boolean[t.value] THEN t.trueTarget ELSE t.falseTarget)
  ELSE IF t.falseTarget = t.trueTarget THEN Branch(t.trueTarget)
  ELSE t

\* Seeded fault: the blocks that no path enters stay.
RemainingAll(blocks) == [b \in DOMAIN blocks |-> b]

\* The numbers of the blocks that stay, in order.
Remaining(blocks) == InOrder(ReachableBlocks(blocks), Len(blocks))

SimplifyCfg(fn) ==
  LET facts == ConstantFacts(fn)
      decided == [b \in DOMAIN fn.blocks |->
                    [fn.blocks[b] EXCEPT !.terminator = Decide(@, facts)]]
      kept == Remaining(decided)
      new(b) == IF b \in ToSet(kept) THEN CHOOSE k \in DOMAIN kept : kept[k] = b ELSE NoBlock
      renumbered(t) == [t EXCEPT !.trueTarget = new(@), !.falseTarget = new(@)]
  IN CompactValues([fn EXCEPT !.blocks = [k \in DOMAIN kept |->
       [decided[kept[k]] EXCEPT !.id = k, !.terminator = renumbered(@)]]])

\* Backwards through a block: the live values, and the instructions kept.
KeepIfNeeded(s, i) ==
  IF IsPure(i) /\ i.result \notin s.live THEN s
  ELSE [live |-> (s.live \ {i.result}) \cup ToSet(i.uses), kept |-> <<i>> \o s.kept]

LiveAtEnd(t) == IF t.kind \in {"branchIfFalse", "returnValue"} THEN {t.value} ELSE {}

EliminateDeadCode(fn) ==
  CompactValues([fn EXCEPT !.blocks = [b \in DOMAIN fn.blocks |->
    [fn.blocks[b] EXCEPT !.instructions =
       FoldLeft(KeepIfNeeded, [live |-> LiveAtEnd(fn.blocks[b].terminator), kept |-> <<>>],
                Reverse(@)).kept]]])
=============================================================================
