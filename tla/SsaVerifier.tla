---------------------------- MODULE SsaVerifier ----------------------------
(***************************************************************************)
(* ssa::Verifier::verify: phases that each stop at what they report, a     *)
(* search for the reachable blocks, the dominators as the greatest         *)
(* fixpoint of sweeps over the blocks in layout order, and the uses.       *)
(***************************************************************************)
EXTENDS Ssa

VARIABLES
  function,      \* the function and the table of its call targets
  phase,         \* the check that comes next, or the verdict
  definitions,   \* value -> the place that defines it
  reachable, pending,   \* blocks
  dominates,     \* block -> the blocks that are held to dominate it
  sweep,         \* the block a sweep has come to, and whether it changed anything
  reports        \* what the last check reported

verifierVars ==
  <<function, phase, definitions, reachable, pending, dominates, sweep, reports>>

Fn == function.fn
Targets == function.targets
Phases == {"signature", "layout", "definitions", "entry", "reach", "dominators", "uses"}
Verdicts == {"accepted", "rejected"}

VerifierInit(functions) ==
  /\ function \in functions
  /\ phase = "signature"
  /\ definitions = <<>> /\ reachable = {} /\ pending = <<>>
  /\ dominates = <<>> /\ sweep = [block |-> 0, changed |-> FALSE]
  /\ reports = {}

-----------------------------------------------------------------------------
\* A check that reports something ends the verification.
Check(current, next, reported) ==
  /\ phase = current
  /\ \E r \in {reported} : reports' = r /\ phase' = IF r = {} THEN next ELSE "rejected"
  /\ UNCHANGED function

CheckSignature ==
  /\ Check("signature", "layout", TargetReports(Fn, Targets) \cup SignatureReports(Fn))
  /\ UNCHANGED <<definitions, reachable, pending, dominates, sweep>>

CheckLayout ==
  /\ Check("layout", "definitions", LayoutReports(Fn))
  /\ UNCHANGED <<definitions, reachable, pending, dominates, sweep>>

CheckDefinitions ==
  /\ Check("definitions", "entry", DefinitionReports(Fn))
  /\ definitions' = DefinitionsIn(Fn)
  /\ UNCHANGED <<reachable, pending, dominates, sweep>>

CheckEntry ==
  /\ Check("entry", "reach", Report(Predecessors(Fn, 1) # {}, "predecessor of entry"))
  /\ reachable' = {1} /\ pending' = <<1>>
  /\ UNCHANGED <<definitions, dominates, sweep>>

\* The successors that have not been reached, each of them once.
NewSuccessors(b) ==
  LET new == SelectSeq(SuccessorsOf(Fn, b), LAMBDA s : s \notin reachable)
  IN IF Len(new) = 2 /\ new[1] = new[2] THEN <<new[1]>> ELSE new

\* One block is taken from the queue.
VisitBlock ==
  /\ phase = "reach" /\ pending # <<>>
  /\ \E new \in {NewSuccessors(Head(pending))} :
       /\ reachable' = reachable \cup ToSet(new)
       /\ pending' = Tail(pending) \o new
  /\ UNCHANGED <<function, phase, definitions, dominates, sweep, reports>>

StartSweep == [block |-> 2, changed |-> FALSE]

CheckReachable ==
  /\ pending = <<>>
  /\ Check("reach", "dominators", Report(reachable # Blocks(Fn), "unreachable block"))
  /\ dominates' = [b \in Blocks(Fn) |-> IF b = 1 THEN {1} ELSE Blocks(Fn)]
  /\ sweep' = StartSweep
  /\ UNCHANGED <<definitions, reachable, pending>>

\* Seeded fault: a block that dominates one predecessor is kept.
MeetAny(b) ==
  {b} \cup {d \in Blocks(Fn) : \E a \in Predecessors(Fn, b) : d \in dominates[a]}

\* Seeded fault: a block is not its own dominator.
MeetWithoutSelf(b) == {d \in Blocks(Fn) : \A a \in Predecessors(Fn, b) : d \in dominates[a]}

Meet(b) ==
  {b} \cup {d \in Blocks(Fn) : \A a \in Predecessors(Fn, b) : d \in dominates[a]}

\* Seeded fault: a sweep always counts as a change.
ChangedAlways(b) == TRUE

Changed(b) == Meet(b) # dominates[b]

SweepBlock ==
  /\ phase = "dominators" /\ sweep.block \in Blocks(Fn)
  /\ dominates' = [dominates EXCEPT ![sweep.block] = Meet(sweep.block)]
  /\ sweep' = [block |-> sweep.block + 1, changed |-> sweep.changed \/ Changed(sweep.block)]
  /\ UNCHANGED <<function, phase, definitions, reachable, pending, reports>>

EndSweep ==
  /\ phase = "dominators" /\ sweep.block \notin Blocks(Fn)
  /\ IF sweep.changed THEN sweep' = StartSweep /\ UNCHANGED phase
     ELSE phase' = "uses" /\ UNCHANGED sweep
  /\ UNCHANGED <<function, definitions, reachable, pending, dominates, reports>>

\* Seeded fault: an operand may be the result of its own instruction.
PrecedesLoose(definition, use) == definition.position <= use.position

Precedes(definition, use) == definition.position < use.position

UseReports(use) ==
  IF ~ValidValue(Fn, use.value) THEN {"undefined use"}
  ELSE LET definition == definitions[use.value]
       IN Report(Fn.valueTypes[use.value] # use.type, "type of use")
          \cup Report(definition.block = use.block /\ ~Precedes(definition, use), "order of use")
          \cup Report(definition.block # use.block /\ definition.block \notin dominates[use.block],
                      "dominance of use")

AllUses == UNION {UsesIn(Fn, Targets, b) : b \in Blocks(Fn)}

CheckUses ==
  /\ Check("uses", "accepted",
           ArityReports(Fn, Targets) \cup (UNION {UseReports(u) : u \in AllUses}))
  /\ UNCHANGED <<definitions, reachable, pending, dominates, sweep>>

VerifierNext ==
  \/ CheckSignature \/ CheckLayout \/ CheckDefinitions \/ CheckEntry
  \/ VisitBlock \/ CheckReachable
  \/ SweepBlock \/ EndSweep \/ CheckUses

-----------------------------------------------------------------------------
(* Dominance by paths, and what a use needs.                               *)

\* The blocks on the paths from the entry that never enter block d.
StepsWithout(fn, d) ==
  LET within[n \in Blocks(fn)] ==
        IF n = 1 THEN {1} \ {d}
        ELSE within[n - 1] \cup ((UNION {ToSet(SuccessorsOf(fn, b)) : b \in within[n - 1]}) \ {d})
  IN within
WithoutBlock(fn, d) == StepsWithout(fn, d)[Len(fn.blocks)]

DominatesByPaths(fn, d, b) == b \notin WithoutBlock(fn, d)

\* On every path to the use its value has been defined before.
DefinedOnEveryPath(use) ==
  \E s \in Sites(Fn) :
    /\ s.value = use.value
    /\ IF s.block = use.block THEN s.position < use.position
       ELSE DominatesByPaths(Fn, s.block, use.block)

\* The fixpoint is dominance: no more (values would be read that a path does
\* not define) and no less (correct functions would be refused), and it has been
\* reached when a whole sweep changes nothing.
DominatorsExact ==
  phase = "uses" =>
    \A b, d \in Blocks(Fn) : d \in dominates[b] <=> DominatesByPaths(Fn, d, b)

\* A function that fails only for the place of its uses has a path on which a
\* value is used before it is defined.
PlacesRefusedForReason ==
  phase = "rejected" /\ reports # {} /\ reports \subseteq {"order of use", "dominance of use"} =>
    \E u \in AllUses : ~DefinedOnEveryPath(u)

\* The dominators that the sweeps arrive at are those of the definition by paths,
\* and the uses refused because of them are those that a path reaches undefined.
DominanceExact == DominatorsExact /\ PlacesRefusedForReason
=============================================================================
