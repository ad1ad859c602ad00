----------------------------- MODULE SsaMachine -----------------------------
(***************************************************************************)
(* What a function in SSA form means, and why it is verified: an accepted  *)
(* function is executed on values abstracted to their types, with both     *)
(* ways of a condition.  The arguments of an edge become the parameters of *)
(* its target, all at once.                                                *)
(***************************************************************************)
EXTENDS SsaVerifier

CONSTANT Functions   \* records of a function and a table of call targets

IsVector(s) == s \in Seq({s[k] : k \in DOMAIN s})

\* The vectors of a Function, whatever is in them.
Vectors(fn) ==
  /\ IsVector(fn.blocks) /\ IsVector(fn.parameterTypes)
  /\ \A b \in DOMAIN fn.blocks :
       IsVector(fn.blocks[b].parameters) /\ IsVector(fn.blocks[b].instructions)

ASSUME FunctionsAssumption == \A f \in Functions : Vectors(f.fn)

VARIABLES
  at,    \* block and position, position 0 before the start
  env    \* value -> its type, or "undefined"

vars == <<verifierVars, at, env>>

NotStarted == [block |-> NoBlock, position |-> 0]

Init == VerifierInit(Functions) /\ at = NotStarted /\ env = <<>>

Verify == VerifierNext /\ UNCHANGED <<at, env>>

Enter ==
  /\ phase = "accepted" /\ at = NotStarted
  /\ at' = [block |-> 1, position |-> 1]
  /\ env' = [v \in DOMAIN Fn.valueTypes |-> "undefined"]
  /\ UNCHANGED verifierVars

Started == at # NotStarted
Code == Fn.blocks[at.block].instructions
Finished == Started /\ at.position > Len(Code) + 1

\* The type of what an instruction computes, by what it is.
Computed(i) ==
  CASE i.op = "parameter" -> Fn.parameterTypes[i.index]
    [] i.op = "compare"   -> "boolean"
    [] i.op \in CallOps   -> TargetOf(Targets, i.callee).returnType
    [] OTHER              -> i.type

Execute ==
  /\ Started /\ at.position \in DOMAIN Code
  /\ LET i == Code[at.position]
     IN env' = IF i.op = "callVoid" THEN env ELSE [env EXCEPT ![i.result] = Computed(i)]
  /\ at' = [at EXCEPT !.position = @ + 1]
  /\ UNCHANGED verifierVars

Leave ==
  /\ Started /\ at.position = Len(Code) + 1
  /\ LET t == Fn.blocks[at.block].terminator
     IN \/ \E edge \in ToSet(Edges(t)) :
             LET parameters == Fn.blocks[edge.target].parameters
                 Number(v) == CHOOSE n \in DOMAIN parameters : parameters[n].value = v
             IN /\ at' = [block |-> edge.target, position |-> 1]
                /\ env' = [v \in DOMAIN env |->
                             IF \E n \in DOMAIN parameters : parameters[n].value = v
                             THEN env[edge.arguments[Number(v)]] ELSE env[v]]
        \/ /\ Edges(t) = <<>>
           /\ at' = [at EXCEPT !.position = @ + 1]
           /\ UNCHANGED env
  /\ UNCHANGED verifierVars

Next == Verify \/ Enter \/ Execute \/ Leave

Spec == Init /\ [][Next]_vars /\ WF_vars(Verify)

-----------------------------------------------------------------------------
(* Properties.                                                             *)

\* An accepted function never reads a value that no instruction or edge has
\* defined on the way, nor one of another type, whichever way its branches go.
ReadsAreDefined ==
  Started =>
    \A u \in UsesIn(Fn, Targets, at.block) :
      u.position = at.position => env[u.value] = u.type

\* Every function is accepted or rejected.
SsaVerifierConcludes == <>(phase \in Verdicts)
=============================================================================
