-------------------------- MODULE BytecodeVerifier --------------------------
(***************************************************************************)
(* Verifier::verify: structural checks, then for each user function a data *)
(* flow over a queue of instructions.  incoming[f] is the vector of        *)
(* optional states: a partial function from the instructions reached.      *)
(* Every diagnostic rejects the program; the flow goes on to find more.    *)
(***************************************************************************)
EXTENDS Bytecode

CONSTANTS
  Programs   \* the programs given to the verifier, valid or not

IsSequence(s) == s \in Seq({s[k] : k \in DOMAIN s})

\* The vectors and the count of slots of a Function, whatever is in them.
ASSUME ProgramsAssumption ==
  \A p \in Programs : \A id \in DOMAIN p :
    /\ IsSequence(p[id].parameterTypes)
    /\ IsSequence(p[id].localTypes)
    /\ IsSequence(p[id].code)
    /\ p[id].localCount \in Nat

VARIABLES
  program,
  incoming,   \* per user function, the states that reach its instructions
  work,       \* the queue of instructions of the current function
  current,    \* the user functions whose data flow has begun
  diagnosed,  \* a diagnostic was reported
  verdict     \* "pending", "accepted" (a VerifiedProgram exists) or "rejected"

verifierVars == <<program, incoming, work, current, diagnosed, verdict>>

VerifierInit ==
  /\ program \in Programs
  /\ incoming = [id \in UserFunctions(program) |-> <<>>]
  /\ work = <<>>
  /\ current = <<>>
  /\ diagnosed = FALSE
  /\ verdict = "pending"

Started == {current[k] : k \in DOMAIN current}
Current == current[Len(current)]

\* The only failure before the data flow; nothing of the program was touched.
RejectStructure ==
  /\ verdict = "pending" /\ current = <<>>
  /\ ~Structured(program)
  /\ diagnosed' = TRUE
  /\ verdict' = "rejected"
  /\ UNCHANGED <<program, incoming, work, current>>

Entry(f) == [stack |-> <<>>, initialized |-> 1 .. Params(f)]

\* The functions are taken one by one; the order is that of the program, which
\* has none here.
Begin(id) ==
  /\ verdict = "pending" /\ work = <<>>
  /\ Structured(program)
  /\ id \notin Started
  /\ incoming' = [incoming EXCEPT ![id] = [pc \in {1} |-> Entry(program[id])]]
  /\ work' = <<1>>
  /\ current' = Append(current, id)
  /\ UNCHANGED <<program, diagnosed, verdict>>

-----------------------------------------------------------------------------
(* One turn of the loop: the instruction at the head of the queue.         *)

\* Seeded faults: a return may leave operands, the type of what is returned is
\* not checked, the end of the code is not checked.
AcceptsLooseReturn(p, f, pc, s) ==
  LET i == f.code[pc]
  IN /\ OnTop(s.stack, Operands(p, f, i))
     /\ i.op = "pop" => s.stack # <<>>
     /\ i.op = "load" => i.arg \in s.initialized
     /\ i.op = "returnValue" => f.returnType # "void"
     /\ i.op = "returnVoid" => f.returnType = "void"
     /\ FallsThrough(i) => pc < Len(f.code)

AcceptsAnyReturn(p, f, pc, s) ==
  LET i == f.code[pc]
  IN /\ i.op = "returnValue" \/ OnTop(s.stack, Operands(p, f, i))
     /\ i.op = "pop" => s.stack # <<>>
     /\ i.op = "load" => i.arg \in s.initialized
     /\ i.op = "returnValue" => f.returnType # "void" /\ Len(s.stack) = 1
     /\ i.op = "returnVoid" => f.returnType = "void" /\ s.stack = <<>>
     /\ FallsThrough(i) => pc < Len(f.code)

Accepts(p, f, pc, s) ==
  LET i == f.code[pc]
  IN /\ OnTop(s.stack, Operands(p, f, i))
     /\ i.op = "pop" => s.stack # <<>>
     /\ i.op = "load" => i.arg \in s.initialized
     /\ i.op = "returnValue" => f.returnType # "void" /\ Len(s.stack) = 1
     /\ i.op = "returnVoid" => f.returnType = "void" /\ s.stack = <<>>
     /\ FallsThrough(i) => pc < Len(f.code)

After(p, f, pc, s) ==
  LET i == f.code[pc]
  IN [stack |-> Pushed(Drop(s.stack, Arity(p, f, i)), Result(p, f, i)),
      initialized |-> IF i.op = "store" THEN s.initialized \cup {i.arg} ELSE s.initialized]

\* flow: the states, the queue and the diagnosis while successors are merged.
Reach(flow, target, s) ==
  [flow EXCEPT !.states = [pc \in DOMAIN @ \cup {target} |-> IF pc = target THEN s ELSE @[pc]],
               !.work = Append(@, target)]

\* Seeded faults: a state that shrinks is not visited again, every state is, a
\* state is replaced by the one that arrives.
MergeUnqueued(flow, target, s) ==
  IF target \notin DOMAIN flow.states THEN Reach(flow, target, s)
  ELSE LET old == flow.states[target]
       IN IF old.stack # s.stack THEN [flow EXCEPT !.diagnosed = TRUE]
          ELSE [flow EXCEPT !.states[target].initialized = @ \cap s.initialized]

MergeRequeued(flow, target, s) ==
  IF target \notin DOMAIN flow.states THEN Reach(flow, target, s)
  ELSE LET old == flow.states[target]
       IN IF old.stack # s.stack THEN [flow EXCEPT !.diagnosed = TRUE]
          ELSE Reach(flow, target, [old EXCEPT !.initialized = @ \cap s.initialized])

MergeReplaced(flow, target, s) ==
  IF target \notin DOMAIN flow.states THEN Reach(flow, target, s)
  ELSE LET old == flow.states[target]
       IN IF old.stack # s.stack THEN [flow EXCEPT !.diagnosed = TRUE]
          ELSE IF old.initialized = s.initialized THEN flow
          ELSE Reach(flow, target, s)

Merge(flow, target, s) ==
  IF target \notin DOMAIN flow.states THEN Reach(flow, target, s)
  ELSE LET old == flow.states[target]
       IN IF old.stack # s.stack THEN [flow EXCEPT !.diagnosed = TRUE]
          ELSE IF old.initialized \subseteq s.initialized THEN flow
          ELSE Reach(flow, target, [old EXCEPT !.initialized = @ \cap s.initialized])

\* An instruction has at most two successors.
MergeAll(flow, targets, s) ==
  CASE Len(targets) = 0 -> flow
    [] Len(targets) = 1 -> Merge(flow, targets[1], s)
    [] OTHER -> Merge(Merge(flow, targets[1], s), targets[2], s)

Visit ==
  /\ verdict = "pending" /\ work # <<>>
  /\ LET f == program[Current]
         pc == Head(work)
         s == incoming[Current][pc]
         popped == [states |-> incoming[Current], work |-> Tail(work), diagnosed |-> diagnosed]
         flow == IF Accepts(program, f, pc, s)
                 THEN MergeAll(popped, Successors(f, pc), After(program, f, pc, s))
                 ELSE [popped EXCEPT !.diagnosed = TRUE]
     IN /\ incoming' = [incoming EXCEPT ![Current] = flow.states]
        /\ work' = flow.work
        /\ diagnosed' = flow.diagnosed
  /\ UNCHANGED <<program, current, verdict>>

Conclude ==
  /\ verdict = "pending" /\ work = <<>>
  /\ Structured(program)
  /\ Started = UserFunctions(program)
  /\ verdict' = IF diagnosed THEN "rejected" ELSE "accepted"
  /\ UNCHANGED <<program, incoming, work, current, diagnosed>>

VerifierStep ==
  \/ RejectStructure
  \/ \E id \in UserFunctions(program) : Begin(id)
  \/ Visit
  \/ Conclude
=============================================================================
