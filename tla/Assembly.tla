------------------------------ MODULE Assembly ------------------------------
(***************************************************************************)
(* What x64::Emitter promises its client: a program of symbolic            *)
(* instructions whose jumps name labels.  It becomes code once, if no call *)
(* was refused and every label is bound; in the code every jump goes to    *)
(* the instruction its label was bound to.                                 *)
(***************************************************************************)
EXTENDS Integers, Sequences

CONSTANTS Instructions, Conditions

NoCode == <<>>   \* an optional is a sequence of at most one
Unbound == 0
Errors == {"finalized", "invalidLabel", "duplicateLabel", "unboundLabel", "codeTooLarge",
           "invalidDivisionOperand"}

VARIABLES
  program,    \* instructions; a jump has the number of its label
  labels,     \* the instruction each label stands before, or Unbound
  error,      \* the first error, or "none"
  finished,   \* finalize was called
  code        \* what finalize gave: a program whose jumps have instructions

vars == <<program, labels, error, finished, code>>

Init ==
  /\ program = <<>> /\ labels = <<>>
  /\ error = "none" /\ finished = FALSE /\ code = NoCode

Open == error = "none" /\ ~finished

Add(i) ==
  /\ Open
  /\ program' = Append(program, i)
  /\ UNCHANGED <<labels, error, finished, code>>

JumpTo(condition, label) ==
  [op |-> "jump", a |-> 0, b |-> 0, n |-> label, high |-> 0, condition |-> condition]

CreateLabel ==
  /\ Open
  /\ labels' = Append(labels, Unbound)
  /\ UNCHANGED <<program, error, finished, code>>

Bind(l) ==
  /\ Open
  /\ labels[l] = Unbound
  /\ labels' = [labels EXCEPT ![l] = Len(program) + 1]
  /\ UNCHANGED <<program, error, finished, code>>

\* A call that is refused changes nothing but the error, and only the first one.
Refuse(e) ==
  /\ error = "none"
  /\ finished <=> e = "finalized"
  /\ error' = e
  /\ UNCHANGED <<program, labels, finished, code>>

Resolved ==
  [k \in DOMAIN program |->
     IF program[k].op = "jump" THEN [program[k] EXCEPT !.n = labels[@]] ELSE program[k]]

Finish ==
  /\ ~finished /\ finished' = TRUE
  /\ LET complete == \A l \in DOMAIN labels : labels[l] # Unbound
     IN /\ code' = IF error = "none" /\ complete THEN <<Resolved>> ELSE NoCode
        /\ error' = IF error = "none" /\ ~complete THEN "unboundLabel" ELSE error
  /\ UNCHANGED <<program, labels>>

Next ==
  \/ Finish
  \/ \E e \in Errors : Refuse(e)
  \/ \E i \in Instructions : Add(i)
  \/ \E c \in Conditions, l \in DOMAIN labels : Add(JumpTo(c, l))
  \/ CreateLabel
  \/ \E l \in DOMAIN labels : Bind(l)

Spec == Init /\ [][Next]_vars
=============================================================================
