------------------------------ MODULE Bytecode ------------------------------
(***************************************************************************)
(* Programs, and what one instruction asks of and does to the operand      *)
(* stack and the locals.  A value is its type here: no check of the        *)
(* verifier and no failure of the interpreter but division tells values of *)
(* one type apart.  Opcodes that differ in the operator only are one:      *)
(* "unary" negates, "binary" is arithmetic, "compare" yields a boolean.    *)
(* "invalid" stands for an unknown opcode and a non-canonical encoding.    *)
(* Slots and instructions are numbered from 1.                             *)
(***************************************************************************)
EXTENDS Integers, Sequences

Types == {"i64", "f64", "boolean"}
ReturnTypes == Types \cup {"void"}

Opcodes == {"constant", "load", "store", "pop", "unary", "binary", "compare", "jump",
            "jumpIfFalse", "call", "returnValue", "returnVoid", "invalid"}

Params(f) == Len(f.parameterTypes)

-----------------------------------------------------------------------------
(* The structural checks of Verifier::verify, before any data flow.        *)

ValidSignature(f) ==
  /\ f.returnType \in ReturnTypes
  /\ \A k \in 1 .. Params(f) : f.parameterTypes[k] \in Types

ValidLayout(f) ==
  /\ f.code # <<>>
  /\ Len(f.localTypes) = f.localCount
  /\ Params(f) <= f.localCount
  /\ \A slot \in 1 .. f.localCount :
       /\ f.localTypes[slot] \in Types
       /\ slot <= Params(f) => f.localTypes[slot] = f.parameterTypes[slot]

ValidInstruction(p, f, i) ==
  CASE i.op = "constant"              -> i.arg \in Types
    [] i.op \in {"load", "store"}     -> i.arg \in 1 .. f.localCount
    [] i.op \in {"jump", "jumpIfFalse"} -> i.arg \in 1 .. Len(f.code)
    [] i.op = "call"                  -> i.arg \in DOMAIN p
    [] i.op \in {"unary", "binary"}   -> i.arg \in {"i64", "f64"}
    [] i.op = "compare"               -> i.arg \in Types
    [] i.op \in {"pop", "returnValue", "returnVoid"} -> TRUE
    [] OTHER                          -> FALSE

\* The registry of host functions: print_i64, print_f64 and clock_ms.
Builtins == {<< <<"i64">>, "void" >>, << <<"f64">>, "void" >>, << <<>>, "i64" >>}

MatchesBuiltin(f) ==
  /\ <<f.parameterTypes, f.returnType>> \in Builtins
  /\ f.localCount = 0 /\ f.localTypes = <<>> /\ f.code = <<>>

UserFunctions(p) == {id \in DOMAIN p : p[id].kind = "user"}

Structured(p) ==
  /\ \A id \in DOMAIN p :
       /\ ValidSignature(p[id])
       /\ p[id].kind = "user" \/ (p[id].kind = "host" /\ MatchesBuiltin(p[id]))
  /\ \A id \in UserFunctions(p) :
       /\ ValidLayout(p[id])
       /\ \A pc \in 1 .. Len(p[id].code) : ValidInstruction(p, p[id], p[id].code[pc])

-----------------------------------------------------------------------------
(* The effect of instruction i of function f of program p.                 *)

Operands(p, f, i) ==
  CASE i.op = "store"                 -> <<f.localTypes[i.arg]>>
    [] i.op = "unary"                 -> <<i.arg>>
    [] i.op \in {"binary", "compare"} -> <<i.arg, i.arg>>
    [] i.op = "jumpIfFalse"           -> <<"boolean">>
    [] i.op = "call"                  -> p[i.arg].parameterTypes
    [] i.op = "returnValue"           -> <<f.returnType>>
    [] OTHER                          -> <<>>

\* pop takes a value of any type.
Arity(p, f, i) == IF i.op = "pop" THEN 1 ELSE Len(Operands(p, f, i))

Result(p, f, i) ==
  CASE i.op \in {"constant", "unary", "binary"} -> i.arg
    [] i.op = "load"    -> f.localTypes[i.arg]
    [] i.op = "compare" -> "boolean"
    [] i.op = "call"    -> p[i.arg].returnType
    [] OTHER            -> "void"

Returns(i) == i.op \in {"returnValue", "returnVoid"}
FallsThrough(i) == i.op # "jump" /\ ~Returns(i)

Successors(f, pc) ==
  LET i == f.code[pc]
  IN (IF i.op \in {"jump", "jumpIfFalse"} THEN <<i.arg>> ELSE <<>>)
       \o (IF FallsThrough(i) THEN <<pc + 1>> ELSE <<>>)

OnTop(s, t) ==
  /\ Len(t) <= Len(s)
  /\ \A k \in 1 .. Len(t) : s[Len(s) - Len(t) + k] = t[k]

Drop(s, n) == SubSeq(s, 1, Len(s) - n)
Pushed(s, type) == IF type = "void" THEN s ELSE Append(s, type)
=============================================================================
