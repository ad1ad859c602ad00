------------------------- MODULE MCBytecodeMachine -------------------------
(***************************************************************************)
(* The programs: every body of four instructions from a pool (of which the *)
(* last is one of three) for a main without parameters, and longer ones    *)
(* for what needs more room: a loop, a local set on one of two paths of    *)
(* different lengths, arguments over the operands of a caller, and stacks  *)
(* that differ where paths meet.                                           *)
(***************************************************************************)
EXTENDS BytecodeMachine

I(op, arg) == [op |-> op, arg |-> arg]
Const(t) == I("constant", t)
Pop == I("pop", 0)
Ret == I("returnValue", 0)

Fun(kind, params, ret, locals, code) ==
  [kind |-> kind, parameterTypes |-> params, returnType |-> ret,
   localCount |-> Len(locals), localTypes |-> locals, code |-> code]

\* The functions main may call: one of each kind.
Add == Fun("user", <<"i64", "i64">>, "i64", <<"i64", "i64">>,
           <<I("load", 1), I("load", 2), I("binary", "i64"), Ret>>)
Nothing == Fun("user", <<>>, "void", <<>>, <<I("returnVoid", 0)>>)
PrintI64 == Fun("host", <<"i64">>, "void", <<>>, <<>>)

With(main) == [main |-> main, add |-> Add, nothing |-> Nothing, print |-> PrintI64]
Main(locals, code) == With(Fun("user", <<>>, "i64", locals, code))

Pool == {Const("i64"), Const("boolean"), I("load", 1), I("store", 1), Pop,
         I("binary", "i64"), I("jump", 2), I("jumpIfFalse", 4), I("call", "main"), Ret}

Short == {[main |-> Fun("user", <<>>, "i64", <<"i64">>, <<a, b, c, d>>)] :
            a, b, c \in Pool, d \in {Ret, Pop, I("jump", 2)}}

Ten == <<Const("boolean"), I("jumpIfFalse", 6),
         Const("i64"), I("store", 1), I("jump", 10),
         Const("i64"), Pop, Const("i64"), Pop,
         I("load", 1), Ret>>

Twelve == <<Const("boolean"), I("jumpIfFalse", 6),
            Const("i64"), I("store", 1), I("jump", 12),
            Const("i64"), Pop, Const("i64"), Pop, Const("i64"), Pop,
            I("load", 1), Ret>>

Loop == <<Const("f64"), I("store", 2), Const("i64"), I("store", 1),
          Const("boolean"), I("jumpIfFalse", 11),
          I("load", 1), I("load", 1), I("compare", "i64"), Pop,
          I("load", 2), I("load", 2), I("compare", "f64"), I("jumpIfFalse", 5),
          I("load", 1), Ret>>

Nested == <<Const("i64"), Const("i64"), Const("i64"), I("call", "add"),
            I("call", "nothing"), Const("i64"), I("call", "print"),
            I("call", "add"), Ret>>

Uneven == <<Const("boolean"), I("jumpIfFalse", 5), Const("i64"), Const("i64"),
            Const("i64"), Ret>>

Illtyped == {<<Const("boolean"), I("call", "print"), Const("i64"), Ret>>,
             <<Const("i64"), Const("boolean"), I("call", "add"), Ret>>,
             <<Const("i64"), I("unary", "f64"), Pop, Const("i64"), Ret>>,
             <<Const("f64"), I("unary", "f64"), I("store", 1), I("load", 1), Ret>>,
             <<I("returnVoid", 0)>>, <<I("invalid", 0)>>, <<I("jump", 2)>>,
             <<I("load", 3), Ret>>, <<I("call", "missing"), Ret>>}

Broken == {With([Fun("user", <<>>, "i64", <<"i64">>, <<Const("i64"), Ret>>) EXCEPT !.localCount = 2]),
           With(Fun("user", <<"boolean">>, "i64", <<"i64">>, <<Const("i64"), Ret>>)),
           With(Fun("host", <<>>, "f64", <<>>, <<>>)),
           With(Fun("native", <<>>, "i64", <<>>, <<Const("i64"), Ret>>))}

MCPrograms ==
  Short \cup Broken
    \cup {Main(<<"i64", "f64">>, code) : code \in {Ten, Twelve, Loop, Nested, Uneven} \cup Illtyped}
=============================================================================
