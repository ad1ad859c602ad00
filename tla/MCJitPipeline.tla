--------------------------- MODULE MCJitPipeline ---------------------------
(***************************************************************************)
(* Words of four bits.  The functions have one parameter of each kind that *)
(* matters and a local; their bodies are every operation on constants and  *)
(* variables, every combination of a few conditions and branches, loops    *)
(* (one of them at the first instruction), calls whose results are used,   *)
(* dropped or passed on, code that no path reaches, and operands left on   *)
(* the stack where blocks meet.                                            *)
(***************************************************************************)
EXTENDS JitPipeline

MCSamples ==
  [type \in Types |-> CASE type = "i64"     -> {-8, 0, 2}
                        [] type = "f64"     -> {-8, 0, 3, 7}
                        [] type = "boolean" -> {0, 1}]

I(op, arg, operator, word) == [op |-> op, arg |-> arg, operator |-> operator, word |-> word]
Const(type, word) == I("constant", type, "none", word)
Get(slot) == I("load", slot, "none", 0)
Set(slot) == I("store", slot, "none", 0)
Op(type, operator) == I("binary", type, operator, 0)
Cmp(type, operator) == I("compare", type, operator, 0)
Neg(type) == I("unary", type, "none", 0)
Goto(pc) == I("jump", pc, "none", 0)
Unless(pc) == I("jumpIfFalse", pc, "none", 0)
Invoke(callee) == I("call", callee, "none", 0)
PopIt == I("pop", 0, "none", 0)
Give == I("returnValue", 0, "none", 0)
Leave == I("returnVoid", 0, "none", 0)

Fun(kind, params, ret, locals, body) ==
  [kind |-> kind, parameterTypes |-> params, returnType |-> ret,
   localCount |-> Len(locals), localTypes |-> locals, code |-> body]

\* The callees: their bodies do not matter, only that they verify.
Two == Fun("user", <<"i64", "i64">>, "i64", <<"i64", "i64">>, <<Get(1), Give>>)
Ask == Fun("user", <<>>, "boolean", <<>>, <<Const("boolean", 1), Give>>)
Tell == Fun("user", <<"f64", "boolean">>, "void", <<"f64", "boolean">>, <<Leave>>)
PrintI64 == Fun("host", <<"i64">>, "void", <<>>, <<>>)
PrintF64 == Fun("host", <<"f64">>, "void", <<>>, <<>>)
ClockMs == Fun("host", <<>>, "i64", <<>>, <<>>)

\* A program has main and what it calls.
With(params, locals, ret, body) ==
  LET called == {body[pc].arg : pc \in {q \in DOMAIN body : body[q].op = "call"}}
      all == [main |-> Fun("user", params, ret, params \o locals, body),
              two |-> Two, ask |-> Ask, tell |-> Tell,
              printI64 |-> PrintI64, printF64 |-> PrintF64, clockMs |-> ClockMs]
  IN [id \in {"main"} \cup called |-> all[id]]

IfElse(before, condition, then, else, after) ==
  LET otherwise == Len(before) + Len(condition) + Len(then) + 3
      end == otherwise + Len(else)
  IN before \o condition \o <<Unless(otherwise)>> \o then \o <<Goto(end)>> \o else \o after

While(before, condition, body, after) ==
  LET header == Len(before) + 1
  IN before \o condition \o <<Unless(header + Len(condition) + Len(body) + 2)>>
       \o body \o <<Goto(header)>> \o after

Operators == {"add", "sub", "mul", "div", "rem"}
Relations == {"equal", "notEqual", "less", "lessEqual", "greater", "greaterEqual"}

\* Operations on two operands, each a constant or a variable.
I64Operations ==
  {With(<<"i64", "i64">>, <<>>, "i64", <<a, b, Op("i64", operator), Give>>) :
     a \in {Get(1), Const("i64", -8)}, b \in {Get(2), Const("i64", -1)},
     operator \in Operators}

Comparisons ==
  {With(<<type, type>>, <<>>, "boolean", <<Get(1), Get(2), Cmp(type, operator), Give>>) :
     type \in {"i64", "f64"}, operator \in Relations}
  \cup {With(<<"boolean", "boolean">>, <<>>, "boolean",
             <<Get(1), Get(2), Cmp("boolean", operator), Give>>) :
          operator \in {"equal", "notEqual"}}

F64Operations ==
  {With(<<"f64", "f64">>, <<>>, "f64", <<Get(1), Neg("f64"), Get(2), Op("f64", operator), Give>>) :
     operator \in {"add", "sub", "mul", "div"}}

\* x and y are locals 1 and 2; y is set before and in some of the branches.
Conditions ==
  {<<Const("i64", 1), Const("i64", 1), Cmp("i64", "equal")>>,
   <<Const("i64", 1), Neg("i64"), Set(2), Get(2), Const("i64", 0), Cmp("i64", "greater")>>,
   <<Get(1), Const("i64", 0), Cmp("i64", "less")>>}

Branches ==
  {<<>>,
   <<Const("i64", 3), Set(2)>>,
   <<Get(2), Get(1), Invoke("two"), Set(2)>>,
   <<Get(2), Const("i64", 7), Op("i64", "mul"), Give>>}

Conditionals ==
  {With(<<"i64">>, <<"i64">>, "i64",
        IfElse(<<Const("i64", 6), Set(2)>>, condition, then, else,
               <<Get(2), Const("i64", 4), Op("i64", "add"), Give>>)) :
     condition \in Conditions, then, else \in Branches}

Loops ==
  {While(<<>>, <<Get(1), Const("i64", 0), Cmp("i64", "greater")>>,
         <<Get(1), Const("i64", 1), Op("i64", "sub"), Set(1)>>, <<Get(1), Give>>),
   While(<<Const("i64", 0), Set(2)>>, <<Invoke("ask")>>,
         <<Get(2), Get(1), Op("i64", "add"), Set(2), Get(2), Invoke("printI64")>>,
         <<Get(2), Give>>),
   While(<<Const("i64", 1), Set(2)>>, <<Get(2), Const("i64", 3), Cmp("i64", "less")>>,
         <<Get(2), Get(2), Op("i64", "add"), Set(2)>>, <<Get(2), Give>>),
   While(<<Const("i64", 5), Set(2)>>, <<Const("i64", 1), Const("i64", 0), Cmp("i64", "less")>>,
         <<Get(2), Invoke("printI64")>>, <<Get(2), Give>>)}

Calling ==
  {<<Get(1), Const("i64", 2), Get(1), Invoke("two"), Invoke("two"), Give>>,
   <<Get(1), Const("i64", 2), Invoke("two"), PopIt, Get(1), Give>>,
   <<Get(1), Const("i64", 0), Op("i64", "div"), PopIt, Get(1), Give>>,
   <<Get(1), Get(1), Op("i64", "add"), PopIt, Get(1), Neg("i64"), PopIt, Get(1), Give>>,
   <<Const("f64", 3), Invoke("ask"), Invoke("tell"), Const("f64", -8), Invoke("printF64"),
     Get(1), Give>>,
   <<Invoke("clockMs"), Get(1), Invoke("two"), Give>>,
   <<Const("f64", 7), Const("boolean", 1), Invoke("tell"), Invoke("clockMs"), Give>>,
   <<Get(1), Invoke("printI64"), Get(1), Set(2), Const("i64", 3), Set(2), Get(2), Give>>}

\* Targets of a branch that coincide; code after a return and after a jump.
Oddities ==
  {<<Invoke("ask"), Unless(3), Get(1), Give>>,
   <<Get(1), Give, Get(2), Give>>,
   <<Goto(4), Const("i64", 1), Give, Get(1), Give>>,
   <<Goto(3), Give, Const("i64", 1), Const("i64", 2), Cmp("i64", "less"), Unless(3), Get(1), Give>>}

\* Verified, but with operands on the stack where blocks meet; and rejected.
Outside ==
  {<<Get(1), Invoke("ask"), Unless(4), Give>>,
   <<Get(1), Goto(3), Give>>,
   <<Get(1), Invoke("ask"), Unless(6), Neg("i64"), Goto(6), Give>>,
   <<Goto(3), Give, Get(1), Goto(2)>>,
   <<Get(2), Give>>}

MCPrograms ==
  I64Operations \cup Comparisons \cup F64Operations \cup Conditionals
    \cup {With(<<"i64">>, <<"i64">>, "i64", body) : body \in Loops \cup Calling \cup Oddities \cup Outside}
    \cup {With(<<"boolean">>, <<>>, "void", <<Get(1), Unless(5), Const("i64", 1), Invoke("printI64"), Leave>>)}
=============================================================================
