----------------------------- MODULE MCFrontEnd -----------------------------
(***************************************************************************)
(* Words of four bits.  The sources that are accepted hide names, declare  *)
(* them again where their scope has ended, use operands whose order shows, *)
(* nest loops and branches, end paths in every way, and have the least i64 *)
(* in its four spellings.  Each source that is refused has one thing wrong *)
(* that a diagnostic is for, some of them a second thing after it.         *)
(***************************************************************************)
EXTENDS FrontEnd

MCSamples ==
  [type \in Types |-> CASE type = "i64"     -> {-8, 0, 2}
                        [] type = "f64"     -> {-8, 3, 7}
                        [] type = "boolean" -> {0, 1}]

Host(name, parameters, returnType) ==
  [kind |-> "host", name |-> name, parameters |-> parameters, returnType |-> returnType]
Of1(name, type) == [name |-> name, type |-> type]
MCHosts ==
  <<Host("print_i64", <<Of1("v", "i64")>>, "void"), Host("print_f64", <<Of1("v", "f64")>>, "void"),
    Host("clock_ms", <<>>, "i64")>>

N(name) == [node |-> "name", name |-> name]
Num(n) == [node |-> "integer", magnitude |-> n]
Real8(w) == [node |-> "float", word |-> w]
Bool(w) == [node |-> "bool", word |-> w]
Paren(e) == [node |-> "paren", inner |-> e]
Un(operation, e) == [node |-> "unary", operation |-> operation, operand |-> e]
Bin(a, operation, b) == [node |-> "binary", operation |-> operation, left |-> a, right |-> b]
Invoke(name, given) == [node |-> "call", callee |-> N(name), arguments |-> given]

Let(name, type, e) == [node |-> "let", name |-> name, type |-> type, value |-> e]
Assign(name, e) == [node |-> "assign", name |-> name, value |-> e]
Give(e) == [node |-> "return", value |-> e]
Do(e) == [node |-> "expression", value |-> e]
Braces(statements) == [node |-> "block", statements |-> statements]
If(c, then, else) == [node |-> "if", condition |-> c, then |-> then, else |-> else]
Loop(c, body) == [node |-> "while", condition |-> c, body |-> body]

Fn(name, parameters, returnType, body) ==
  [kind |-> "user", name |-> name, parameters |-> parameters, returnType |-> returnType,
   body |-> body]
Two == Fn("two", <<Of1("a", "i64"), Of1("b", "i64")>>, "i64", <<Give(N("a"))>>)
Ask == Fn("ask", <<>>, "boolean", <<Give(Bool(1))>>)
Tell == Fn("tell", <<Of1("a", "f64"), Of1("b", "boolean")>>, "void", <<>>)
Main(type, returnType, body) == Fn("main", <<Of1("x", type)>>, returnType, body)

-----------------------------------------------------------------------------
I64Bodies ==
  {\* y in the block is another y, and its initializer reads the outer one.
   <<Let("y", "i64", Num(1)),
     Braces(<<Let("y", "i64", Bin(N("y"), "add", Num(1))), Assign("x", N("y")),
             Assign("y", Num(5))>>),
     Give(Bin(N("y"), "sub", N("x")))>>,
   \* The scope of y ends; the next y has another type.
   <<If(Invoke("ask", <<>>), <<Let("y", "i64", N("x")), Assign("x", Bin(N("y"), "mul", N("y")))>>,
        Absent),
     Let("y", "boolean", Bin(N("x"), "less", Num(0))),
     If(N("y"), <<Give(Num(1))>>, Braces(<<Let("x", "i64", Num(4)), Give(N("x"))>>))>>,
   \* x in the loop is declared anew at each turn.
   <<Let("n", "i64", Num(2)), Let("s", "i64", Num(0)),
     Loop(Bin(N("n"), "greater", Num(0)),
          <<Let("x", "i64", Bin(N("n"), "add", N("x"))), Assign("s", Bin(N("s"), "add", N("x"))),
            Assign("n", Bin(N("n"), "sub", Num(1)))>>),
     Give(N("s"))>>,
   <<Loop(Invoke("ask", <<>>),
          <<Loop(Invoke("ask", <<>>), <<Give(Num(7))>>), Assign("x", Un("minus", N("x")))>>),
     Give(N("x"))>>,
   \* Operands and arguments from left to right, errors among them.
   <<Give(Bin(Invoke("two", <<Num(1), N("x")>>), "sub", Invoke("clock_ms", <<>>)))>>,
   <<Give(Bin(Invoke("two", <<N("x"), Invoke("two", <<Num(2), Num(3)>>)>>),
              "div", Bin(N("x"), "rem", Un("minus", Num(1)))))>>,
   <<Do(Bin(N("x"), "div", Num(0))), Give(Invoke("clock_ms", <<>>))>>,
   <<Do(Invoke("two", <<N("x"), N("x")>>)), Do(N("x")), Do(Invoke("print_i64", <<N("x")>>)),
     Give(Un("plus", Un("minus", N("x"))))>>,
   \* Paths that end in different places, and code after all of them.
   <<If(Bin(N("x"), "equal", Num(0)), <<Give(Num(1))>>,
        If(Bin(N("x"), "greater", Num(0)), <<Give(Num(2))>>, Braces(<<Give(Num(3))>>))),
     Do(Invoke("print_i64", <<Num(4)>>))>>,
   <<Give(N("x")), Let("y", "i64", Num(1)), Loop(Bool(1), <<Assign("y", N("y"))>>)>>,
   <<If(Bool(0), <<>>, Braces(<<>>)), Loop(Bool(0), <<>>), Braces(<<Braces(<<Give(N("x"))>>)>>)>>,
   \* The least i64: folded, negated, and as what no literal is.
   <<Give(Bin(Un("minus", Num(8)), "sub", N("x")))>>,
   <<Give(Un("minus", Un("minus", Num(8))))>>,
   <<Give(Bin(Un("minus", Paren(Num(7))), "sub", Paren(Num(1))))>>,
   \* A variable may have the name of a function.
   <<Let("two", "i64", Num(3)), Give(Invoke("two", <<N("two"), N("x")>>))>>}

OtherMains ==
  {Main("f64", "void",
        <<If(Bin(N("x"), "notEqual", N("x")), <<Give(Absent)>>, Absent),
          Do(Invoke("tell", <<Bin(Un("minus", N("x")), "add", Real8(3)),
                              Bin(N("x"), "lessEqual", Real8(-8))>>)),
          Loop(Bin(N("x"), "greater", Real8(0)),
               <<Do(Invoke("print_f64", <<N("x")>>)), Assign("x", Real8(-8))>>)>>),
   Main("boolean", "boolean",
        <<Let("b", "boolean", Bin(N("x"), "equal", Invoke("ask", <<>>))),
          Give(Bin(N("b"), "notEqual", Bin(Num(1), "greaterEqual", Num(2))))>>)}

-----------------------------------------------------------------------------
WrongBodies ==
  {<<Give(N("y"))>>, <<Give(N("two"))>>,
   <<Let("y", "i64", N("y")), Give(N("x"))>>,
   <<Braces(<<Let("y", "i64", Num(1))>>), Give(N("y"))>>,
   <<Assign("y", Num(1)), Give(N("x"))>>,
   <<Let("x", "i64", Num(1)), Give(N("x"))>>,
   <<Let("y", "void", Invoke("print_i64", <<N("x")>>)), Give(N("x"))>>,
   <<Let("y", "f64", N("x")), Give(N("x"))>>,
   <<Assign("x", Bool(1)), Give(N("x"))>>,
   <<Give(Absent)>>, <<Give(Real8(3))>>, <<Give(Num(8))>>, <<Give(Un("minus", Num(9)))>>,
   <<Give(Un("minus", Paren(Num(8))))>>, <<Let("y", "f64", Real8(16)), Give(N("x"))>>,
   <<If(N("x"), <<>>, Absent), Give(N("x"))>>, <<Loop(Num(1), <<>>), Give(N("x"))>>,
   <<If(Bool(1), <<Give(N("y"))>>, Braces(<<Give(Bool(0))>>))>>,
   <<Loop(Bool(1), <<Do(N("y"))>>), Give(N("x"))>>,
   <<Give(Un("minus", Bool(1)))>>, <<Give(Bin(N("x"), "add", Real8(3)))>>,
   <<Let("y", "f64", Bin(Real8(3), "rem", Real8(3))), Give(N("x"))>>,
   <<Do(Bin(Invoke("print_i64", <<N("x")>>), "equal", Invoke("print_i64", <<N("x")>>)))>>,
   <<Do(Bin(Bool(1), "less", Bool(0))), Give(N("x"))>>,
   <<Give([node |-> "call", callee |-> Paren(N("two")), arguments |-> <<>>])>>,
   <<Give(Invoke("x", <<>>))>>, <<Give(Invoke("two", <<N("y")>>))>>,
   <<Give(Invoke("two", <<Bool(1), N("y")>>))>>, <<Give(Invoke("two", <<N("y"), Bool(1)>>))>>,
   <<>>, <<Loop(Bool(1), <<Give(N("x"))>>)>>,
   <<If(Invoke("ask", <<>>), <<Give(Num(1))>>, Absent)>>,
   <<If(Invoke("ask", <<>>), <<>>, Braces(<<Give(Num(1))>>))>>}

WrongSources ==
  {<<Two, Two>>, <<Fn("clock_ms", <<>>, "void", <<>>)>>,
   <<Fn("main", <<Of1("x", "void")>>, "void", <<>>)>>,
   <<Fn("main", <<Of1("x", "i64"), Of1("x", "i64")>>, "void", <<>>)>>,
   <<Main("i64", "void", <<Give(N("x"))>>)>>,
   <<Main("i64", "void", <<Give(Invoke("print_i64", <<N("x")>>))>>)>>}

\* main comes after one of the functions that it calls and before the other.
MCSources ==
  {<<Two, Main("i64", "i64", body), Ask>> : body \in I64Bodies \cup WrongBodies}
    \cup {<<Ask, main, Tell>> : main \in OtherMains} \cup WrongSources
=============================================================================
