------------------------- MODULE ExpressionPrograms -------------------------
(***************************************************************************)
(* Programs for Expressions: an expression of every form, with one of every *)
(* form as each of its operands, between variables that it must leave alone *)
(* and functions that change those it reads.                                *)
(***************************************************************************)
EXTENDS Integers, Sequences

CONSTANT Liberties
    \* what else the programs do: "pipes" anywhere, "float bits"

Value(kind, n) == [kind |-> kind, n |-> n]
Expr(form, what, args) == [form |-> form, what |-> what, args |-> args]

Lit(kind, n) == Expr("literal", Value(kind, n), <<>>)
Num(n) == Lit("numba", n)
Ghost == Lit("ghost", 0)
Var(x) == Expr("variable", x, <<>>)
Native == Lit("native", 0)
Fn(i) == Lit("function", i)

Call(f, args) == Expr("call", "", <<f>> \o args)
Say(x) == Call(Native, <<x>>)
Up == Call(Fn(1), <<>>)
Swap == Call(Fn(2), <<>>)
Assign(x, op, e) == Expr("assign", [x |-> x, op |-> op], <<e>>)
Stash(es) == Expr("stash", "", es)
Index(x, y) == Expr("index", "", <<x, y>>)
Get(x) == Expr("get", "", <<x>>)
Address(place) == Expr("address", "", <<place>>)
Deref(x) == Expr("deref", "", <<x>>)

Do(e) == [op |-> "do", x |-> "", e |-> e, body |-> <<>>]
Yo(x, e) == [op |-> "yo", x |-> x, e |-> e, body |-> <<>>]
Bounce(e) == [op |-> "bounce", x |-> "", e |-> e, body |-> <<>>]
Block(ss) == [op |-> "block", x |-> "", e |-> Ghost, body |-> ss]

-----------------------------------------------------------------------------
Fun(params, defaults, rest, body) == [params |-> params, defaults |-> defaults, rest |-> rest, body |-> body]

Functions == <<
    Fun(<<>>, <<>>, "", <<Do(Assign("b", "+", Num(1))), Bounce(Var("b"))>>),                        \* Up
    Fun(<<>>, <<>>, "", <<Do(Assign("a", "", Stash(<<Num(7), Num(8)>>))), Bounce(Num(1))>>),        \* Swap
    Fun(<<"x", "y", "z">>, <<Say(Expr("binary", "+", <<Var("x"), Num(1)>>)), Say(Var("y"))>>, "",
        <<Yo("b", Var("z")), Bounce(Stash(<<Var("x"), Var("y"), Var("b")>>))>>),
    Fun(<<"x", "y">>, <<Up>>, "rest", <<Block(<<Yo("t", Var("y")), Do(Assign("b", "", Var("t")))>>), Bounce(Var("rest"))>>),
    Fun(<<"me", "x", "y">>, <<Get(Var("me"))>>, "",
        <<Do(Expr("set", "", <<Var("me"), Var("y")>>)), Bounce(Expr("binary", "-", <<Var("x"), Var("y")>>))>>) >>

Captured == [a |-> 0, b |-> 1, o |-> 2]

Objects == <<[items |-> <<Value("numba", 10), Value("numba", 20)>>], [items |-> <<Value("numba", 5)>>]>>

Around(ss) ==
    <<Yo("a", Lit("stash", 1)), Yo("b", Num(1)), Yo("o", Lit("instance", 2))>> \o ss

-----------------------------------------------------------------------------
(* Every form, with x, y and z as the operands it has *)

Operators == {"+", "-", "==", "<", "<<"}
Some == {"-", "==", "<<"}
Compounds == {"", "+"}

Forms(x, y, z) ==
    {Expr("unary", op, <<x>>) : op \in {"-", "!", "~"}}
    \cup {Expr("binary", op, <<x, y>>) : op \in Some}
    \cup {Expr(form, "", <<x, y>>) : form \in {"&&", "||", "??"}}
    \cup {Expr("?:", "", <<x, y, z>>), Stash(<<x, y, z>>), Index(Stash(<<x, z>>), y), Get(x), Deref(x),
          Expr("safe get", "", <<x>>), Expr("safe invoke", "m", <<x, y>>), Expr("safe invoke", "m", <<Var("o"), y, x>>)}
    \cup {Assign("b", op, x) : op \in {"", "-", "||"}}
    \cup {Expr("set", op, <<Var("o"), x>>) : op \in Compounds}
    \cup {Expr("set", op, <<x, y>>) : op \in Compounds}
    \cup {Expr("set index", op, <<Var("a"), x, y>>) : op \in Compounds}
    \cup {Expr("set index", op, <<x, y, z>>) : op \in Compounds}
    \cup {Expr("set deref", op, <<Address(place), y>>) : op \in Compounds, place \in {Var("b"), Get(Var("o")), Index(Var("a"), x)}}
    \cup {Expr("set deref", op, <<x, y>>) : op \in Compounds}
    \cup {Deref(Address(Var("b"))), Deref(Address(Index(Var("a"), x))), Index(Var("a"), x), Index(x, y)}
    \cup {Call(Fn(3), <<x>>), Call(Fn(3), <<x, y>>), Call(Fn(3), <<x, y, z, x>>), Call(Fn(4), <<x>>), Call(Fn(4), <<x, y, z>>),
          Call(x, <<y>>), Expr("invoke", "p", <<Var("o"), x>>), Expr("invoke", "m", <<Var("o"), x>>), Expr("invoke", "m", <<x, y>>)}

Pipes(x, y) == {Expr("|>", "", <<Native, x>>), Expr("|>", "", <<Fn(3), x, y>>)}

Inner == Forms(Say(Num(0)), Up, Swap)
         \cup {Num(-1), Ghost, Swap, Assign("o", "", Ghost), Expr("set", "", <<Var("o"), Native>>)}
         \cup {Expr("binary", op, <<Num(3), Num(2)>>) : op \in Operators}

Nested(some) == UNION {Forms(f, Up, Say(Num(2))) \cup Forms(Say(Num(1)), f, Swap) \cup Forms(Up, Say(Num(1)), f) : f \in some}

\* ... in a block, which is left to what is around it; or for an answer, where depth does not matter.
InBlock(e) == Around(<<Block(<<Yo("t", e), Do(Say(Var("t")))>>), Yo("c", Num(3)),
                       Bounce(Stash(<<Var("a"), Var("b"), Var("c"), Var("o")>>))>>)
Answered(e) == Around(<<Bounce(e)>>)

FloatBits == {Expr("unary", "~", <<Lit("halves", 3)>>), Expr("binary", "<<", <<Num(1), Lit("halves", 3)>>)}

Option(liberty, some) == IF liberty \in Liberties THEN some ELSE {}

Programs ==
    {InBlock(e) : e \in Nested(Inner)}
    \cup {Answered(e) : e \in UNION {Pipes(f, Up) \cup Pipes(Up, f) : f \in Inner}}
    \cup {InBlock(e) : e \in Option("float bits", FloatBits) \cup Option("pipes", Pipes(Say(Num(0)), Up))}
=============================================================================
