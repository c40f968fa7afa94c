--------------------------- MODULE SketchyPrograms ---------------------------
(***************************************************************************)
(* Programs for Sketchy: one sketchy statement of every form, with every    *)
(* combination of what its three blocks do, in every kind of surrounding.   *)
(***************************************************************************)
EXTENDS Integers, Sequences

CONSTANT Liberties
    \* what else the programs do: "locals in regardless", "keep the error", "leave" a sketchy before
    \* its end

Lit(n) == [var |-> "", n |-> n]
Var(x) == [var |-> x, n |-> 0]

Stmt(op, x, e, body) ==
    [op |-> op, x |-> x, e |-> e, body |-> body, form |-> "none", caught |-> <<>>, ever |-> <<>>]

Yo(x, n) == Stmt("yo", x, Lit(n), <<>>)
Set(x, n) == Stmt("set", x, Lit(n), <<>>)
Yap(x) == Stmt("yap", "", Var(x), <<>>)
Keep(x) == Stmt("keep", x, Lit(0), <<>>)
Ring == Stmt("ring", "", Lit(0), <<>>)
Call(body) == Stmt("call", "", Lit(0), body)
Bounce(e) == Stmt("bounce", "", e, <<>>)
Chuck(e) == Stmt("chuck", "", e, <<>>)
Bail == Stmt("bail", "", Lit(0), <<>>)
Nvm == Stmt("nvm", "", Lit(0), <<>>)
Each(x, n, body) == Stmt("each", x, Lit(n), body)
Count(x, n, body) == Stmt("count", x, Lit(n), body)
Bruh(x, body) == Stmt("bruh", "", Var(x), body)
Sus(x, body, nah) == [Stmt("sus", "", Var(x), body) EXCEPT !.ever = nah]
Sketchy(form, body, x, caught, ever) ==
    [Stmt("sketchy", x, Lit(0), body) EXCEPT !.form = form, !.caught = caught, !.ever = ever]

-----------------------------------------------------------------------------
(* Blocks.  y is the function's variable, e the error. *)

Bodies == {
    <<>>,
    <<Yo("x", 3), Keep("x"), Chuck(Var("x"))>>,
    <<Call(<<Yo("z", 4), Keep("z"), Chuck(Lit(6))>>)>>,
    <<Set("y", 2), Call(<<Yo("z", 4), Keep("z"), Bounce(Var("z"))>>)>>,
    <<Sketchy("regardless", <<Chuck(Lit(5))>>, "", <<>>, <<Set("y", 7), Ring>>)>>,
    <<Each("i", 2, <<Yo("x", 3), Keep("i"), Bail>>), Chuck(Lit(5))>>,
    <<Count("i", 3, <<Keep("i"), Yo("x", 3), Nvm>>), Keep("y")>> }

Caughts == {
    <<>>,
    <<Yap("e")>>,
    <<Chuck(Var("e"))>>,
    <<Yo("c", 4), Keep("c")>>,
    <<Yo("c", 4), Sketchy("my_bad", <<Chuck(Var("e"))>>, "f", <<Yap("f"), Yap("c")>>, <<>>), Chuck(Var("c"))>> }

Evers == { <<>>, <<Set("y", 8), Ring>>, <<Chuck(Lit(1))>> }

\* Ways out of a block.
Leaves(loop) == {<<Bounce(Lit(11))>>} \cup (IF loop THEN {<<Bail>>, <<Nvm>>} ELSE {})

Optional(liberty, blocks) == IF liberty \in Liberties THEN blocks ELSE {}

Sketchies(loop) ==
    LET bodies == Bodies \cup Optional("leave", Leaves(loop))
        caughts == Caughts \cup Optional("keep the error", {<<Keep("e")>>})
        evers == Evers \cup Optional("locals in regardless", {<<Yo("w", 9), Yap("w")>>})
    IN {Sketchy("my_bad", b, "e", c, <<>>) : b \in bodies \cup {<<Bounce(Lit(11))>>}, c \in caughts \cup Leaves(loop)}
       \cup {Sketchy("regardless", b, "e", <<>>, r) : b \in bodies, r \in evers \cup Leaves(loop)}
       \cup {Sketchy("both", b, "e", c, r) :
                b \in bodies, c \in caughts \cup Optional("leave", Leaves(loop)),
                r \in evers \cup Optional("leave", Leaves(loop))}

-----------------------------------------------------------------------------
(* Surroundings *)

After == <<Yap("y"), Ring>>

Programs ==
    LET straight == Sketchies(FALSE)
        looping == Sketchies(TRUE)
    IN {<<Yo("y", 1), t>> \o After : t \in straight}
       \cup {<<Call(<<Yo("y", 1), t, Yap("y")>>), Ring>> : t \in straight}
       \cup {<<Yo("y", 1), Sketchy("my_bad", <<Yo("u", 2), t, Yap("u")>>, "o", <<Yap("o")>>, <<>>)>> \o After : t \in straight}
       \cup {<<Yo("y", 1), Each("g", 2, <<t, Yap("g")>>)>> \o After : t \in looping}
       \cup {<<Yo("y", 1), Count("g", 3, <<Yo("u", 2), t, Yap("u")>>)>> \o After : t \in looping}
       \cup {<<Yo("y", 1), Bruh("y", <<Set("y", 0), t, Sus("y", <<Yap("y")>>, <<Nvm>>), Chuck(Lit(12))>>)>> \o After :
                t \in {s \in looping : s.body \in {<<>>, <<Yo("x", 3), Keep("x"), Chuck(Var("x"))>>}}}

-----------------------------------------------------------------------------
(* Functions full of jumps, for LongJumps: loops, sus and sketchy, one in another and one after     *)
(* another.                                                                                         *)

Leaves2 == {<<>>, <<Bail>>, <<Set("y", 2), Nvm>>}

Loops(bodies) ==
    {Count("i", 3, b) : b \in bodies} \cup {Bruh("y", b) : b \in bodies}
    \cup {Each("i", 2, b) : b \in bodies}

LongFunctions ==
    LET choices == {Sus("y", a, b) : a, b \in Leaves2}
        inner == Loops({<<c>> : c \in choices} \cup {<<Set("y", 2)>>})
        tries == {Sketchy("both", <<c>>, "e", <<Yap("e")>>, <<Set("y", 3)>>) : c \in choices}
        bodies == {<<Sus("y", <<l>>, <<Bail>>), Set("y", 3)>> : l \in inner}
                  \cup {<<Yo("u", 3), l, Sus("u", <<Nvm>>, <<>>)>> : l \in inner}
                  \cup {<<t, Set("y", 4)>> : t \in tries}
    IN {<<Yo("y", 1), l, Bounce(Var("y"))>> : l \in Loops(bodies)}
=============================================================================
