------------------------------ MODULE MCLibrary ------------------------------
(***************************************************************************)
(* The self-contained parts of the runtime, each a machine of its own.      *)
(* They share no state, so a behaviour of this module picks one of them at  *)
(* the start and runs it alone: one run covers all of them without their    *)
(* product.  GroupChat, Imports (two modules called b, one beside the entry *)
(* and one in lib, importing one another in every way), AtomicFile (two     *)
(* writers and a reader), Mailbox (a ring that grows twice, wrapped or      *)
(* not), Portable, LongJumps and Stash are those there are proofs about;    *)
(* their constants are in the .cfg.                                         *)
(***************************************************************************)
EXTENDS GroupChat, Imports, AtomicFile, Mailbox, Portable, LongJumps, Stash, Integers, Sequences, TLC

CONSTANTS
    Parts,          \* the machines this run is about
    Liberties       \* see SketchyPrograms, ExpressionPrograms, and Trees and the stashes below

VARIABLES
    part,
    program, calls, stack, kept, said, outcome,  \* Sketchy, Expressions
    tree, pending, bundle, ended,               \* Bundler
    given, got                                  \* the modules that compute an answer


none == "none"

sketchyVars == <<program, calls, stack, kept, said, outcome>>
bundlerVars == <<tree, pending, bundle, ended>>
workVars == <<given, got>>

-----------------------------------------------------------------------------
(* Groupchats.  k1, k2 and k3 meet in the smallest index; seven is a numba.  With an index   *)
(* from 2 entries on and a first capacity of 4, its growth, rebuilding and dropping all happen   *)
(* within 5 entries.                                                                             *)

SomeBatches == {<<EntryOf("k3", "x"), EntryOf("k1", "y"), EntryOf("seven", "x"), EntryOf("k3", "y")>>}
SomeHash == [k1 |-> 3, k2 |-> 3, k3 |-> 7, k4 |-> 0]

-----------------------------------------------------------------------------
(* Stashes.  Up to three of three numbas, two of which are equal, full or with room; functions   *)
(* answer a numba, a boolski, or a squad, which cannot be compared with another one, and         *)
(* comparators a whole numba of either sign, zero or a boolski. Functions leave the stash alone  *)
(* under the methods that do not expect otherwise, and do not fail, drop their arguments or       *)
(* answer negative floats under sort, unless the liberties say so.                               *)

Lenient == {"glow_up", "squish", "any", "all"}
Strict == {"vibe_check", "sort_by", "group_by"}

SomeRank == ("0" :> 0 @@ "0.0" :> 0 @@ "1" :> 1)
SomeChangers == Lenient \cup (IF "changes" \in Liberties THEN Strict \cup {"sort"} ELSE {})
SomeChuckers == Lenient \cup Strict \cup (IF "sort fails" \in Liberties THEN {"sort"} ELSE {})
SomeVerdicts == {"-1", "0", "1", "bet", "cap"} \cup (IF "floats" \in Liberties THEN {"-0.5"} ELSE {})
SomeForgetters == IF "forgets" \in Liberties THEN {"sort"} ELSE {}

-----------------------------------------------------------------------------
(* Imports.  Two modules called b, one beside the entry and one in lib, which import each other  *)
(* and the entry in every way the paths allow.                                                   *)

SmallBundle == {<<"main">>, <<"b">>, <<"lib", "a">>, <<"lib", "b">>}
TheEntry == <<"main">>
SomePaths == {<<"b">>, <<"lib", "a">>, <<".", "a">>, <<"..", "lib", "b">>, <<"..", "main">>, <<"main">>}

-----------------------------------------------------------------------------
(* Bundles.  The same two modules called b, on a disk; what each file imports, and in which      *)
(* order, and whether lib/b compiles, is open.  Files stay within the entry's directory and      *)
(* import at their top level, unless the liberties say otherwise.                                *)

\* The lists of up to two different members.
Lists(xs) == {<<>>} \cup {<<x>> : x \in xs} \cup {p \in xs \X xs : p[1] # p[2]}

App(name) == <<"app">> \o name
File(top, inner) == [top |-> top, inner |-> inner, compiles |-> TRUE]
Sources(quoted, inner) == {File(top, inner) : top \in Lists(quoted)}
Option(liberty, quoted) == IF liberty \in Liberties THEN {quoted} ELSE {}

Trees == {(App(<<"main">>) :> main @@ App(<<"b">>) :> b @@ App(<<"lib", "a">>) :> la @@ App(<<"lib", "b">>) :> lb
            @@ App(<<"funny_modules", "p">>) :> File(<<>>, {}) @@ <<"out">> :> File(<<>>, {})) :
                main \in Sources({<<"b">>, <<"lib", "a">>, <<".", "lib", "..", "b">>}
                               \cup Option("packages", <<"p">>) \cup Option("outside", <<"..", "out">>)
                               \cup Option("out and back", <<"..", "app", "b">>), Option("inner imports", <<"lib", "b">>)),
                b \in Sources({<<"lib", "b">>, <<"main">>}, {}),
                la \in Sources({<<"b">>, <<"..", "b">>, <<"..", "main">>}, {}),
                lb \in Sources({<<"a">>, <<"gone">>}, {}) \cup {[File(<<>>, {}) EXCEPT !.compiles = FALSE]}}

U == INSTANCE Bundler WITH Entry <- App(<<"main">>), MaxSegments <- 5

\* Building a bundle finds, orders and fails as a recursive walk would (bundler.funny: build_bundle).
BundleWalkIsTheVisit == part = "bundle" => U!WalkIsTheVisit

\* What the build found, the running program finds (bundler.funny: canonical_name; modules.c: do_import).
BundleIsClosed == part = "bundle" => U!BundleIsClosed

-----------------------------------------------------------------------------
(* Portable values.  Every heap of two containers of up to two items, or two entries of which    *)
(* one has a scalar for its key, and a third of one item at most, which share parts, nest, and    *)
(* lead back to themselves in every way.                                                         *)

SentValues == {"x", "bet", "c1", "c2", "c3"}
Stashes(n) == {Container("stash", s) : s \in UNION {[1 .. k -> SentValues] : k \in 0 .. n}}
Groupchats == {Container("groupchat", s) : s \in {<<>>} \cup (SentValues \X SentValues) \cup {<<"x", v, "c3", "x">> : v \in SentValues}}

SomeHeaps == {("c1" :> a @@ "c2" :> b @@ "c3" :> c) :
                a \in Stashes(2) \cup Groupchats, b \in Stashes(2) \cup Groupchats, c \in Stashes(1)}

-----------------------------------------------------------------------------
(* Numbas.  Limbs of 4 bits, so an int64 is 8 bits wide, and dividends of up to 4 limbs and      *)
(* divisors of up to 3, with the digits at which carries, borrows and guesses at quotients turn. *)
(* Text has two digits of base 3 to a limb.                                                      *)

Low == {a + 16 * b : a \in {0, 1, 15}, b \in {0, 8, 15}}

N == INSTANCE Numbas WITH
    LimbBits <- 4, Radix <- 3, ChunkDigits <- 2,
    Lefts <- {l + 256 * h : l \in {0, 1, 15, 128, 136, 255}, h \in {0, 1, 8, 15, 16, 128, 135, 143, 240, 255}}
             \cup {127, 32766} \cup {-1, -127, -128, -129, -255, -256, -4095, -34831},
    Rights <- {l + 256 * h : l \in Low, h \in {0, 1, 8, 15}} \cup {-1, -127, -128, -129, -256, -2048, -4095},
    Shifts <- {0, 1, 3, 4, 5, 8, 11}, Exponents <- {0, 1, 2, 3, 5, 10}

\* Whole numbas are exact whatever their size, and have one representation (vm.c, bignum.c).
NumbasAreExact == part = "numbas" => N!Exact

-----------------------------------------------------------------------------
(* sketchy, my_bad and regardless. *)

S == INSTANCE SketchyPrograms

K == INSTANCE Sketchy WITH Programs <- S!Programs, frames <- calls

\* Programs do what their statements mean (compiler.funny, vm.c).
SketchyMeansWhatItSays == part = "sketchy" => K!MeansWhatItSays

-----------------------------------------------------------------------------
(* Expressions: every form with every form as an operand. *)

X == INSTANCE ExpressionPrograms

Y == INSTANCE Expressions WITH
    Programs <- X!Programs, Functions <- X!Functions, Captured <- X!Captured, Objects <- X!Objects,
    frames <- calls, heap <- kept

\* Expressions are compiled to what they mean, wherever the stack stands (compiler.funny, vm.c).
ExpressionsMeanWhatTheySay == part = "expressions" => Y!MeansWhatItSays

-----------------------------------------------------------------------------
(* Long jumps.  A few dozen bytes are far when a short jump reaches that little.  Three in ten of  *)
(* the functions come to widen what cannot be widened; JumpsLand fails of those.                   *)

LongCodes == {K!Function(f) : f \in S!LongFunctions}

-----------------------------------------------------------------------------
Init ==
    /\ part \in Parts
    /\ ChatInit /\ ImportInit /\ FileInit /\ MailboxInit /\ PortableInit /\ JumpInit
    /\ IF part = "sketchy" THEN K!Init
       ELSE IF part = "expressions" THEN Y!Init
       ELSE /\ program = none /\ calls = none /\ stack = none
            /\ kept = none /\ said = none /\ outcome = none
    /\ IF part = "stash" THEN StashInit /\ (length = 3 => Len(array) = 3)    \* the longest here never grow
       ELSE StashStart(<<>>, 1)
    /\ IF part = "bundle" THEN U!Init ELSE tree = none /\ pending = none /\ bundle = none /\ ended = none
    /\ given = <<>> /\ got = <<>>

Next ==
    /\ UNCHANGED part
    /\ \/ /\ part = "stash"
          /\ UNCHANGED <<sketchyVars, bundlerVars, chatVars, importVars, fileVars, mailboxVars, portableVars, jumpVars, workVars>>
          /\ StashNext \/ (doing.how \in {"answered", "chucked"} /\ UNCHANGED stashVars)
       \/ /\ UNCHANGED <<sketchyVars, bundlerVars, stashVars, workVars>>
          /\ \/ part = "groupchat" /\ ChatNext /\ UNCHANGED <<importVars, fileVars, mailboxVars, portableVars, jumpVars>>
             \/ part = "imports" /\ ImportNext /\ UNCHANGED <<chatVars, fileVars, mailboxVars, portableVars, jumpVars>>
             \/ part = "files" /\ FileNext /\ UNCHANGED <<chatVars, importVars, mailboxVars, portableVars, jumpVars>>
             \/ part = "mailbox" /\ MailboxNext /\ UNCHANGED <<chatVars, importVars, fileVars, portableVars, jumpVars>>
             \/ /\ part = "jumps" /\ UNCHANGED <<chatVars, importVars, fileVars, mailboxVars, portableVars>>
                /\ JumpNext \/ (emitted # <<>> /\ UNCHANGED jumpVars)
             \/ /\ part = "portable" /\ UNCHANGED <<chatVars, importVars, fileVars, mailboxVars, jumpVars>>
                /\ PortableNext \/ (sent # <<>> /\ UNCHANGED portableVars)
       \/ /\ UNCHANGED <<chatVars, importVars, fileVars, mailboxVars, portableVars, jumpVars, stashVars>>
          /\ \/ part = "numbas" /\ N!Next /\ UNCHANGED <<sketchyVars, bundlerVars>>
             \/ given # <<>> /\ UNCHANGED <<workVars, sketchyVars, bundlerVars>>     \* answered
             \/ /\ part = "bundle" /\ UNCHANGED <<workVars, sketchyVars>>
                /\ U!Next \/ (ended # U!NotYet /\ UNCHANGED bundlerVars)
             \/ /\ part \in {"sketchy", "expressions"} /\ UNCHANGED <<workVars, bundlerVars>>
                /\ \/ part = "sketchy" /\ K!Next
                   \/ part = "expressions" /\ Y!Next
                   \/ outcome.how # "running" /\ UNCHANGED sketchyVars

vars == <<part, chatVars, importVars, fileVars, mailboxVars, portableVars, jumpVars, sketchyVars, bundlerVars, stashVars, workVars>>

Spec == Init /\ [][Next]_vars
=============================================================================
