------------------------------- MODULE Imports -------------------------------
(***************************************************************************)
(* How a bundled program imports its modules (modules.c do_import, vm.c     *)
(* vm_run_module and the loading stack): a quoted path is resolved against  *)
(* the module the VM is running, a module's body runs on its first import,  *)
(* and a module met again while it still runs is a cycle.                   *)
(*                                                                          *)
(* Code runs in frames: the entry, the body of an imported module, or a     *)
(* function some module exported.  What the code computes is left open: it  *)
(* imports, calls, chucks and returns in any order.                         *)
(***************************************************************************)
EXTENDS ModulePaths, Naturals, FiniteSets, FiniteSetsExt

CONSTANTS
    Bundle,         \* the names of the bundle's modules; a name is a sequence of segments
    EntryModule,          \* the one that vm_run_pak starts
    Paths,          \* the quoted paths that imports name, each a sequence of segments
    MaxFrames       \* bound on nested code

VARIABLES
    frames,         \* the code that is running, innermost last
    current,        \* vm->currentModuleName
    loading,        \* vm->loadingModules
    cache,          \* the modules in vm->pakModuleCache
    answer

importVars == <<frames, current, loading, cache, answer>>

\* Code of a module, its body or one of its functions, and the module that ran before it.
Frame(code, body, prior) == [code |-> code, body |-> body, prior |-> prior]

Top == Last(frames)

-----------------------------------------------------------------------------
(* Steps *)

\* vm_run_pak
ImportInit ==
    /\ frames = <<Frame(EntryModule, TRUE, EntryModule)>>
    /\ current = EntryModule
    /\ loading = <<EntryModule>>
    /\ cache = {}
    /\ answer = "none"

\* do_import's answer before it runs anything.  A module that still runs is a cycle.
VerdictUnguarded(target) ==
    CASE target \in cache       -> "cached"
      [] target \notin Bundle   -> "ImportSkillIssue"
      [] OTHER                  -> "run"
Verdict(target) ==
    CASE target \in cache       -> "cached"
      [] target \notin Bundle   -> "ImportSkillIssue"
      [] Contains(loading, target) -> "circular import"
      [] OTHER                  -> "run"

\* What a chuck that the code of frame i catches leaves of the frames above it: every body it
\* leaves returns from vm_run_module and do_import, which put back what they changed.
RestoredCurrent(i) ==
    LET left == {j \in i + 1 .. Len(frames) : frames[j].body}
    IN IF left = {} THEN current ELSE frames[Min(left)].prior
LoadingBelow(i) ==
    SubSeq(loading, 1, Len(loading) - Cardinality({j \in i + 1 .. Len(frames) : frames[j].body}))

\* An error unwinds to a sketchy in one of the running frames, or ends the program.
Unwind(i) ==
    /\ frames' = SubSeq(frames, 1, i)
    /\ current' = RestoredCurrent(i)
    /\ loading' = LoadingBelow(i)
    /\ UNCHANGED cache

Import(path) ==
    LET target == Resolve(current, path)
    IN /\ frames # <<>>
       /\ answer' = Verdict(target)
       /\ \/ /\ Verdict(target) = "cached"
             /\ UNCHANGED <<frames, current, loading, cache>>
          \/ /\ Verdict(target) \in {"ImportSkillIssue", "circular import"}
             /\ \E i \in 0 .. Len(frames) : Unwind(i)
          \/ /\ Verdict(target) = "run"
             /\ Len(frames) < MaxFrames
             /\ frames' = Append(frames, Frame(target, TRUE, current))
             /\ loading' = Append(loading, target)
             /\ current' = target
             /\ UNCHANGED cache

\* The body of an imported module ends: its exports are the module, which do_import caches.
EndBody ==
    /\ Len(frames) > 1 /\ Top.body
    /\ frames' = Front(frames)
    /\ current' = Top.prior
    /\ loading' = Front(loading)
    /\ cache' = cache \cup {Top.code}
    /\ answer' = "module"

\* Code calls a function that a finished module exported, or of its own module.
Call(m) ==
    /\ frames # <<>> /\ Len(frames) < MaxFrames
    /\ m \in cache \cup {Top.code}
    /\ frames' = Append(frames, Frame(m, FALSE, current))
    /\ answer' = "none"
    /\ UNCHANGED <<current, loading, cache>>

Return ==
    /\ frames # <<>> /\ ~ Top.body
    /\ frames' = Front(frames)
    /\ answer' = "none"
    /\ UNCHANGED <<current, loading, cache>>

Chuck ==
    /\ frames # <<>>
    /\ \E i \in 0 .. Len(frames) - 1 : Unwind(i)
    /\ answer' = "chucked"

\* The entry ends; what is left is the loop's (EventLoop).
End ==
    /\ Len(frames) = 1 /\ Top.body
    /\ frames' = <<>> /\ loading' = <<>>
    /\ answer' = "none"
    /\ UNCHANGED <<current, cache>>

\* The program is over.
Over == frames = <<>> /\ UNCHANGED importVars

ImportNext ==
    \/ \E path \in Paths : Import(path)
    \/ \E m \in Bundle : Call(m)
    \/ EndBody \/ Return \/ Chuck \/ End \/ Over

ImportSpec == ImportInit /\ [][ImportNext]_importVars

-----------------------------------------------------------------------------
(* Properties *)

Running == {i \in DOMAIN frames : frames[i].body}

\* A module's body is never entered again while it runs or once it has ended, whatever chain of
\* imports, functions and caught errors leads back to it.
RunsOnce ==
    /\ \A i, j \in Running : i # j => frames[i].code # frames[j].code
    /\ \A i \in Running : frames[i].code \notin cache

\* The loading stack names the bodies that run, in order, and the VM's current module is the
\* innermost of them: errors that skip any number of bodies leave neither behind.
LoadingIsTheBodies ==
    /\ loading = [n \in 1 .. Cardinality(Running) |->
                    frames[CHOOSE i \in Running : Cardinality({j \in Running : j <= i}) = n].code]
    /\ frames # <<>> => current = Last(loading)

\* No module's body is entered again while it runs or after it ended, and the loading stack that
\* sees to it survives every error (modules.c: do_import; vm.c: vm_run_module).
ModulesRunOnce == RunsOnce /\ LoadingIsTheBodies
=============================================================================
