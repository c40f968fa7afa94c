------------------------------- MODULE Bundler -------------------------------
(***************************************************************************)
(* Building a bundle (bundler.funny): from the entry file on, every module  *)
(* that some file's imports reach is found in the file system, compiled     *)
(* once and filed under a name, by which alone the running program finds it *)
(* (modules.c do_import, Imports).                                          *)
(*                                                                          *)
(* Files have absolute paths, sequences of segments from the root.  A file  *)
(* is what it imports at its top level, in order, what it imports further   *)
(* in, and whether it compiles.                                             *)
(***************************************************************************)
EXTENDS ModulePaths, Naturals, FiniteSets

CONSTANTS
    Trees,      \* file systems: functions from paths to files
    Entry       \* the path of the entry file

VARIABLES
    tree,
    pending,    \* the jobs of the walk: the entry, or an import not yet resolved
    bundle,     \* names and units: each module's name and the file it is compiled from
    ended       \* how the build ended, and at which import of which file

bundlerVars == <<tree, pending, bundle, ended>>

-----------------------------------------------------------------------------
(* Paths *)

\* platform_abs_path, without symbolic links: the root is its own parent.
AbsPath(path) ==
    LET Step(kept, seg) ==
            CASE seg = "." -> kept
              [] seg = ".." -> IF kept = <<>> THEN kept ELSE Front(kept)
              [] OTHER -> Append(kept, seg)
    IN FoldLeft(Step, <<>>, path)

Unfound == <<"can't find">>

\* Beside the importing file, or in the nearest funny_modules from there upwards.
ResolveImport(quoted, importing) ==
    LET dir == DirOf(importing)
        direct == AbsPath(dir \o quoted)
        InPackages(n) == AbsPath(SubSeq(dir, 1, n) \o <<"funny_modules">> \o quoted)
        found == {n \in 0 .. Len(dir) : InPackages(n) \in DOMAIN tree}
    IN CASE direct \in DOMAIN tree -> direct
         [] direct \notin DOMAIN tree /\ found # {} -> InPackages(CHOOSE n \in found : \A m \in found : m <= n)
         [] OTHER -> Unfound

\* A module's name: its path from the entry's directory, or, outside it, the whole path.
CanonicalUnmatched(path) == <<"">> \o path
CanonicalName(path) ==
    LET dir == DirOf(Entry)
    IN IF IsPrefix(dir, path) THEN SubSeq(path, Len(dir) + 1, Len(path)) ELSE <<"">> \o path

-----------------------------------------------------------------------------
(* The walk *)

Ended(how, quoted, file) == <<how, quoted, file>>
NotYet == Ended("no", <<>>, <<>>)
Built == Ended("built", <<>>, <<>>)

Names == {bundle[i].name : i \in DOMAIN bundle}

\* The jobs for a file's imports: the last one first, as they are taken from the end.
KidsInOrder(file) == [i \in DOMAIN tree[file].top |-> [quoted |-> tree[file].top[i], from |-> file]]
Kids(file) == Reverse([i \in DOMAIN tree[file].top |-> [quoted |-> tree[file].top[i], from |-> file]])

Init ==
    /\ tree \in Trees
    /\ pending = <<[quoted |-> <<>>, from |-> Entry]>>      \* the entry needs no resolving
    /\ bundle = <<>>
    /\ ended = NotYet

Job == Last(pending)
Found == IF Job.quoted = <<>> THEN Job.from ELSE ResolveImport(Job.quoted, Job.from)

Missing ==
    /\ ended = NotYet /\ pending # <<>>
    /\ Found = Unfound
    /\ ended' = Ended("missing", Job.quoted, Job.from)
    /\ UNCHANGED <<tree, pending, bundle>>

\* Here already, under this name.
Skip ==
    /\ ended = NotYet /\ pending # <<>>
    /\ Found # Unfound /\ CanonicalName(Found) \in Names
    /\ pending' = Front(pending)
    /\ UNCHANGED <<tree, bundle, ended>>

Compile ==
    /\ ended = NotYet /\ pending # <<>>
    /\ Found # Unfound /\ CanonicalName(Found) \notin Names
    /\ IF tree[Found].compiles
       THEN /\ bundle' = Append(bundle, [name |-> CanonicalName(Found), file |-> Found])
            /\ pending' = Front(pending) \o Kids(Found)
            /\ UNCHANGED ended
       ELSE ended' = Ended("broken", <<>>, Found) /\ UNCHANGED <<pending, bundle>>
    /\ UNCHANGED tree

Finish ==
    /\ ended = NotYet /\ pending = <<>>
    /\ ended' = Built
    /\ UNCHANGED <<tree, pending, bundle>>

Next == Missing \/ Skip \/ Compile \/ Finish

Spec == Init /\ [][Next]_bundlerVars

-----------------------------------------------------------------------------
(* Properties *)

\* The recursion the walk stands for: a file, then what it imports, one after the other, until an
\* import cannot be found or a file does not compile.
RECURSIVE Visit(_, _)
Visit(so, file) ==
    LET name == CanonicalName(file)
        Import(s, quoted) ==
            LET found == ResolveImport(quoted, file)
            IN CASE s.ended # NotYet -> s
                 [] s.ended = NotYet /\ found = Unfound -> [s EXCEPT !.ended = Ended("missing", quoted, file)]
                 [] OTHER -> Visit(s, found)
    IN CASE \E i \in DOMAIN so.bundle : so.bundle[i].name = name -> so
         [] ~ tree[file].compiles -> [so EXCEPT !.ended = Ended("broken", <<>>, file)]
         [] OTHER -> FoldLeft(Import, [so EXCEPT !.bundle = Append(@, [name |-> name, file |-> file])], tree[file].top)

\* The walk with its own stack visits the files, and fails at the import or the file, that the
\* recursion would: "Pre-order depth-first, matching funnylang/modules.py's visit() recursion
\* exactly" (bundler.funny build_bundle).
WalkIsTheVisit ==
    ended # NotYet =>
        LET visited == Visit([bundle |-> <<>>, ended |-> NotYet], Entry)
        IN /\ bundle = visited.bundle
           /\ ended = IF visited.ended = NotYet THEN Built ELSE visited.ended

\* In a bundle that was built, every import of every module finds, by the name the running program
\* looks up, the module that the build found in the file system; and no name stands for two files
\* (bundler.funny canonical_name; modules.c resolve_against_current).
BundleIsClosed ==
    ended = Built =>
        /\ \A i, j \in DOMAIN bundle : bundle[i].name = bundle[j].name => i = j
        /\ \A i \in DOMAIN bundle :
            LET file == bundle[i].file
            IN \A quoted \in ToSet(tree[file].top) \cup tree[file].inner :
                [name |-> Resolve(bundle[i].name, quoted), file |-> ResolveImport(quoted, file)] \in ToSet(bundle)
=============================================================================
