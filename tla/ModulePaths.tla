----------------------------- MODULE ModulePaths -----------------------------
(***************************************************************************)
(* The names of modules: sequences of segments, like the paths that imports *)
(* quote (modules.c normalize_module_path, resolve_against_current).        *)
(***************************************************************************)
EXTENDS Sequences, SequencesExt

CONSTANT MaxSegments    \* how many segments normalize_module_path keeps, 64

\* normalize_module_path: "." and empty segments go, ".." takes back the segment before it if that is a name.
\* What comes after MaxSegments kept segments is lost.
Normalized(path) ==
    LET Step(kept, seg) ==
            CASE Len(kept) >= MaxSegments -> kept
              [] seg \in {"", "."} -> kept
              [] seg = ".." /\ kept # <<>> /\ Last(kept) # ".." -> Front(kept)
              [] OTHER -> Append(kept, seg)
    IN FoldLeft(Step, <<>>, path)

\* The directory a module is in.
DirOf(name) == Front(name)

\* resolve_against_current
Resolve(name, path) == Normalized(DirOf(name) \o path)
=============================================================================
