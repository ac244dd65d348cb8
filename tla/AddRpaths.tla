------------------------------ MODULE AddRpaths ------------------------------
(***************************************************************************)
(* add_rpaths (mirrord/sip/src/rpath.rs): the command line of             *)
(* install_name_tool that adds one LC_RPATH loader command per rpath      *)
(* entry to a patched binary, and how the child's outcome becomes the     *)
(* function's result.  Paths are model values; the command line is the    *)
(* sequence of its arguments.  The child's outcome is an input: it could  *)
(* not be spawned ("io"), or it exited with success or failure.           *)
(***************************************************************************)
EXTENDS Sequences, SequencesExt

\* The flag each rpath entry follows on the command line.
AddRpathFlag == "-add_rpath"

\* Mutant: sep after every element, the last one included.
IntersperseTrailing(s, sep) ==
    FoldLeft(LAMBDA acc, e : acc \o <<e, sep>>, <<>>, s)

\* Iterator::intersperse: sep between every two neighbouring elements.
Intersperse(s, sep) ==
    FoldLeft(LAMBDA acc, e : IF acc = <<>> THEN <<e>> ELSE acc \o <<sep, e>>,
             <<>>, s)

\* iter::once(flag), the entries interspersed with the flag, then the
\* binary's path.
Args(path, entries) ==
    <<AddRpathFlag>> \o Intersperse(entries, AddRpathFlag) \o <<path>>

(***************************************************************************)
(* add_rpaths: an empty entry list returns Ok without running anything;  *)
(* otherwise install_name_tool runs with Args, `?` propagates a spawn     *)
(* error, and an unsuccessful exit is AddingRpathsFailed.                 *)
(***************************************************************************)
AddRpaths(path, entries, outcome) ==
    IF entries = <<>> THEN [ran |-> FALSE, args |-> <<>>, result |-> "ok"]
    ELSE [ran |-> TRUE, args |-> Args(path, entries),
          result |-> CASE outcome = "io"      -> "io_error"
                       [] outcome = "success" -> "ok"
                       [] outcome = "failure" -> "adding_rpaths_failed"]

=============================================================================
