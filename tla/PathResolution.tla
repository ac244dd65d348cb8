-------------------------- MODULE PathResolution --------------------------
(***************************************************************************)
(* resolve_path of the agent's file manager (src/mirrord/agent/src/       *)
(* file.rs): a path requested by the layer, relative to the target's root *)
(* (/proc/<pid>/root), is walked component by component; symlinks met on  *)
(* the way are replaced by their targets, ".." pops the path built so far *)
(* and is refused when there is nothing to pop ("LFI attempt?").  The     *)
(* result is joined to the root and handed to the host kernel.            *)
(*                                                                         *)
(* A path is a sequence of components: names, "." and "..".  The file     *)
(* system below the root is abstracted to its symlinks: Links maps the    *)
(* root-relative path of each symlink to its target, absolute or relative.*)
(***************************************************************************)
EXTENDS Sequences
LOCAL INSTANCE SequencesExt

CONSTANTS Names,  \* the plain names a path may contain
          Links   \* [symlink path -> [abs : BOOLEAN, comps : Seq(Names \cup {".."})]]

Components == Names \cup {".", ".."}

\* Link targets name no further symlink: the walk below follows one level.
ASSUME \A l \in DOMAIN Links :
          \A i \in 1..Len(Links[l].comps) :
             \A p \in DOMAIN Links : Links[l].comps[i] # p[Len(p)]

\* The host kernel's lookup of root.join(p), for a p free of symlinks:
\* lexical, and a ".." above the root leaves it (inside = FALSE).
RECURSIVE HostFrom(_, _)
HostFrom(s, cur) ==
    IF s = <<>> THEN [inside |-> TRUE, path |-> cur]
    ELSE CASE Head(s) = "." -> HostFrom(Tail(s), cur)
           [] Head(s) = ".." -> IF cur = <<>> THEN [inside |-> FALSE, path |-> <<>>]
                                ELSE HostFrom(Tail(s), Front(cur))
           [] OTHER -> HostFrom(Tail(s), Append(cur, Head(s)))

HostLookup(p) == HostFrom(p, <<>>)

\* The lookup the target process itself makes inside its own root: ".."
\* at the root stays there, an absolute link restarts from the root, a
\* relative one continues from the link's directory.
RECURSIVE TargetFrom(_, _)
TargetFrom(s, cur) ==
    IF s = <<>> THEN cur
    ELSE LET c == Head(s)
             l == Append(cur, c)
         IN  CASE c = "." -> TargetFrom(Tail(s), cur)
               [] c = ".." -> TargetFrom(Tail(s), IF cur = <<>> THEN <<>> ELSE Front(cur))
               [] l \in DOMAIN Links ->
                     TargetFrom(Links[l].comps \o Tail(s),
                                IF Links[l].abs THEN <<>> ELSE cur)
               [] OTHER -> TargetFrom(Tail(s), l)

TargetLookup(p) == TargetFrom(p, <<>>)

\* real_path.is_symlink(): lstat of root.join(temp).join(component).
IsSymlink(temp, c) ==
    LET real == HostLookup(Append(temp, c))
    IN  real.inside /\ real.path \in DOMAIN Links

\* Faulty variant: an absolute symlink target is joined as if relative.
NormalStepKeepPrefix(temp, c) ==
    IF IsSymlink(temp, c)
    THEN temp \o Links[HostLookup(Append(temp, c)).path].comps
    ELSE Append(temp, c)

\* A Normal component: temp.join(read_link()) for a symlink (an absolute
\* target replaces temp and then loses its leading "/"), temp.join(c)
\* otherwise.
NormalStep(temp, c) ==
    IF IsSymlink(temp, c)
    THEN LET t == Links[HostLookup(Append(temp, c)).path]
         IN  IF t.abs THEN t.comps ELSE temp \o t.comps
    ELSE Append(temp, c)

RECURSIVE ResolveFrom(_, _)

\* Faulty variant: ParentDir is joined like any other component.
ResolveFromJoinParent(s, temp) ==
    IF s = <<>> THEN [ok |-> TRUE, path |-> temp]
    ELSE CASE Head(s) = "." -> ResolveFrom(Tail(s), temp)
           [] Head(s) = ".." -> ResolveFrom(Tail(s), Append(temp, ".."))
           [] OTHER -> ResolveFrom(Tail(s), NormalStep(temp, Head(s)))

\* resolve_path: RootDir and CurDir are skipped, ParentDir pops or is
\* refused, a Normal component goes through NormalStep.
ResolveFrom(s, temp) ==
    IF s = <<>> THEN [ok |-> TRUE, path |-> temp]
    ELSE CASE Head(s) = "." -> ResolveFrom(Tail(s), temp)
           [] Head(s) = ".." -> IF temp = <<>> THEN [ok |-> FALSE, path |-> <<>>]
                                ELSE ResolveFrom(Tail(s), Front(temp))
           [] OTHER -> ResolveFrom(Tail(s), NormalStep(temp, Head(s)))

ResolvePath(p) == ResolveFrom(p, <<>>)
=============================================================================
