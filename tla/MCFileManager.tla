--------------------------- MODULE MCFileManager ---------------------------
(***************************************************************************)
(* The file manager over a tree with a directory d holding a file f; the  *)
(* second tree adds a file with a long name, whose linux_dirent64 (32     *)
(* bytes) is larger than the others (24 bytes).                           *)
(***************************************************************************)
EXTENDS FileManager

MCNameOrder == <<"d", "f", "g", "longname">>

MCInitFs == (<<>> :> Dir) @@ (<<"d">> :> Dir)
         @@ (<<"d", "f">> :> [kind |-> "file", size |-> 1])

MCInitFsLong == (<<"d", "longname">> :> [kind |-> "file", size |-> 0]) @@ MCInitFs

MCAbsPaths == {<<"d">>, <<"d", "f">>, <<"d", "g">>, <<"..">>}

MCRelPaths == {<<"f">>, <<"..", "..">>}

MCOffsets == {-1, 1}

\* The agent's root with a target pid: /proc/<pid>/root.
MCRootComps == <<"proc", "1", "root">>

\* The agent's root without a target pid: "/".
MCPlainRoot == <<>>
=============================================================================
