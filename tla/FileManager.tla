---------------------------- MODULE FileManager ----------------------------
(***************************************************************************)
(* The agent's remote file manager (src/mirrord/agent/src/file.rs,         *)
(* FileManager::handle_message and the handlers it calls).  One request    *)
(* is handled at a time, so each handler is one atomic action.  Responses *)
(* are not kept: an error response is a step that changes nothing.        *)
(*                                                                         *)
(* Ids of open files and of directory streams come from one generator      *)
(* (fds_iter, 0..=u64::MAX, here 0..NumIds-1).  open_files maps an id to a *)
(* file (a cursor on a file of some size) or to a directory pathname;      *)
(* dir_streams maps the ids fdopen_dir hands out to a readdir stream;      *)
(* getdents_streams maps the id of an open directory to the resumable      *)
(* getdents64 stream created on its first getdents64 call.                 *)
(*                                                                         *)
(* The target's file system below its root is the variable fs, from        *)
(* root-relative paths to files (with a size) and directories, without     *)
(* symlinks (PathResolution checks resolve_path with symlinks).  A path    *)
(* that the host kernel looks up outside the root is not modelled beyond   *)
(* the fact that the agent touched it (escaped).                           *)
(***************************************************************************)
EXTENDS Integers, Sequences, FiniteSets, TLC

CONSTANTS Names,     \* the names of the tree
          NameOrder, \* the order in which read_dir lists the names of a directory
          InitFs,    \* the tree when the agent starts
          AbsPaths,  \* paths of requests that name an absolute path
          RelPaths,  \* paths of requests relative to a directory id
          NumIds,    \* the id generator yields 0..NumIds-1
          BufSizes,  \* buffer sizes of getdents64 requests
          Counts,    \* byte counts and batch sizes of requests
          Offsets,   \* seek offsets
          MaxSize,   \* bound on file sizes and cursors
          RootComps  \* root_path below "/": /proc/<pid>/root, or <<>> without a pid

NoLinks == [p \in {} |-> [abs |-> FALSE, comps |-> <<>>]]
PR == INSTANCE PathResolution WITH Links <- NoLinks

Ids == 0..NumIds - 1
Paths == Seq(Names)
\* AT_REMOVEDIR of unlinkat(2).
AtRemoveDir == 512
\* An absent dirfd (None).
NoFd == -1

ASSUME /\ NumIds \in Nat \ {0} /\ MaxSize \in Nat
       /\ Counts \subseteq Nat \ {0} /\ BufSizes \subseteq Nat \ {0}
       /\ {NameOrder[i] : i \in DOMAIN NameOrder} = Names

VARIABLES fs,          \* the target's tree: path -> [kind, size]
          openFiles,   \* open_files: id -> RemoteFile
          dirStreams,  \* dir_streams: id -> [list, next]
          getdents,    \* getdents_streams: id -> [list, next]
          nextId,      \* the next id fds_iter yields (NumIds: exhausted)
          closedFiles, \* ids a Close removed from open_files
          closedDirs,  \* ids a CloseDir removed from dir_streams
          zeroAt,      \* ids a getdents64 call answered with 0 entries
          escaped,     \* a request made the agent touch a path outside the root
          statWrong    \* an xstat looked up a node other than the one it names

vars == <<fs, openFiles, dirStreams, getdents, nextId, closedFiles,
          closedDirs, zeroAt, escaped, statWrong>>

Dir == [kind |-> "dir", size |-> 0]

-----------------------------------------------------------------------------
(* Helpers.                                                                *)

\* The path the host kernel reaches for root.join(p).
Host(p) == PR!HostLookup(p)

\* The host path root_path.join(q), as its components below "/".
HostPath(q) == RootComps \o q

\* The names of directory q, in read_dir's order.
Children(q) == SelectSeq(NameOrder, LAMBDA n : Append(q, n) \in DOMAIN fs)

MinOf(a, b) == IF a < b THEN a ELSE b
MaxOf(a, b) == IF a > b THEN a ELSE b

IsDir(q) == q \in DOMAIN fs /\ fs[q].kind = "dir"

\* The size of a linux_dirent64 for name: inode, offset, length and type,
\* the name and its NUL, rounded up to 8 bytes.
DirentSize(name) == ((8 + 8 + 2 + 1 + Len(name) + 1 + 7) \div 8) * 8



\* How many entries from position i on fit in room bytes: next_if stops
\* at the first entry that does not fit.
RECURSIVE Fitting(_, _, _)
Fitting(l, i, room) ==
    IF i > Len(l) \/ DirentSize(l[i]) > room THEN 0
    ELSE 1 + Fitting(l, i + 1, room - DirentSize(l[i]))

\* fds_iter.next(): the next id, when there is one.
DrawId == nextId < NumIds

\* A response for a request on id fd that needs an open file of the given
\* kind (the shared get / match of read, write, seek and friends).
WrongEntry(fd, kind) ==
    IF fd \notin DOMAIN openFiles THEN "NotFound"
    ELSE IF kind = "file" THEN "NotFile" ELSE "NotDirectory"

\* An error response r: the request leaves every table as it was (the
\* response itself is not kept).
Fail(r) == UNCHANGED vars

\* A reply r to a request that reads and changes nothing.
Reply(r) == UNCHANGED vars

\* The host kernel was made to look up a path outside the root.
Escape ==
    /\ escaped' = TRUE
    /\ UNCHANGED <<fs, openFiles, dirStreams, getdents, nextId, closedFiles,
                   closedDirs, zeroAt, statWrong>>

FileAt(fd) == fd \in DOMAIN openFiles /\ openFiles[fd].kind = "file"
DirAt(fd)  == fd \in DOMAIN openFiles /\ openFiles[fd].kind = "dir"

\* Insert the entry opened at path p (raw) found at node q of the tree.
InsertOpened(p, q) ==
    /\ nextId' = nextId + 1
    /\ openFiles' = (nextId :> [kind |-> fs[q].kind, path |-> p, pos |-> 0,
                                size |-> fs[q].size]) @@ openFiles

\* get_current_and_parent_entries of the directory stored as q: "." and,
\* when the host path has a parent (Path::parent), "..".  Only the plain
\* root "/" has none.
CurrentAndParent(q) == IF HostPath(q) = <<>> THEN <<".">> ELSE <<".", "..">>

\* The entries a GetDEnts64Stream over directory q yields: the queued
\* current_and_parent entries first, then read_dir's entries.
GetDEnts64List(q) == CurrentAndParent(q) \o Children(q)

-----------------------------------------------------------------------------
Init ==
    /\ fs = InitFs
    /\ openFiles = [i \in {} |-> Dir]
    /\ dirStreams = [i \in {} |-> [list |-> <<>>, next |-> 1]]
    /\ getdents = [i \in {} |-> [list |-> <<>>, next |-> 1]]
    /\ nextId = 0
    /\ closedFiles = {} /\ closedDirs = {} /\ zeroAt = {}
    /\ escaped = FALSE /\ statWrong = FALSE

-----------------------------------------------------------------------------
(* Handlers.  Each keeps the order of the code's early returns.            *)

\* open: resolve_path (refused -> InvalidInput), the OS open (ENOENT for a
\* missing path), then an id (IdsExhausted; the opened file is dropped).
Open(p) ==
    LET r == PR!ResolvePath(p)
    IN  IF ~r.ok \/ r.path \notin DOMAIN fs THEN Fail("Io")
        ELSE IF ~DrawId THEN Fail("IdsExhausted")
        ELSE /\ InsertOpened(r.path, r.path)
             /\ UNCHANGED <<fs, dirStreams, getdents, closedFiles, closedDirs,
                            zeroAt, escaped, statWrong>>

\* open_relative: relative_dir.join(path), opened without resolve_path.
OpenRelative(rfd, p) ==
    LET path == openFiles[rfd].path \o p
    IN  IF ~DirAt(rfd) THEN Fail(WrongEntry(rfd, "dir"))
        ELSE IF ~Host(path).inside
        THEN Escape
        ELSE IF Host(path).path \notin DOMAIN fs THEN Fail("Io")
        ELSE IF ~DrawId THEN Fail("IdsExhausted")
        ELSE /\ InsertOpened(path, Host(path).path)
             /\ UNCHANGED <<fs, dirStreams, getdents, closedFiles, closedDirs,
                            zeroAt, escaped, statWrong>>

\* Replace the cursor and size of the open file fd.
SetFile(fd, pos, size) ==
    /\ openFiles' = [openFiles EXCEPT ![fd].pos = pos, ![fd].size = size]
    /\ UNCHANGED <<fs, dirStreams, getdents, nextId, closedFiles, closedDirs,
                   zeroAt, escaped, statWrong>>

\* read: at most n bytes from the cursor; the cursor moves past them.
Read(fd, n) ==
    LET f == openFiles[fd]
    IN  IF ~FileAt(fd) THEN Fail(WrongEntry(fd, "file"))
        ELSE SetFile(fd, f.pos + MinOf(n, MaxOf(f.size - f.pos, 0)), f.size)

\* read_line: BufReader reads ahead up to n bytes and stops after a
\* newline, wherever the file has one; the cursor is sought back to the
\* original position plus the bytes returned.
ReadLine(fd, n) ==
    LET f == openFiles[fd]
        avail == MinOf(n, MaxOf(f.size - f.pos, 0))
    IN  IF ~FileAt(fd) THEN Fail(WrongEntry(fd, "file"))
        ELSE \E k \in IF avail = 0 THEN {0} ELSE 1..avail :
                SetFile(fd, f.pos + k, f.size)

\* write: n bytes at the cursor (bounded by MaxSize).
Write(fd, n) ==
    LET f == openFiles[fd]
    IN  IF ~FileAt(fd) THEN Fail(WrongEntry(fd, "file"))
        ELSE /\ f.pos + n <= MaxSize
             /\ SetFile(fd, f.pos + n, MaxOf(f.size, f.pos + n))

\* write_limited: pwrite of n bytes at start; the cursor stays.
WriteLimited(fd, start, n) ==
    LET f == openFiles[fd]
    IN  IF ~FileAt(fd) THEN Fail(WrongEntry(fd, "file"))
        ELSE /\ start + n <= MaxSize
             /\ SetFile(fd, f.pos, MaxOf(f.size, start + n))

\* Faulty variant: a seek to a negative position is accepted.
SeekUnchecked(fd, whence, off) ==
    LET f == openFiles[fd]
        new == CASE whence = "Start" -> off
                 [] whence = "Current" -> f.pos + off
                 [] whence = "End" -> f.size + off
    IN  IF ~FileAt(fd) THEN Fail(WrongEntry(fd, "file"))
        ELSE /\ new <= MaxSize
             /\ SetFile(fd, new, f.size)

\* seek: SeekFrom::Start, Current or End; a negative result is EINVAL.
Seek(fd, whence, off) ==
    LET f == openFiles[fd]
        new == CASE whence = "Start" -> off
                 [] whence = "Current" -> f.pos + off
                 [] whence = "End" -> f.size + off
    IN  IF ~FileAt(fd) THEN Fail(WrongEntry(fd, "file"))
        ELSE IF (whence = "Start" /\ off < 0) \/ new < 0 THEN Fail("Io")
        ELSE /\ new <= MaxSize
             /\ SetFile(fd, new, f.size)

\* Faulty variant: the id of the last open is handed back to the generator.
CloseRecycle(fd) ==
    /\ openFiles' = [i \in DOMAIN openFiles \ {fd} |-> openFiles[i]]
    /\ closedFiles' = closedFiles \cup (DOMAIN openFiles \cap {fd})
    /\ nextId' = IF fd = nextId - 1 THEN fd ELSE nextId
    /\ UNCHANGED <<fs, dirStreams, getdents, closedDirs, zeroAt, escaped, statWrong>>

\* close: open_files.remove(fd); no response.
Close(fd) ==
    /\ openFiles' = [i \in DOMAIN openFiles \ {fd} |-> openFiles[i]]
    /\ closedFiles' = closedFiles \cup (DOMAIN openFiles \cap {fd})
    /\ UNCHANGED <<fs, dirStreams, getdents, nextId, closedDirs, zeroAt,
                   escaped, statWrong>>

\* close_dir: the readdir stream fd, or else the getdents64 stream fd.
CloseDir(fd) ==
    /\ IF fd \in DOMAIN dirStreams
       THEN /\ dirStreams' = [i \in DOMAIN dirStreams \ {fd} |-> dirStreams[i]]
            /\ closedDirs' = closedDirs \cup {fd}
            /\ UNCHANGED getdents
       ELSE /\ getdents' = [i \in DOMAIN getdents \ {fd} |-> getdents[i]]
            /\ UNCHANGED <<dirStreams, closedDirs>>
    /\ UNCHANGED <<fs, openFiles, nextId, closedFiles, zeroAt, escaped, statWrong>>

\* fdopen_dir: an id is drawn before read_dir, which fails when the
\* directory is gone (the id is then lost).
FdOpenDir(fd) ==
    LET q == Host(openFiles[fd].path).path
    IN  IF ~DirAt(fd) THEN Fail(WrongEntry(fd, "dir"))
        ELSE IF ~DrawId THEN Fail("IdsExhausted")
        ELSE /\ nextId' = nextId + 1
             /\ IF IsDir(q)
                THEN /\ dirStreams' = (nextId :> [list |-> Children(q), next |-> 1])
                                      @@ dirStreams
                ELSE UNCHANGED dirStreams
             /\ UNCHANGED <<fs, openFiles, getdents, closedFiles, closedDirs,
                            zeroAt, escaped, statWrong>>

\* read_dir and read_dir_batch: the next n entries of a readdir stream
\* (None at its end).
ReadDirN(fd, n) ==
    IF fd \notin DOMAIN dirStreams THEN Fail("NotFound")
    ELSE /\ dirStreams' = [dirStreams EXCEPT ![fd].next =
                              MinOf(@ + n, Len(dirStreams[fd].list) + 1)]
         /\ UNCHANGED <<fs, openFiles, getdents, nextId, closedFiles,
                        closedDirs, zeroAt, escaped, statWrong>>

ReadDir(fd) == ReadDirN(fd, 1)

ReadDirBatch(fd, amount) == ReadDirN(fd, amount)

\* The body of getdents64 on stream s of id fd: no entry once the stream
\* is exhausted; otherwise next_if takes entries while they fit in buf.
\* The stream, new or not, is kept under fd.
ServeGetDEnts64(fd, buf, s) ==
    LET k == IF s.next > Len(s.list) THEN 0 ELSE Fitting(s.list, s.next, buf)
    IN  /\ getdents' = (fd :> [s EXCEPT !.next = @ + k]) @@ getdents
        /\ zeroAt' = IF k = 0 THEN zeroAt \cup {fd} ELSE zeroAt
        /\ UNCHANGED <<fs, openFiles, dirStreams, nextId, closedFiles,
                       closedDirs, escaped, statWrong>>

\* getdents64: get_or_create_getdents64_stream finds the stream of fd,
\* or creates it when fd is an open directory ("." and ".." queued before
\* the read_dir iterator, which fails when the directory is gone).
GetDEnts64(fd, buf) ==
    IF fd \in DOMAIN getdents THEN ServeGetDEnts64(fd, buf, getdents[fd])
    ELSE IF ~DirAt(fd) THEN Fail(WrongEntry(fd, "dir"))
    ELSE LET q == Host(openFiles[fd].path).path
         IN  IF ~IsDir(q) THEN Fail("Io")
             ELSE ServeGetDEnts64(fd, buf, [list |-> GetDEnts64List(q),
                                            next |-> 1])

ParentOf(q) == SubSeq(q, 1, Len(q) - 1)

\* mkdir(2), rmdir(2) and unlink(2) on node q of the tree.
FsChange(ok, new) ==
    IF ok THEN /\ fs' = new
               /\ UNCHANGED <<openFiles, dirStreams, getdents, nextId,
                              closedFiles, closedDirs, zeroAt, escaped, statWrong>>
    ELSE Fail("Io")

MakeDir(q) ==
    FsChange(q # <<>> /\ IsDir(ParentOf(q)) /\ q \notin DOMAIN fs,
             (q :> Dir) @@ fs)

RemoveDir(q) ==
    FsChange(q # <<>> /\ IsDir(q) /\ Children(q) = <<>>,
             [x \in DOMAIN fs \ {q} |-> fs[x]])

RemoveFile(q) ==
    FsChange(q \in DOMAIN fs /\ fs[q].kind = "file",
             [x \in DOMAIN fs \ {q} |-> fs[x]])

\* A request joined to the directory of id dirfd (mkdirat, unlinkat with
\* a dirfd): the joined path is not resolved; outside the root it acts on
\* the host, where it may succeed or fail.
AtDir(dirfd, p, Op(_)) ==
    LET path == openFiles[dirfd].path \o p
    IN  IF ~DirAt(dirfd) THEN Fail(WrongEntry(dirfd, "dir"))
        ELSE IF ~Host(path).inside
        THEN Escape
        ELSE Op(Host(path).path)

\* A request on an absolute path, through resolve_path.
Resolved(p, Op(_)) ==
    LET r == PR!ResolvePath(p)
    IN  IF ~r.ok THEN Fail("Io") ELSE Op(r.path)

Mkdir(p) == Resolved(p, MakeDir)

MkdirAt(dirfd, p) == AtDir(dirfd, p, MakeDir)

Rmdir(p) == Resolved(p, RemoveDir)

Unlink(p) == Resolved(p, RemoveFile)

\* unlinkat: flags 0 is mapped to UnlinkatFlags::RemoveDir, anything else
\* to NoRemoveDir; without a dirfd the path is resolved.
UnlinkAtOp(flags, q) == IF flags = 0 THEN RemoveDir(q) ELSE RemoveFile(q)

UnlinkAt(dirfd, p, flags) ==
    IF dirfd = NoFd THEN Resolved(p, LAMBDA q : UnlinkAtOp(flags, q))
    ELSE AtDir(dirfd, p, LAMBDA q : UnlinkAtOp(flags, q))

\* read_limited: pread of n bytes at start; the cursor stays.
ReadLimited(fd, n, start) ==
    IF ~FileAt(fd) THEN Fail(WrongEntry(fd, "file")) ELSE Reply("ReadLimited")

\* access: resolve_path (refused -> InvalidInput), then access(2).
Access(p) ==
    LET r == PR!ResolvePath(p)
    IN  IF ~r.ok THEN Fail("Io") ELSE Reply(r.path \in DOMAIN fs)

\* xstatfs: fstatfs of the open file, or statfs of the directory's path.
XstatFs(fd) ==
    IF fd \notin DOMAIN openFiles THEN Fail("NotFound") ELSE Reply("XstatFs")

\* read_link: the leading "/" stripped, root.join(path) without
\* resolve_path.  The tree has no symlinks, so inside the root the
\* answer is EINVAL.
ReadLink(p) == IF ~Host(p).inside THEN Escape ELSE Fail("Io")

\* An absent path of an xstat request (fstat).
NoPath == <<"none">>

\* The node an xstat of path p looks up after strip_prefix("/"):
\* resolve_path against the root when it follows symlinks, else
\* root.join(p) looked up lexically.
StatLookup(p, follow) ==
    IF follow THEN LET r == PR!ResolvePath(p)
                   IN  [ok |-> r.ok, inside |-> TRUE, path |-> r.path]
    ELSE [ok |-> TRUE, inside |-> Host(p).inside, path |-> Host(p).path]

\* xstat: stat/lstat of an absolute path; fstatat of a path relative to
\* the directory fd, whose stored path (root_path already joined) is
\* joined with it before the strip and the lookup; fstat of fd itself.
\* named is the node the request designates (for fstatat, the directory's
\* node joined with the path, as open_relative reaches it).
Xstat(path, fd, follow) ==
    IF path = NoPath
    THEN IF fd \notin DOMAIN openFiles THEN Fail("NotFound") ELSE Reply("Xstat")
    ELSE IF fd # NoFd /\ ~DirAt(fd) THEN Fail(WrongEntry(fd, "dir"))
    ELSE LET joined == IF fd = NoFd THEN path
                       ELSE HostPath(openFiles[fd].path) \o path
             named  == IF fd = NoFd THEN StatLookup(path, follow)
                       ELSE Host(openFiles[fd].path \o path)
             l      == StatLookup(joined, follow)
         IN  IF ~l.ok THEN Fail("Io")
             ELSE IF ~l.inside THEN Escape
             ELSE /\ statWrong' = (statWrong \/ l.path # named.path)
                  /\ UNCHANGED <<fs, openFiles, dirStreams, getdents, nextId,
                                 closedFiles, closedDirs, zeroAt, escaped>>

-----------------------------------------------------------------------------
Next ==
    \/ \E p \in AbsPaths :
          \/ Open(p) \/ Mkdir(p) \/ Rmdir(p) \/ Unlink(p)
          \/ \E flags \in {0, AtRemoveDir} : UnlinkAt(NoFd, p, flags)
    \/ \E fd \in Ids, p \in RelPaths :
          \/ OpenRelative(fd, p) \/ MkdirAt(fd, p)
          \/ \E flags \in {0, AtRemoveDir} : UnlinkAt(fd, p, flags)
    \/ \E fd \in Ids, n \in Counts :
          \/ Read(fd, n) \/ ReadLine(fd, n) \/ Write(fd, n)
          \/ ReadDirBatch(fd, n)
          \/ \E start \in 0..MaxSize : WriteLimited(fd, start, n)
    \/ \E fd \in Ids, whence \in {"Start", "Current", "End"}, off \in Offsets :
          Seek(fd, whence, off)
    \/ \E p \in AbsPaths, follow \in BOOLEAN :
          Access(p) \/ ReadLink(p) \/ Xstat(p, NoFd, follow)
    \/ \E fd \in Ids, p \in RelPaths, follow \in BOOLEAN : Xstat(p, fd, follow)
    \/ \E fd \in Ids, n \in Counts, start \in 0..MaxSize : ReadLimited(fd, n, start)
    \/ \E fd \in Ids :
          \/ Close(fd) \/ CloseDir(fd) \/ FdOpenDir(fd) \/ ReadDir(fd)
          \/ XstatFs(fd) \/ Xstat(NoPath, fd, FALSE)
          \/ \E buf \in BufSizes : GetDEnts64(fd, buf)

Spec == Init /\ [][Next]_vars

-----------------------------------------------------------------------------
(* Properties.                                                             *)

Entries == [kind : {"file", "dir"}, path : Seq(Names \cup {".", ".."}),
            pos : 0..MaxSize, size : 0..MaxSize]

TypeOK ==
    /\ \A q \in DOMAIN fs : q \in Paths /\ fs[q] \in [kind : {"file", "dir"},
                                                     size : 0..MaxSize]
    /\ DOMAIN openFiles \subseteq Ids
    /\ \A i \in DOMAIN openFiles : openFiles[i] \in Entries
    /\ DOMAIN dirStreams \subseteq Ids /\ DOMAIN getdents \subseteq Ids
    /\ nextId \in 0..NumIds
    /\ closedFiles \subseteq Ids /\ closedDirs \subseteq Ids /\ zeroAt \subseteq Ids
    /\ escaped \in BOOLEAN /\ statWrong \in BOOLEAN

\* Specification 4.2: "no two live ids alias; an id is never reused within
\* a session".  open, open_relative and fdopen_dir draw from the one
\* fds_iter, close and close_dir remove from their own tables: a closed id
\* never comes back, and a readdir stream id is never the id of an open
\* entry, so close_dir (which tries dir_streams before getdents_streams)
\* always closes the stream it was asked to.
IdsNeverAlias ==
    /\ DOMAIN openFiles \cap closedFiles = {}
    /\ DOMAIN dirStreams \cap closedDirs = {}
    /\ DOMAIN dirStreams \cap (DOMAIN openFiles \cup closedFiles \cup DOMAIN getdents) = {}

\* The doc comment of getdents64: "After writing all entries, all future
\* calls return 0 entries.  The caller keeps calling until getting 0."  A
\* call that answers 0 entries is taken for the end, so it must come only
\* once the stream is exhausted.
ZeroMeansEnd ==
    \A fd \in zeroAt \cap DOMAIN getdents :
        getdents[fd].next > Len(getdents[fd].list)

StatNamesItsNode == ~statWrong
====
