----------------------------- MODULE LayerFiles -----------------------------
(***************************************************************************)
(* The layer's table of remote files (OPEN_FILES) shared by the threads   *)
(* of the hooked process: the detours that fill and empty it, open_detour *)
(* (mirrord-layer/src/file/hooks.rs), close_detour, close_layer_fd and    *)
(* uv_fs_close_detour (mirrord/layer/src/lib.rs), and the detours that    *)
(* route a call on a descriptor through it (read, fread, fileno, lseek,   *)
(* write, fdopen, openat).                                                *)
(*                                                                         *)
(* A remote open asks the agent for an id, then takes a placeholder local *)
(* fd from the kernel and records fd -> id in the table; the kernel hands *)
(* out the lowest free fd.  Removing (or overwriting) an entry drops the  *)
(* remote file, which sends Close to the agent.  close_detour closes the  *)
(* local fd first and removes the entry afterwards; another thread may    *)
(* run between the two.  The agent's side is the set of ids it holds      *)
(* open; its ids are never reused.                                        *)
(***************************************************************************)
EXTENDS Integers, FiniteSets

CONSTANTS
    Threads,     \* application threads calling the hooked functions
    Fds,         \* local descriptor numbers the kernel can hand out
    MaxRemote    \* bound on the remote ids the agent hands out

ASSUME Fds \subseteq Nat /\ MaxRemote \in Nat

RemoteIds == 0..(MaxRemote - 1)

\* A descriptor the application opened without the agent (a bypassed open).
Local == -1

\* What open(2) returns when no descriptor is free.
NoFd == -1

VARIABLES
    kernel,      \* descriptors allocated in the process
    table,       \* OPEN_FILES: local fd -> remote id
    agentOpen,   \* remote ids open on the agent
    nextRemote,  \* the agent's id generator
    pc,          \* per thread: "idle", "opened" (agent answered), "closing" (libc close done)
    arg,         \* per thread: the remote id being installed, or the fd being closed
    held,        \* per thread: the descriptors open() returned to it, with the file each names
    misrouted    \* history: a forwarded call reached another file than its descriptor's

vars == <<kernel, table, agentOpen, nextRemote, pc, arg, held, misrouted>>

\* The descriptor the kernel hands out next: the lowest free one.
NextFd ==
    IF Fds \ kernel = {} THEN NoFd
    ELSE CHOOSE f \in Fds \ kernel : \A g \in Fds \ kernel : f <= g

\* HashMap::insert / remove: the entry's previous remote file is dropped.
Put(f, r) == [g \in DOMAIN table \cup {f} |-> IF g = f THEN r ELSE table[g]]
Drop(f) == [g \in DOMAIN table \ {f} |-> table[g]]
Dropped(f) == IF f \in DOMAIN table THEN {table[f]} ELSE {}

\* Where a detour sends a call on fd: the remote file OPEN_FILES names, or libc.
Route(f) == IF f \in DOMAIN table THEN table[f] ELSE Local

Init ==
    /\ kernel = {}
    /\ table = <<>>
    /\ agentOpen = {}
    /\ nextRemote = 0
    /\ pc = [t \in Threads |-> "idle"]
    /\ arg = [t \in Threads |-> 0]
    /\ held = [t \in Threads |-> {}]
    /\ misrouted = FALSE

(***************************************************************************)
(* open_detour on an absolute path that IGNORE_FILES does not match, first *)
(* part: ops::open sends Open and the agent answers with a fresh id.      *)
(***************************************************************************)
OpenRemote(t) ==
    /\ pc[t] = "idle"
    /\ nextRemote < MaxRemote
    /\ agentOpen' = agentOpen \cup {nextRemote}
    /\ nextRemote' = nextRemote + 1
    /\ pc' = [pc EXCEPT ![t] = "opened"]
    /\ arg' = [arg EXCEPT ![t] = nextRemote]
    /\ UNCHANGED <<misrouted, kernel, table, held>>

\* Mutant: the placeholder's result is inserted without checking it.
InstallUnchecked(t) ==
    /\ pc[t] = "opened"
    /\ kernel' = kernel \cup ({NextFd} \cap Fds)
    /\ table' = Put(NextFd, arg[t])
    /\ agentOpen' = agentOpen \ Dropped(NextFd)
    /\ held' = [held EXCEPT ![t] = @ \cup {[fd |-> NextFd, remote |-> arg[t]]}]
    /\ pc' = [pc EXCEPT ![t] = "idle"]
    /\ UNCHANGED <<misrouted, nextRemote, arg>>

\* Mutant: a failed placeholder open keeps the agent's file open.
InstallNoFdLeak(t) ==
    /\ pc[t] = "opened"
    /\ \/ /\ NextFd # NoFd
          /\ kernel' = kernel \cup {NextFd}
          /\ table' = Put(NextFd, arg[t])
          /\ agentOpen' = agentOpen \ Dropped(NextFd)
          /\ held' = [held EXCEPT ![t] = @ \cup {[fd |-> NextFd, remote |-> arg[t]]}]
       \/ /\ NextFd = NoFd
          /\ UNCHANGED <<kernel, table, held, agentOpen>>
    /\ pc' = [pc EXCEPT ![t] = "idle"]
    /\ UNCHANGED <<misrouted, nextRemote, arg>>

(***************************************************************************)
(* Second part: a placeholder descriptor is opened locally and the pair   *)
(* inserted in OPEN_FILES under its lock; a stale entry under the same    *)
(* number is replaced and its remote file dropped.  Without a free        *)
(* descriptor the open fails and the new remote file is dropped.          *)
(***************************************************************************)
Install(t) ==
    /\ pc[t] = "opened"
    /\ \/ /\ NextFd # NoFd
          /\ kernel' = kernel \cup {NextFd}
          /\ table' = Put(NextFd, arg[t])
          /\ agentOpen' = agentOpen \ Dropped(NextFd)
          /\ held' = [held EXCEPT ![t] = @ \cup {[fd |-> NextFd, remote |-> arg[t]]}]
       \/ /\ NextFd = NoFd
          /\ agentOpen' = agentOpen \ {arg[t]}
          /\ UNCHANGED <<kernel, table, held>>
    /\ pc' = [pc EXCEPT ![t] = "idle"]
    /\ UNCHANGED <<misrouted, nextRemote, arg>>

\* open_detour on an ignored or relative path: FN_OPEN, bypassing the table.
OpenLocal(t) ==
    /\ pc[t] = "idle"
    /\ NextFd # NoFd
    /\ kernel' = kernel \cup {NextFd}
    /\ held' = [held EXCEPT ![t] = @ \cup {[fd |-> NextFd, remote |-> Local]}]
    /\ UNCHANGED <<misrouted, table, agentOpen, nextRemote, pc, arg>>

\* fopen_detour: the same choice as open_detour on the path (the mode
\* string in place of the flags); ops::fopen installs the remote file as
\* ops::open does, and a bypassed path goes to FN_FOPEN.
FopenRemote(t) == OpenRemote(t)

FopenLocal(t) == OpenLocal(t)

\* close_detour, first part: FN_CLOSE releases the descriptor number.
Close(t) ==
    /\ pc[t] = "idle"
    /\ \E h \in held[t] :
          /\ kernel' = kernel \ {h.fd}
          /\ held' = [held EXCEPT ![t] = @ \ {h}]
          /\ arg' = [arg EXCEPT ![t] = h.fd]
    /\ pc' = [pc EXCEPT ![t] = "closing"]
    /\ UNCHANGED <<misrouted, table, agentOpen, nextRemote>>

\* Mutant: the entry is removed but its remote file is not released.
CloseLayerFdNoNotify(t) ==
    /\ pc[t] = "closing"
    /\ table' = Drop(arg[t])
    /\ pc' = [pc EXCEPT ![t] = "idle"]
    /\ UNCHANGED <<misrouted, kernel, agentOpen, nextRemote, arg, held>>

(***************************************************************************)
(* close_detour, second part: close_layer_fd removes whatever entry the   *)
(* table has under that number now, and the dropped remote file sends     *)
(* Close.  (No sockets are modelled: the SOCKETS lookup misses.)          *)
(***************************************************************************)
CloseLayerFd(t) ==
    /\ pc[t] = "closing"
    /\ table' = Drop(arg[t])
    /\ agentOpen' = agentOpen \ Dropped(arg[t])
    /\ pc' = [pc EXCEPT ![t] = "idle"]
    /\ UNCHANGED <<misrouted, kernel, nextRemote, arg, held>>

\* close_nocancel_detour, __close_nocancel_detour and __close_detour call
\* close_detour.
CloseNocancelDetour(t) == Close(t)

DunderCloseNocancelDetour(t) == Close(t)

DunderCloseDetour(t) == Close(t)

(***************************************************************************)
(* uv_fs_close_detour: close_layer_fd first, then the original close.     *)
(* The number stays allocated until the end, so no other thread can take  *)
(* it in between and the two steps are one action.                        *)
(***************************************************************************)
UvFsClose(t) ==
    /\ pc[t] = "idle"
    /\ \E h \in held[t] :
          /\ table' = Drop(h.fd)
          /\ agentOpen' = agentOpen \ Dropped(h.fd)
          /\ kernel' = kernel \ {h.fd}
          /\ held' = [held EXCEPT ![t] = @ \ {h}]
    /\ UNCHANGED <<misrouted, nextRemote, pc, arg>>

(***************************************************************************)
(* The detours on a descriptor (hooks.rs) share one step: under the lock, *)
(* OPEN_FILES.get(&fd).cloned(); a remote id sends the call to the agent, *)
(* a miss calls the libc original.  The step changes nothing in the table *)
(* or on the agent (a read or write moves the agent's cursor, which this  *)
(* model does not track); it records whether the call reached the file    *)
(* the thread opened the descriptor for.                                  *)
(***************************************************************************)
Forward(t, h) ==
    /\ pc[t] = "idle" /\ h \in held[t]
    /\ misrouted' = (misrouted \/ Route(h.fd) # h.remote)
    /\ UNCHANGED <<kernel, table, agentOpen, nextRemote, pc, arg, held>>

\* read_detour: Read(remote_fd, count) or FN_READ.
ReadDetour(t, h) == Forward(t, h)

\* fread_detour: fileno_detour on the stream, then Read or FN_FREAD.
FreadDetour(t, h) == Forward(t, h)

\* fileno_detour: the local fd if OPEN_FILES has it, else FN_FILENO.
FilenoDetour(t, h) == Forward(t, h)

\* lseek_detour: Seek on the agent or FN_LSEEK (an invalid whence returns
\* -1 after the lookup, before any call).
LseekDetour(t, h) == Forward(t, h)

\* write_detour: Write(remote_fd, bytes) or FN_WRITE (a null buffer
\* returns -1 after the lookup).
WriteDetour(t, h) == Forward(t, h)

\* fdopen_detour: a FILE over the remote file, or FN_FDOPEN.
FdopenDetour(t, h) == Forward(t, h)

(***************************************************************************)
(* openat_detour on a path relative to a descriptor: if OPEN_FILES has    *)
(* the descriptor, OpenRelative goes to the agent under its remote id and *)
(* the result is installed as for open; otherwise FN_OPENAT.  Either way  *)
(* the directory the call used is the one the lookup found.               *)
(***************************************************************************)
OpenatDetour(t, h) ==
    /\ pc[t] = "idle" /\ h \in held[t]
    /\ misrouted' = (misrouted \/ Route(h.fd) # h.remote)
    /\ \/ /\ Route(h.fd) # Local
          /\ nextRemote < MaxRemote
          /\ agentOpen' = agentOpen \cup {nextRemote}
          /\ nextRemote' = nextRemote + 1
          /\ pc' = [pc EXCEPT ![t] = "opened"]
          /\ arg' = [arg EXCEPT ![t] = nextRemote]
          /\ UNCHANGED <<kernel, held>>
       \/ /\ Route(h.fd) = Local
          /\ NextFd # NoFd
          /\ kernel' = kernel \cup {NextFd}
          /\ held' = [held EXCEPT ![t] = @ \cup {[fd |-> NextFd, remote |-> Local]}]
          /\ UNCHANGED <<agentOpen, nextRemote, pc, arg>>
    /\ UNCHANGED table

Next ==
    \E t \in Threads :
        \/ OpenRemote(t) \/ Install(t) \/ OpenLocal(t)
        \/ FopenRemote(t) \/ FopenLocal(t)
        \/ Close(t) \/ CloseLayerFd(t) \/ UvFsClose(t)
        \/ CloseNocancelDetour(t) \/ DunderCloseNocancelDetour(t)
        \/ DunderCloseDetour(t)
        \/ \E h \in held[t] :
              \/ ReadDetour(t, h) \/ FreadDetour(t, h) \/ FilenoDetour(t, h)
              \/ LseekDetour(t, h) \/ WriteDetour(t, h) \/ FdopenDetour(t, h)
              \/ OpenatDetour(t, h)

Spec == Init /\ [][Next]_vars

(***************************************************************************)
(* A thread inside open_detour or close_detour runs the detour to its end:*)
(* the OS keeps scheduling a runnable thread, and the only thing either   *)
(* step waits for is the OPEN_FILES mutex, which every holder releases    *)
(* at the end of its statement.  Nothing obliges an idle thread to call   *)
(* anything, so the steps that start a detour get no fairness.            *)
(***************************************************************************)
FairSpec ==
    Spec /\ \A t \in Threads : WF_vars(Install(t)) /\ WF_vars(CloseLayerFd(t))

-----------------------------------------------------------------------------
(* Properties *)

TypeOK ==
    /\ kernel \subseteq Fds
    /\ DOMAIN table \subseteq Fds /\ \A f \in DOMAIN table : table[f] \in RemoteIds
    /\ agentOpen \subseteq RemoteIds
    /\ nextRemote \in 0..MaxRemote
    /\ pc \in [Threads -> {"idle", "opened", "closing"}]
    /\ held \in [Threads -> SUBSET [fd : Fds, remote : RemoteIds \cup {Local}]]
    /\ misrouted \in BOOLEAN

(***************************************************************************)
(* The agent holds open exactly the remote files the layer can still      *)
(* reach: those in OPEN_FILES and those an open is about to install.      *)
(* Every close, overwrite and failed install releases its remote file     *)
(* once, so no agent id leaks and none is closed while the table names it.*)
(***************************************************************************)
AgentMatchesTable ==
    agentOpen = {table[f] : f \in DOMAIN table}
                  \cup {arg[t] : t \in {u \in Threads : pc[u] = "opened"}}

(***************************************************************************)
(* Every call a detour forwards on a descriptor (read, fread, fileno,     *)
(* lseek, write, fdopen, openat) reaches the file its thread opened that  *)
(* descriptor for: the agent's remote file for a remote open, libc for a  *)
(* bypassed one.                                                           *)
(***************************************************************************)
CallsReachOwnFile == ~misrouted

\* The remote ids some thread can still use: the ones its descriptors name
\* and the ones an open is about to install.
InUse ==
    {h.remote : h \in UNION {held[t] : t \in Threads}}
      \cup {arg[t] : t \in {u \in Threads : pc[u] = "opened"}}

(***************************************************************************)
(* No remote file leaks on the agent: once no thread holds a descriptor    *)
(* for a remote file and no open is installing it (it was closed, its     *)
(* entry overwritten by a reused fd, or its placeholder open failed), the *)
(* agent is eventually told to close it, whichever detours the other      *)
(* threads run in between.                                                *)
(***************************************************************************)
ReleasedFilesClose ==
    \A r \in RemoteIds : (r \in agentOpen /\ r \notin InUse) ~> r \notin agentOpen

=============================================================================
