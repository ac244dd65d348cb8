---------------------------- MODULE LayerLifecycle ----------------------------
(***************************************************************************)
(* The layer's life in a tree of processes (mirrord/layer/src/lib.rs):    *)
(* the constructor that runs in every program image the layer is loaded   *)
(* into (mirrord_layer_entry_point, layer_pre_initialization,             *)
(* load_only_layer_start, layer_start, fetch_env_vars) and fork_detour.   *)
(*                                                                         *)
(* A process is a record: its status, its environment (whether the layer  *)
(* is preloaded, MIRRORD_LAYER_TRACE_ONLY, MIRRORD_REMOTE_ENV_FETCHED),   *)
(* PROXY_CONNECTION (the index of its session with the internal proxy, 0  *)
(* when unset), whether enable_hooks replaced fork, and how many times    *)
(* the remote environment was applied along its chain of forks and execs *)
(* (a history field, not state of the code).  The internal                *)
(* proxy, not in this tree, is the sequence of sessions it was asked to   *)
(* open, each New or Forked from a parent session (specification 4.4).    *)
(***************************************************************************)
EXTENDS Integers, Sequences

CONSTANTS
    Procs,          \* process ids; Root is the one mirrord starts
    Programs,       \* programs a process may execute
    SkipProcesses,  \* programs the configuration loads the layer into with LoadType::Skip
    MaxSessions     \* bound on the sessions the internal proxy opens

Root == CHOOSE p \in Procs : \A q \in Procs : p <= q

\* PROXY_CONNECTION unset.
NoConn == 0

VARIABLES
    proc,       \* per process id: status, env, conn, hooked, applied
    sessions,   \* the internal proxy's sessions, in the order they were requested
    config      \* the resolved configuration the tree runs with

lifeVars == <<proc, sessions, config>>

Env == [preload : BOOLEAN, traceOnly : BOOLEAN, envFetched : BOOLEAN]

Unused == [status |-> "unused", env |-> [preload |-> FALSE, traceOnly |-> FALSE, envFetched |-> FALSE],
           conn |-> NoConn, hooked |-> FALSE, applied |-> 0]

Init ==
    /\ proc = [p \in Procs |-> Unused]
    /\ sessions = <<>>
    /\ config \in [loadFromProcess : BOOLEAN, traceOnly : BOOLEAN]

\* A live process running a new image.
Image(env, conn, hooked, applied) ==
    [status |-> "alive", env |-> env, conn |-> conn, hooked |-> hooked, applied |-> applied]

\* ProxyConnection::new(address, request): the proxy opens a session.
OpenSession(request) ==
    /\ Len(sessions) < MaxSessions
    /\ sessions' = Append(sessions, request)

\* A panic in the constructor (a refused connection, a failed request):
\* specification 7, panics are fatal and the process exits.
Panic(p) == proc' = [proc EXCEPT ![p].status = "dead"]

(***************************************************************************)
(* load_only_layer_start: no hooks; unless trace-only, a New session is   *)
(* stored in PROXY_CONNECTION, and a refused one panics.                   *)
(***************************************************************************)
LoadOnlyLayerStart(p, env, applied) ==
    \/ /\ env.traceOnly
       /\ proc' = [proc EXCEPT ![p] = Image(env, NoConn, FALSE, applied)]
       /\ UNCHANGED sessions
    \/ /\ ~env.traceOnly
       /\ OpenSession([kind |-> "New"])
       /\ proc' = [proc EXCEPT ![p] = Image(env, Len(sessions) + 1, FALSE, applied)]
    \/ /\ ~env.traceOnly
       /\ Panic(p)
       /\ UNCHANGED sessions

\* fetch_env_vars: one GetEnvVars request through PROXY_CONNECTION (the
\* filters default to including "*"), whose variables layer_start sets in
\* the process's environment; the env file, mapping and overrides only
\* shape the values, which are not modelled.
FetchEnvVars(applied) == applied + 1

\* Mutant: the REMOTE_ENV_FETCHED marker is not set after the fetch.
LayerStartNoMarker(p, env, applied) ==
    \/ /\ env.traceOnly
       /\ proc' = [proc EXCEPT ![p] = Image(env, NoConn, TRUE, applied)]
       /\ UNCHANGED sessions
    \/ /\ ~env.traceOnly
       /\ OpenSession([kind |-> "New"])
       /\ LET fetch == config.loadFromProcess /\ ~env.envFetched
          IN  proc' = [proc EXCEPT ![p] =
                 Image(env, Len(sessions) + 1, TRUE,
                       IF fetch THEN FetchEnvVars(applied) ELSE applied)]

(***************************************************************************)
(* layer_start: enable_hooks (fork included) in every case; trace-only     *)
(* returns before connecting; otherwise a New session, then the remote    *)
(* environment is fetched when load_from_process is set and the           *)
(* REMOTE_ENV_FETCHED marker is not in the environment, which is then set.*)
(* A refused connection, or a failed fetch after it, panics.              *)
(***************************************************************************)
LayerStart(p, env, applied) ==
    \/ /\ env.traceOnly
       /\ proc' = [proc EXCEPT ![p] = Image(env, NoConn, TRUE, applied)]
       /\ UNCHANGED sessions
    \/ /\ ~env.traceOnly
       /\ OpenSession([kind |-> "New"])
       /\ LET fetch == config.loadFromProcess /\ ~env.envFetched
          IN  proc' = [proc EXCEPT ![p] =
                 Image([env EXCEPT !.envFetched = @ \/ fetch], Len(sessions) + 1, TRUE,
                       IF fetch THEN FetchEnvVars(applied) ELSE applied)]
    \/ /\ ~env.traceOnly
       /\ Panic(p)
       /\ UNCHANGED sessions
    \/ /\ ~env.traceOnly /\ config.loadFromProcess /\ ~env.envFetched
       /\ OpenSession([kind |-> "New"])
       /\ Panic(p)

(***************************************************************************)
(* The constructor of an image: without the layer preloaded nothing runs; *)
(* otherwise layer_pre_initialization picks the load type of the program: *)
(* Skip for the configured programs, Full for the others.                  *)
(***************************************************************************)
LayerPreInitialization(p, env, prog, applied) ==
    \/ /\ ~env.preload
       /\ proc' = [proc EXCEPT ![p] = Image(env, NoConn, FALSE, applied)]
       /\ UNCHANGED sessions
    \/ /\ env.preload /\ prog \in SkipProcesses
       /\ LoadOnlyLayerStart(p, env, applied)
    \/ /\ env.preload /\ prog \notin SkipProcesses
       /\ LayerStart(p, env, applied)

\* mirrord starts the root program with the layer preloaded.
Launch ==
    /\ proc[Root].status = "unused"
    /\ \E prog \in Programs :
          LayerPreInitialization(Root, [preload |-> TRUE, traceOnly |-> config.traceOnly, envFetched |-> FALSE], prog, 0)
    /\ UNCHANGED config

\* Mutant: fork_detour opens the child's session but keeps the parent's.
ForkDetourKeepConn(p, c) ==
    /\ proc[p].status = "alive" /\ proc[c].status = "unused"
    /\ LET copy == proc[p]
       IN  \/ /\ ~copy.hooked \/ copy.conn = NoConn
              /\ proc' = [proc EXCEPT ![c] = copy]
              /\ UNCHANGED sessions
           \/ /\ copy.hooked /\ copy.conn # NoConn
              /\ OpenSession([kind |-> "Forked", parent |-> copy.conn])
              /\ proc' = [proc EXCEPT ![c] = copy]
           \/ /\ copy.hooked /\ copy.conn # NoConn
              /\ proc' = [proc EXCEPT ![c].status = "dead"]
              /\ UNCHANGED sessions
    /\ UNCHANGED config

\* Mutant: the child asks for a Forked session without checking that the
\* parent had a connection (the trace-only early return dropped).
ForkDetourNoTraceCheck(p, c) ==
    /\ proc[p].status = "alive" /\ proc[c].status = "unused"
    /\ LET copy == proc[p]
       IN  \/ /\ ~copy.hooked
              /\ proc' = [proc EXCEPT ![c] = copy]
              /\ UNCHANGED sessions
           \/ /\ copy.hooked
              /\ OpenSession([kind |-> "Forked", parent |-> copy.conn])
              /\ proc' = [proc EXCEPT ![c] = [copy EXCEPT !.conn = Len(sessions) + 1]]
    /\ UNCHANGED config

(***************************************************************************)
(* fork(2) of a live process: the child gets a copy of its memory and     *)
(* environment.  With fork hooked, fork_detour runs in the child: an unset *)
(* PROXY_CONNECTION (trace-only) is left alone; otherwise it is taken and *)
(* replaced by a session Forked from the parent's, and the old one is     *)
(* leaked.  A failed connection panics in the child, which dies.          *)
(***************************************************************************)
ForkDetour(p, c) ==
    /\ proc[p].status = "alive" /\ proc[c].status = "unused"
    /\ LET copy == proc[p]
       IN  \/ /\ ~copy.hooked \/ copy.conn = NoConn
              /\ proc' = [proc EXCEPT ![c] = copy]
              /\ UNCHANGED sessions
           \/ /\ copy.hooked /\ copy.conn # NoConn
              /\ OpenSession([kind |-> "Forked", parent |-> copy.conn])
              /\ proc' = [proc EXCEPT ![c] = [copy EXCEPT !.conn = Len(sessions) + 1]]
           \/ /\ copy.hooked /\ copy.conn # NoConn
              /\ proc' = [proc EXCEPT ![c].status = "dead"]
              /\ UNCHANGED sessions
    /\ UNCHANGED config

(***************************************************************************)
(* execve(2) by a live process: the image and its PROXY_CONNECTION socket *)
(* (close-on-exec) are gone and the constructor runs in the new program.  *)
(* The environment is inherited, or one the caller built, which carries   *)
(* neither the layer nor the remote variables.                            *)
(***************************************************************************)
Exec(p) ==
    /\ proc[p].status = "alive"
    /\ \/ \E prog \in Programs :
             LayerPreInitialization(p, proc[p].env, prog, proc[p].applied)
       \/ \E prog \in Programs :
             LayerPreInitialization(p, [preload |-> FALSE, traceOnly |-> FALSE, envFetched |-> FALSE], prog, 0)
    /\ UNCHANGED config

Exit(p) ==
    /\ proc[p].status = "alive"
    /\ proc' = [proc EXCEPT ![p].status = "dead"]
    /\ UNCHANGED <<sessions, config>>

Next ==
    \/ Launch
    \/ \E p \in Procs :
          \/ Exec(p) \/ Exit(p)
          \/ \E c \in Procs : ForkDetour(p, c)

-----------------------------------------------------------------------------
(* Properties *)

TypeOK ==
    /\ proc \in [Procs -> [status : {"unused", "alive", "dead"}, env : Env,
                           conn : 0..MaxSessions, hooked : BOOLEAN, applied : Nat]]
    /\ sessions \in Seq([kind : {"New"}] \cup [kind : {"Forked"}, parent : 1..MaxSessions])

(***************************************************************************)
(* Specification 4.4: after fork the parent connection is retained only   *)
(* in the parent.  Two live processes whose hooks send requests never     *)
(* share a proxy session, through any sequence of forks and execs; and a  *)
(* trace-only tree never opens one.                                       *)
(***************************************************************************)
SessionsNotShared ==
    /\ \A p, q \in Procs :
          (p # q /\ proc[p].status = "alive" /\ proc[q].status = "alive"
             /\ proc[p].hooked /\ proc[p].conn # NoConn)
            => proc[p].conn # proc[q].conn
    /\ config.traceOnly => sessions = <<>>

(***************************************************************************)
(* MIRRORD_REMOTE_ENV_FETCHED keeps the remote environment from being     *)
(* applied twice along a chain of forks and execs: a process that got it, *)
(* and may have changed it since, never has it overwritten by a new fetch *)
(* in itself or in a descendant that inherits its environment.            *)
(***************************************************************************)
EnvFetchedOnce == \A p \in Procs : proc[p].applied <= 1

=============================================================================
