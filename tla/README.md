# TLA+ models of mirrord

This directory holds TLA+ specifications of the parts of mirrord that keep
state across requests, packets or iptables calls, and the TLC configurations
that check them. Every module is written from the Rust source under `src/`.
Where a piece of behaviour is only described in `spec.md` (code that is not in
this tree), `PROJECT.json` marks the definition `spec_modelled`.

## The system

mirrord runs a local process as if it ran inside a Kubernetes pod.

- **Layer.** A library injected into the local process. It hooks libc calls
  (`open`, `read`, `close`, `fork`, sockets, DNS).
- **Proxy.** Carries the hooked calls between the layer and the agent.
- **Agent.** Runs in the target pod's namespaces and serves the calls there.
  - A remote file manager: a table of ids for files and directories.
  - A TCP sniffer: a raw socket behind a BPF filter that mirrors the
    subscribed ports to its clients.
  - A stealer: it redirects the subscribed ports to itself with iptables
    `nat` chains.
  - A DNS worker.

The parts interact as follows:

- Sniffer clients (one per layer session) subscribe to ports through
  `TcpSnifferApi`. The sniffer task runs a single `select!` loop over three
  sources: client commands, client-closed futures and captured packets.
- The file manager serves one layer session's requests in order.
- Every iptables chain is owned by an `IPTableChain` handle. The stealer's
  redirect strategies add and remove rules through that handle.
- Before the agent starts, the client reads the target pod:
  `check_mesh_vendor` detects a service mesh and `choose_container` picks
  the container the agent attaches to. Through the operator, it first reads
  the operator's advertised features (`MirrordOperatorSpec`).
- HTTP bodies cross the protocol in batches of frames (`BatchedBody`).
- The layer's constructor runs in every program image of the local process
  tree. Each hooked image opens its own session with the internal proxy;
  a forked child asks for a session forked from its parent's. The first
  image fetches the target's environment, and an environment marker stops
  the images after it from fetching it again.

## Modules

| Module | Models | Source |
|---|---|---|
| `SessionIdentifier` | `TcpSessionIdentifier`, with its hand-written `PartialEq` and `Hash` | `agent/src/sniffer.rs` |
| `Sniffer` | `TcpConnectionSniffer`'s loop and handlers, its broadcast and connection channels, and the clients | `agent/src/sniffer.rs` |
| `PathResolution` | `resolve_path` and symlink following under `/proc/<pid>/root` | `agent/src/file.rs` |
| `FileManager` | `FileManager::handle_message` and every handler that changes its tables or the target's tree | `agent/src/file.rs` |
| `IPTablesChain` | `IPTableChain` and the `IPTablesWrapper` commands it issues | `agent/iptables/src/chain.rs`, `lib.rs` |
| `LayerFiles` | the layer's `OPEN_FILES` table under concurrent `open` and `close` detours | `mirrord-layer/src/file/hooks.rs`, `layer/src/lib.rs` |
| `TargetSelection` | `check_mesh_vendor`, `choose_container` and `SKIP_NAMES` | `kube/src/api/container.rs` |
| `OperatorFeatures` | the operator's feature fields, old and new: `new`, `supported_features`, `require_feature` | `operator/src/crd.rs` |
| `BatchedBody` | `next_frames` and `extend_with_ready` | `protocol/src/batched_body.rs` |
| `RolloutResolution` | `Rollout::get_pod_template` and `get_match_labels` | `kube/src/api/kubernetes/rollout.rs` |
| `AddRpaths` | `add_rpaths`: the `install_name_tool` command line and the result | `sip/src/rpath.rs` |
| `TlsDelivery` | `LocalTlsDelivery::verify` | `config/src/feature/network/incoming/tls_delivery.rs` |
| `LayerLifecycle` | the layer's constructor, `layer_start`, `load_only_layer_start`, `fetch_env_vars` and `fork_detour` in a tree of processes | `layer/src/lib.rs` |

Each stateful module has an `MC*` module that gives TLC its constants.
`MCStandalone` checks the four modules of pure functions
(`PathResolution`, `TargetSelection`, `RolloutResolution`,
`OperatorFeatures`, `BatchedBody`, `AddRpaths`, `TlsDelivery`),
`LayerLifecycle` and `IPTablesChain` in one run. Its variable `input` is chosen in `Init`.
For the pure functions it is one of every bounded input of every function,
and it never changes, so each invariant covers all inputs. The input kind
`life` starts `LayerLifecycle` instead, and its state machine runs. The
input kind `chain` runs `IPTablesChain`, instantiated with one caller, three
rules, failing iptables calls and a counter bound of 5. The two state
machines have their own variables, and each leaves the other's unchanged.

### SessionIdentifier

Identifiers are records over two addresses and three ports. The module
defines two operators:

- `TcpEq`: the code's equality. Two identifiers are equal if they are the
  same 4-tuple or its exact reverse.
- `HashInput`: the code's hash input. It sorts the two addresses and,
  independently, the two ports.

The module has no variables. `Sniffer` looks sessions up the way
`HashMap::get_mut` does: among the keys whose `HashInput` equals the
packet's, it takes the one `TcpEq` calls equal. The `sniffer` run then
checks `ReplyFindsSession`: a packet of either direction of a flow that
has a session is never dropped. A hash that feeds the ports unsorted
breaks it in two steps: a SYN opens the session, and the reply finds
nothing.

### Sniffer

State:

| Variable | Code |
|---|---|
| `clientTxs` | `client_txs` |
| `subs` | the port subscriptions |
| `filter` | the installed BPF port set |
| `sessions` | the session map: id to broadcast instance and receivers |
| `log` | each broadcast instance's sent sequence |
| `rx` | each receiver's cursor into `log` |
| `queue` | each client's bounded connection queue |
| `got` | what each client has read |
| `cmds` | the command channel |

The history variable `lostPayload` is set when `handle_packet` drops a
payload whose flow, in either direction, has a session in the map.

- **The loop.** `Next` picks any of the loop's sources, as `select!` does.
  - `HandleCommand` handles `NewClient`, `Subscribe` and `UnsubscribePort`.
  - `HandleClientClosed` handles a client's closed future.
  - `HandlePacket` handles one captured packet. Each packet is a flow from
    `PacketIds`, a flag set from `PacketFlags` and a payload of 0 or 1.
- **Client actions.** The client side is modelled from `spec.md` §4.8
  because `api.rs` is not in this tree. A client may:
  - send commands;
  - receive a connection from its queue;
  - read data from its receiver;
  - drop, which closes its sender.
- **Abstractions.**
  - The port subscriptions are a relation. `Subscriptions` in `util.rs` is
    not in this tree.
  - The broadcast channel is a sequence with cursors. A receiver further
    than `DataCap` behind lags. On a lag the code closes the connection for
    that client, and the model does the same.

### PathResolution

`ResolvePath(req)` is a `RECURSIVE` translation of `resolve_path`:

- `..` pops a component. A `..` at the root is refused.
- A symlink's target replaces the path if it is absolute. If it is
  relative, it is appended unresolved.

Two reference lookups check it:

- `HostLookup`: the kernel's lexical lookup of the joined host path. Its
  `inside` field says whether the path stayed below the root.
- `TargetLookup`: the lookup the target container itself would do.

`MCStandalone` enumerates every request of up to `MaxDepth` components.

### TargetSelection

A pod is a record:

- `ambient`: the `ambient.istio.io/redirection` annotation.
- `status`: whether `.status` is present.
- `containers` and `inits`: the names of the container statuses and of the
  init-container statuses.
- `hasContainers` and `hasInits`: whether those fields are present.

`CheckMeshVendor` follows the code's order: the ambient annotation, the `?`
returns on absent fields, then the name lists tested in the code's order.
`ChooseContainer` keeps the iterator's behaviour: `picked_from_many` is set
in the fallback, or when a second candidate follows the first. The harness
compares the chosen container with `ChoiceReference`, the three steps the
doc comment states, written with sets and the least index. The returned
flag is not compared. The doc comment says it reports "whether we are [in
a mesh] or not", but the code computes `picked_from_many`, which is about
how many candidates there were. The caller that reads the flag is not in
this tree. `CheckMeshVendor` is modelled but no run checks it (see the
hazard at `container.rs:159`).

### RolloutResolution

An Argo Rollout gives its pod template inline or through a `workloadRef`
to another workload. `GetPodTemplate` and `GetMatchLabels` are the two
`match` statements, written as `IF` chains so that the first matching arm
wins. The `WorkloadRef` module is not in this tree. What fetching the
reference gives is therefore part of the input: found, an unknown kind
(`Ok(None)`, turned into `invalid_state`), or an API error.

`RolloutMatchesReference` compares both functions with the rules in
their doc comments: the template comes from exactly one source, and the
rollout's own selector overrides the workload's. The code follows these
rules. One consequence: a rollout that fills both `template` and
`workloadRef` fails the template lookup but passes the selector lookup.

### AddRpaths

`add_rpaths` (macOS SIP patching) builds the arguments of
`install_name_tool` as `-add_rpath`, the entries interspersed with
`-add_rpath`, then the binary's path. `Intersperse` is a fold over the
entries and `Args` is the whole command line. `AddRpaths` adds the early
return for an empty list and maps the child's outcome (not spawned, success,
failure) to the result. The harness checks it over every list of up to three
entries, repeats included, against the doc comment's "a loader command for
each given rpath entry".

### TlsDelivery

`LocalTlsDelivery::verify` is a `match` whose first matching arm wins,
followed by a check of `server_name`. `Verify` is the arms as an IF chain in
their order: `tcp` skips the TLS checks, `trust_roots` with `server_cert`
is a conflict, and an empty `trust_roots` is invalid. `ServerNameCheck` is
the check after the match, which runs for both protocols. `ServerNameValid`
stands for rustls's `ServerName::try_from`, with names abstracted to a DNS
name, an IP address, or neither. The inline comment of the `tcp` arm says
"other settings are ignored", yet a `tcp` configuration with an invalid
`server_name` is rejected. That agrees with the field's own documentation
("Must be a valid DNS name or an IP address"), which the property follows.

### OperatorFeatures

Feature lists are sets, since the code only calls `contains`. `Option`
fields are sequences of at most one element. `New` fills the deprecated
`features` and `copy_target_enabled` for old clients. `Decode` is serde's
`#[serde(other)]` fallback to `Unknown`. `SupportedFeatures` follows the
`or_else` chain of the code. `OldClientFeatures` is what a client from
before `supported_features` reads, per the fields' doc comments.

### BatchedBody

A body is the sequence of outcomes of its polls:

- a frame (`"a"` or `"b"`);
- `"pending"`: not ready;
- `"end"`: finished;
- `"error"`: an `Err` frame.

`AwaitFrame` skips pending polls, as the `await` does. `ExtendWithReady` is
the `now_or_never` loop. An `Err` returns at once through `?`, dropping the
batch. The harness's `Batches` is the caller's loop: it calls `NextFrames`
until a batch is last or an error comes back.

### FileManager

State:

| Variable | Code |
|---|---|
| `fs` | the target's tree: `Dir` or `[size]` per path |
| `openFiles` | `open_files` |
| `dirStreams` | `dir_streams` |
| `getdents` | `getdents_streams` |
| `nextId` | the `fds_iter` generator |

Auxiliary history variables:

- `closedFiles` and `closedDirs`: the ids closed so far.
- `zeroAt`: where a getdents64 call returned 0 entries.
- `escaped`: set when a host path outside the target root was used.
- `statWrong`: set when an xstat looked up a node other than the one its
  path names.

The constant `RootComps` is `root_path` below `/`. It is
`<<"proc", "1", "root">>` for an agent with a target pid and `<<>>` for
one without (`get_root_path_from_optional_pid`). Directory entries keep
root-relative paths: `HostPath` adds the root back where the code uses the
stored host path as it is.

There is one action per request handler: Open, OpenRelative, Read,
ReadLine, Write, WriteLimited, Seek, Close, CloseDir, FdOpenDir, ReadDir,
ReadDirBatch, GetDEnts64, Mkdir, MkdirAt, Rmdir, Unlink, UnlinkAt,
ReadLimited, Access, XstatFs, ReadLink and Xstat. A failing handler returns
an error response and changes nothing (`Fail`). A read-only handler that
succeeds does the same (`Reply`).

`Xstat` takes the code's three request shapes:

- stat or lstat of an absolute path;
- fstatat of a relative path and a directory id;
- fstat of an id.

For fstatat the code joins the path to the directory's stored host path.
It then strips the `/` and resolves the result against `root_path` a second
time. The model does the same with `HostPath`. `ReadLink` and the lstat
branch use `root.join` without `resolve_path`, so `..` sets `escaped`
there, as it does for `open_relative`.

Abstractions:

- File contents are a size and a cursor.
- getdents64 entries have the code's record size, 8-aligned and depending
  on the name length.
- A getdents64 stream yields `CurrentAndParent` first, then the directory's
  entries (`GetDEnts64Stream::next`). `..` is only there when the host path
  has a parent, so the plain root `/` has no `..` entry.
- `FileManager` instantiates `PathResolution` without symlinks, so each
  module checks its own concern.

### IPTablesChain

State:

| Variable | Code |
|---|---|
| `exists`, `rules` | one chain in the `nat` table, its rules ending in `RETURN` |
| `handle` | the handle's lifecycle |
| `size` | `chain_size` |
| `pc`, `idx` | per calling thread |

Each operation is an action or a pair of actions:

- `add_rule` is `AddRule` (the `fetch_add`) followed by `InsertRule` (the
  insert, or the rollback on error).
- `remove_rule` is `RemoveRule` (the delete) followed by `RemoveRuleCount`
  (the `fetch_sub`).
- `Create`, `Load` and `Drop` follow `IPTableChain::create`, `load` and
  `drop` with every failure outcome of the iptables commands they issue.
- `Crash` and `Restart` model the agent process being killed and a new
  agent starting. The chain survives in the kernel.
- The wrapper commands are their own definitions. `CreateChain` is `-N`
  then `-A -j RETURN`. `ListRulesLen` is the length of `-S` output.
  `DeleteRuleOk` and `DeleteRule` are `-D`. `RemoveChain` is `-F` then
  `-X`. Each stops at its first error.

`RedirectChain` is the abstract specification of a chain: whether it is
present, and the list of redirect rules a packet traverses. That list
changes only in four ways:

- a rule is added at its end;
- the first occurrence of a rule is removed;
- the chain is emptied;
- the chain is deleted.

`IPTablesChain` instantiates it with the refinement mapping
`present <- exists, redirects <- Traversed`. `Traversed` is the prefix of
the rules before the first `RETURN`, or all of them when there is none: the
end of a user-defined chain returns to its caller as `RETURN` does. A
partial create or a failed delete maps to an empty chain.

### LayerFiles

State:

| Variable | Code |
|---|---|
| `kernel` | the process's allocated descriptor numbers; the kernel hands out the lowest free one |
| `table` | `OPEN_FILES`: local fd to remote id |
| `agentOpen` | the remote ids open on the agent |
| `held` | what each application thread believes its descriptors are |

Actions:

- `OpenRemote` then `Install`: `open_detour` on a remote path. The agent
  answers with an id. A placeholder fd is then taken and the pair
  inserted; a replaced entry drops its remote file.
- `OpenLocal`: the bypass to libc.
- `FopenRemote` and `FopenLocal`: `fopen_detour`'s two outcomes. They change
  the table exactly as `open_detour` does.
- `Close` then `CloseLayerFd`: `close_detour`, which closes the fd in libc
  first and removes the table entry second.
- `CloseNocancelDetour`, `DunderCloseNocancelDetour`, `DunderCloseDetour`:
  the other close symbols, each a call to `close_detour`.
- `UvFsClose`: `uv_fs_close_detour`, which removes the entry first.
- `ReadDetour`, `FreadDetour`, `FilenoDetour`, `LseekDetour`, `WriteDetour`,
  `FdopenDetour`: look the fd up in `OPEN_FILES` and forward the call to
  the agent or to libc (`Forward`). The history variable `misrouted`
  records a call that reached another file than its descriptor's.
- `OpenatDetour`: a relative `openat` whose directory fd is looked up the
  same way.

Dropping a remote file sends `Close` to the agent. The placeholder and that
drop live in `file::ops`, which is not in this tree; they are modelled from
`spec.md` §4.2.

`FairSpec` adds weak fairness for `Install` and `CloseLayerFd` of every
thread. These are the second halves of `open_detour` and `close_detour`;
see Fairness below.

### LayerLifecycle

State:

| Variable | Code |
|---|---|
| `proc` | per process: alive or not; its environment (`LD_PRELOAD` holds the layer, `MIRRORD_LAYER_TRACE_ONLY`, `MIRRORD_REMOTE_ENV_FETCHED`); `PROXY_CONNECTION` (the index of its session, 0 when unset); whether `enable_hooks` ran; how many times its lineage applied the remote environment (a history field) |
| `sessions` | the sessions the internal proxy opened, `New` or `Forked` from a parent session |
| `config` | `feature.env.load_from_process` and trace-only mode |

Actions:

- `Launch`: mirrord starts the root program with the layer preloaded.
- `Exec(p)`: `execve` keeps the environment or replaces it with one
  without the layer. The constructor runs in the new image
  (`LayerPreInitialization`):
  - nothing happens without the layer;
  - `LoadOnlyLayerStart` runs for a program in `skip_processes`;
  - otherwise `LayerStart` runs. It hooks, and unless trace-only it opens a
    `New` session. It calls `FetchEnvVars` when `load_from_process` is set
    and the marker is absent, and then sets the marker.
- `Panic(p)`: a refused connection, or a failed fetch after the session
  opened, panics in the constructor, and the process exits (`spec.md` §7).
- `ForkDetour(p, c)`: the child copies the parent. With hooks and a
  connection, the child opens a `Forked` session, or dies when that fails.
- `Exit(p)`.

The internal proxy is not in this tree. Its session requests are modelled
from `spec.md` §4.4 (`OpenSession`).

## Runs

| Run | Config | Expect | What it shows |
|---|---|---|---|
| sniffer | `MCSniffer.cfg` | pass | A reply finds the session its request opened (`ReplyFindsSession`). The filter equals the subscribed ports after every handler (`FilterMatchesTopics`). Every client's data is a prefix of what was captured (`ReceivedIsPrefix`). |
| sniffer_zombie | `MCSniffer_zombie.cfg` | violation | Under `FairSpec`, `AllGoneClearsFilter` fails: a `Subscribe` handled after its client's close leaves a subscriber with no sender, the state that `handle_packet` logs as "this is a bug". No later close removes it, so after every client has gone the port stays in the BPF filter forever (a stuttering lasso of 17 steps). With a `Subscribe` that checks `client_txs` the property holds. |
| standalone | `MCStandalone.cfg` | pass | With absolute links and shallow relative links, resolution stays in the root and agrees with the target's own lookup (`ResolveStaysInRoot`, `ResolveMatchesTarget`). `choose_container` picks the container its doc comment's three steps name, for every order of statuses (`ChoiceMatchesReference`). Old and new clients read the same features from a current operator, and a newer feature shows as `Unknown` (`FeatureViewsAgree`). The caller's loop over `next_frames` delivers the body's frames once each, in order, with the end on the last batch (`BatchesDeliverBody`). A rollout's template and selector resolve, and come from the rollout or its referenced workload, as the doc comments say (`RolloutMatchesReference`). `add_rpaths` passes `install_name_tool` one `-add_rpath ENTRY` pair per entry, in order, then the binary, and runs nothing for no entries (`RpathArgsPaired`). For protocol `tls`, `LocalTlsDelivery::verify` accepts exactly the settings its field documentation allows, and each error names a rule the settings break (`TlsVerifyMatchesDocs`). Protocol `tcp` is left out: the `Tcp` arm's comment says the other settings are ignored, but the `server_name` check after the match still rejects a `tcp` configuration with an invalid name. With one iptables caller, failures, crashes and reloads, `chain_size` equals the chain's rule count (`CounterMatchesChain`) and `RETURN` stays last (`RulesBeforeReturn`). The chain handle implements `RedirectChain` (`ImplementsRedirectChain`). In a tree of four processes that fork and exec hooked and skipped programs, two live hooked processes never share a proxy session, and a trace-only tree opens none (`SessionsNotShared`). No lineage applies the remote environment twice (`EnvFetchedOnce`). |
| paths_deeplink | `MCStandalone_deeplink.cfg` | violation | `/d/e -> ../../f` resolves above the target root. |
| files | `MCFileManager.cfg` | pass | Ids are never reused or shared between tables (`IdsNeverAlias`). |
| files_getdents_zero | `MCFileManager_getdents.cfg` | violation | A 24-byte buffer gets 0 entries before a 32-byte entry, a false end of directory. |
| files_escape | `MCFileManager_escape.cfg` | violation | `read_link("/..")` joins `..` to `root_path` without `resolve_path` and leaves the target root: TLC's shortest trace is this one request. `open_relative` of `../..` from the open directory `/d` leaves it the same way in two steps. |
| files_fstatat | `MCFileManager_fstatat.cfg` | violation | With root `/proc/1/root`, opening `/d` and then running fstatat on `f` stats `proc/1/root/d/f` below the root, not `d/f` (`StatNamesItsNode`). |
| iptables_orphan | `MCIPTablesChain_orphan.cfg` | violation | spec.md section 3 says every created chain has a live handle and is deleted when the handle drops, even on failure paths (`ChainHasOwner`). `create_chain`'s `-N` succeeds and its `RETURN` append fails, so `create` returns the error with no handle and the chain stays in the `nat` table. `Drop` discarding a failed `remove_chain` leaves a chain the same way. |
| layer_files | `MCLayerFiles.cfg` | pass | With three threads, the agent holds open exactly the remote files the layer can still reach; a lost entry is always released on the agent (`AgentMatchesTable`). Under `FairSpec`, a remote file that no thread can still use is eventually closed on the agent (`ReleasedFilesClose`). |
| layer_fd_reuse | `MCLayerFiles_reuse.cfg` | violation | Between `close_detour`'s libc close and its table removal, another thread's `open` gets the same number, and its next call is sent to the closing thread's remote file (`CallsReachOwnFile`). |
| iptables_concurrent | `MCIPTablesChain_concurrent.cfg` | violation | Two concurrent `add_rule` calls put a redirect rule after `RETURN`, where no packet reaches it. |

Each property of a passing run has a mutant in `PROJECT.json`: a plausible
bug in the definition it depends on, which TLC must catch. Examples:

- the hash with the ports not sorted;
- a rollback dropped from `add_rule`;
- `close` recycling an id;
- `add_rule` inserting without its index, so `-I` puts the rule first (for
  the refinement);
- `choose_container` falling back to the unnamed choice when the named
  container is missing;
- `copy_target_enabled` computed from the wrong feature;
- a not-ready poll taken for the end of the body;
- `get_match_labels` preferring the referenced workload's selector;
- `intersperse` putting the flag after the last entry too;
- `verify`'s catch-all arm returning `Ok` before the `server_name` check;
- `fork_detour` keeping the parent's connection in the child;
- `fork_detour` without the trace-only early return;
- `layer_start` not setting `MIRRORD_REMOTE_ENV_FETCHED`;
- a failed placeholder open that does not release the agent's file (the
  mutant for the liveness property).

## Bounds and why they suffice

- **Sniffer.**
  - Two clients and one subscribable port. This gives shared subscriptions,
    the last-unsubscriber case, and a close racing a command.
  - Two packet flows: one flow and its reverse, so the reverse lookup is
    exercised.
  - Flags are SYN, ACK and ACK+FIN.
  - Queue and data capacity 1, so both overflow paths are reached.
  - Three client commands and three packets.
  - The zombie trace needs five steps. The lag needs two payloads after one
    read.
  - `sniffer_zombie` is a liveness check and sets `MaxPackets = 0` and
    `MaxSessions = 1`: packets play no part in the leak, and without them
    the state graph is 13,812 states, which TLC searches for a lasso in
    seconds.
- **FileManager.**
  - Two ids. Aliasing needs two, and the id generator is exhausted after
    that.
  - A tree of a directory and a file. An absent path gives the failing
    branches.
  - Buffers of 24 and 64 bytes, one short entry and one long one.
  - The long name is only in the getdents violation run, to keep the
    passing run under the time limit.
  - The passing run uses the pid-less root `/`, where fstatat is correct.
    The violation runs use `/proc/1/root`. One directory open and one
    relative name are enough to show the doubled root.
- **LayerFiles.** Three threads and two descriptor numbers, so a freed
  number is handed to another thread at once. The third thread can open or
  close while two others race on one number. Three remote ids, enough for
  an overwrite and a fresh open after it. The violation run keeps two
  threads, because its trace needs only two. The passing run has 183
  thousand distinct states and takes about 25 seconds.
- **Pure functions** (`MCStandalone.cfg`).
  - Paths: every request of up to 3 components over the names and `..`,
    with links of each kind.
  - Pods: every injective order of up to 3 of the container names `app`,
    `istio-proxy`, `linkerd-proxy` and `vault-agent`. Every order of up to 2
    of the init names `istio-init`, `istio-validation` and `linkerd-init`.
    Every ambient value, and absent fields.
    - This covers CNI and classic Istio, Linkerd, no mesh, and pods with
      only skipped containers.
    - Configured names: none, one present name, one skipped name and one
      missing name.
  - Rollouts: every combination of the template, `workloadRef` and
    selector fields, with the reference found, unknown or failing, and a
    rollout without `.spec`.
  - Operators: every subset of the four known features plus one unknown
    feature.
  - Bodies: up to 4 polls of two frames or pending, then the end or an
    error. That is enough for two batches, a pending in the middle of a
    batch, and an error after ready frames.
  - Lifecycle: four processes, the programs `app` and `skipped` (in
    `skip_processes`), and at most four proxy sessions. Three forks and
    execs in any order reach a great-grandchild, a fork after an exec, two
    hooked children of a skipped parent, and a fork of a forked child. Both configuration flags take both
    values. `CHECK_DEADLOCK FALSE`: the tree stops when its processes have
    exited or all ids are used.
- **IPTablesChain.**
  - In the passing checks, a counter bound of 5 and three rules, so a
    chain can hold four redirect rules plus `RETURN`. A rule can then occur
    twice, and `remove_rule` deleting the first match differs from
    deleting another. `iptables_orphan` keeps a bound of 4 and two rules;
    one failing command is enough there.
  - One caller in the passing checks (input kind `chain` of
    `MCStandalone`), because two callers violate `RulesBeforeReturn`.
  - `ChainHasOwner` is checked alone in `iptables_orphan`, because a single
    failing iptables command violates it. The passing checks still include
    those failures.

## Fairness

There are two liveness properties, `ReleasedFilesClose` and
`AllGoneClearsFilter`.

`ReleasedFilesClose`'s run uses `LayerFiles`'s `FairSpec`, which gives weak
fairness to `Install(t)` and `CloseLayerFd(t)` of every thread. Why the
code justifies it:

- Each is the second half of a detour that a thread has already entered
  (`open_detour` after the agent's answer, `close_detour` after the libc
  close).
- Neither step blocks on anything but the `OPEN_FILES` mutex. Every holder
  releases that mutex at the end of its statement.
- The OS keeps scheduling a runnable thread.
- An idle thread is under no obligation to call anything, so the actions
  that start a detour get no fairness.

`AllGoneClearsFilter`'s run uses `Sniffer`'s `FairSpec`, which gives weak
fairness to the handlers of `start`'s `select!`: `HandleNewClient`,
`HandleSubscribe`, `HandleUnsubscribe` and `HandleClientClosed(c)`.

- tokio's `select!` starts polling from a random branch on every
  iteration. A branch whose future stays ready (a queued command, a
  resolved `ClientClosed`) is therefore taken eventually, though within no
  bound.
- The clients and the network get no fairness: a client may never send,
  and packets may never arrive.

Every other property is a safety property, and no other run assumes
fairness. Clients, the file manager's caller and iptables' callers may
stop at any time.

## Not modelled

| Part | Why |
|---|---|
| `SafeIpTables` redirect strategies | `standard.rs`, `prerouting.rs` and `mesh` are not in this tree. `lib.rs` only dispatches to them. |
| Layer start-up details | `init_tracing` and the list of hooked symbols are logging and installation. macOS SIP handling is gated to macOS. A forked child's inherited `OPEN_FILES` table needs the proxy's handling of a forked session, which is not in this tree. |
| `TargetCrd::urlfied_name` | The operator, which parses the name, is not in this tree. The name joins type, name and container with dots, and Kubernetes names may contain dots, so two targets can get the same name. With no run slot left, this is recorded as a hazard. |
| `EnvFetchedOnce` per process tree | `spec.md` §6 says the marker makes the fetch happen once per process tree. A root listed in `skip_processes` never sets it, so each of its hooked children fetches again. No run slot is left for a violation run; this is recorded as a hazard. |
| `dns.rs` | The two `From` conversions copy the node and fill the rest with constants; there is no decision to check. Their caller and the protocol codec are not in this tree. The enums' promise that an old agent sees the `Unknown...FromNewerClient` variant comes from `#[serde(other)]`, while the request also derives bincode's index-based `Decode`. This is recorded as a hazard. |
| `BatchedBody::ready_frames` | One call of `extend_with_ready` with an empty batch. No caller is in this tree. |
| Agent `setup.rs` | Wiring of tasks at start-up: each task gets a command channel of capacity 1000, and a sniffer that fails to start leaves the sniffer `Disabled`. No decision in it changes a modelled task's state. |
| The sniffer's exit branches | `start`'s `select!` also leaves the loop when the cancellation token fires or the command channel closes. The agent keeps a command sender for its whole life, and cancellation ends the task and drops the capture with its filter. No property is about a stopped sniffer, so `Sniffer` has no stop action. |
| kube `container.rs` builders, `rollout.rs`'s `Resource` impls, `replica_set.rs`; other `crd.rs` resources; `experimental.rs` | API object construction, type definitions and configuration defaults, with no decision to check. |
| `crd.rs` queue and session resources | `registry_matches`, `get_split_details`, `is_session_ready` and `output_queue_names` are read by the operator, which is not in this tree, and `spec.md` puts queue splitting out of scope. `QueueConsumerType` turns every unknown workload type into `Unsupported`, and `registry_matches` compares types with `==`, so two unknown kinds compare equal. This is recorded as a hazard. |

## Running

```
tlc -workers 2 -config MCSniffer.cfg MCSniffer
```

The largest runs take about 2.5 minutes: `sniffer`, with 1.2 million
distinct states, and `files`, with 175 thousand.
